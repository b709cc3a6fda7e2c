------------------------------- MODULE Codec -------------------------------
(***************************************************************************)
(* The encodings of the four messages: HandshakeOffer, HandshakeResponse   *)
(* and HandshakeConfirmation (handshake.py) and MessageEnvelope (wire.py), *)
(* each with its to_bytes, its from_bytes and the tests of its             *)
(* constructor.                                                            *)
(*                                                                         *)
(* A document is the JSON text as far as from_bytes can tell texts apart:  *)
(* its members in the order they are written, the spelling of each value,  *)
(* and whether anything else, such as a space, is between them.  A value   *)
(* is the facts about it that the code tests; its size in bytes is kept,   *)
(* its characters are not.  The model starts from what to_bytes returns    *)
(* and lets the transport change one thing after another.                  *)
(***************************************************************************)
EXTENDS Integers, Sequences, Functions

CONSTANTS
  Messages,         \* [kind, values]: messages the constructors accept
  Alternatives,     \* [classes of fields -> data a member may be changed to]
  MAX_MESSAGE_SEQUENCE,
  MaxDamages        \* bound on the number of changes to a document

ASSUME MaxDamagesAssumption == MaxDamages \in Nat

VARIABLES
  message,          \* the message that was encoded
  document,         \* its encoding, changed damages times on the way
  damages

vars == <<message, document, damages>>

-----------------------------------------------------------------------------
(* Schemas *)

Kinds == {"offer", "response", "confirmation", "envelope"}

CommonFields == {"kind", "v", "suite", "initiator", "responder"}
OfferFields == CommonFields \cup
  {"initiator_ephemeral_public_key", "initiator_signing_public_key", "signature"}
ResponseFields == OfferFields \cup
  {"responder_ephemeral_public_key", "responder_signing_public_key",
   "responder_key_confirmation"}
ConfirmationFields == CommonFields \cup
  {"initiator_ephemeral_public_key", "responder_ephemeral_public_key",
   "initiator_key_confirmation", "signature"}
EnvelopeFields == {"v", "suite", "sender", "recipient", "sequence", "ciphertext"}

Fields(kind) ==
  CASE kind = "offer" -> OfferFields
    [] kind = "response" -> ResponseFields
    [] kind = "confirmation" -> ConfirmationFields
    [] kind = "envelope" -> EnvelopeFields

\* The keys of the dictionaries that the to_bytes hand to json.dumps, in the
\* order in which sort_keys writes them.
OfferKeys ==
  <<"initiator", "initiator_ephemeral_public_key", "initiator_signing_public_key", "kind",
    "responder", "signature", "suite", "v">>
ResponseKeys ==
  <<"initiator", "initiator_ephemeral_public_key", "initiator_signing_public_key", "kind",
    "responder", "responder_ephemeral_public_key", "responder_key_confirmation",
    "responder_signing_public_key", "signature", "suite", "v">>
ConfirmationKeys ==
  <<"initiator", "initiator_ephemeral_public_key", "initiator_key_confirmation", "kind",
    "responder", "responder_ephemeral_public_key", "signature", "suite", "v">>
EnvelopeKeys == <<"ciphertext", "recipient", "sender", "sequence", "suite", "v">>

FieldOrder(kind) ==
  CASE kind = "offer" -> OfferKeys
    [] kind = "response" -> ResponseKeys
    [] kind = "confirmation" -> ConfirmationKeys
    [] kind = "envelope" -> EnvelopeKeys

\* What the value of a field is.
Class(field) ==
  CASE field \in {"initiator", "responder", "sender", "recipient"} -> "name"
    [] field \in {"v", "sequence"} -> "int"
    [] field \in {"kind", "suite"} -> field
    [] OTHER -> "hex"

PROTOCOL_VERSION == 1
MAX_PROTOCOL_VERSION == 65535
MAX_PARTICIPANT_NAME_BYTES == 255
MAX_SUITE_NAME_BYTES == 64
AEAD_TAG_BYTES == 16
MAX_CIPHERTEXT_BYTES == 1048576 + AEAD_TAG_BYTES

\* Faulty: the envelope leaves too little room for escaped names.
MaxBytesTight(kind) == IF kind = "envelope" THEN 2 * MAX_CIPHERTEXT_BYTES + 1024 ELSE 4096

\* MAX_HANDSHAKE_MESSAGE_BYTES and MAX_ENVELOPE_BYTES.
MaxBytes(kind) == IF kind = "envelope" THEN 2 * MAX_CIPHERTEXT_BYTES + 4096 ELSE 4096

-----------------------------------------------------------------------------
(* The constructors *)

\* A message is the value of each field, as json.loads gave it or as to_bytes
\* writes it: [type, data, spelling].

ValidName(v) ==
  /\ v.type = "str"
  /\ v.data.bytes \in 1 .. MAX_PARTICIPANT_NAME_BYTES
  /\ v.data.stripped
  /\ v.data.printable

ValidVersion(v) == v.type = "int" /\ v.data.number = PROTOCOL_VERSION
ValidSuite(v) == v.type = "str" /\ v.data.word \in {"AES_GCM_SIV", "CHACHA20_POLY1305"}

\* _decode_hex returns a value of so many bytes.
ValidHex(v, bytes) == v.type = "str" /\ v.data.digits = 2 * bytes /\ v.data.lowercase

ValidParticipants(m) ==
  /\ ValidName(m["initiator"])
  /\ ValidName(m["responder"])
  /\ m["initiator"] # m["responder"]

ValidOfferFields(m) ==
  /\ ValidVersion(m["v"])
  /\ ValidSuite(m["suite"])
  /\ ValidParticipants(m)
  /\ ValidHex(m["initiator_ephemeral_public_key"], 32)
  /\ ValidHex(m["initiator_signing_public_key"], 32)

ValidOffer(m) == ValidOfferFields(m) /\ ValidHex(m["signature"], 64)

ValidResponse(m) ==
  /\ ValidOfferFields(m)
  /\ ValidHex(m["responder_ephemeral_public_key"], 32)
  /\ m["responder_ephemeral_public_key"] # m["initiator_ephemeral_public_key"]
  /\ ValidHex(m["responder_signing_public_key"], 32)
  /\ ValidHex(m["responder_key_confirmation"], 32)
  /\ ValidHex(m["signature"], 64)

ValidConfirmation(m) ==
  /\ ValidVersion(m["v"])
  /\ ValidSuite(m["suite"])
  /\ ValidParticipants(m)
  /\ ValidHex(m["initiator_ephemeral_public_key"], 32)
  /\ ValidHex(m["responder_ephemeral_public_key"], 32)
  /\ m["responder_ephemeral_public_key"] # m["initiator_ephemeral_public_key"]
  /\ ValidHex(m["initiator_key_confirmation"], 32)
  /\ ValidHex(m["signature"], 64)

\* wire.py has its own tests: it lets through what a later version may send.
ValidProtocolVersion(v) == v.type = "int" /\ v.data.number \in 1 .. MAX_PROTOCOL_VERSION
ValidSuiteName(v) ==
  v.type = "str" /\ v.data.bytes \in 1 .. MAX_SUITE_NAME_BYTES /\ v.data.pattern
ValidParticipantName(v) == ValidName(v)
ValidCiphertext(v) ==
  /\ v.type = "str"
  /\ v.data.digits % 2 = 0
  /\ v.data.lowercase
  /\ v.data.digits \div 2 \in AEAD_TAG_BYTES .. MAX_CIPHERTEXT_BYTES

ValidEnvelope(m) ==
  /\ ValidProtocolVersion(m["v"])
  /\ ValidSuiteName(m["suite"])
  /\ ValidParticipantName(m["sender"])
  /\ ValidParticipantName(m["recipient"])
  /\ m["sender"] # m["recipient"]
  /\ m["sequence"].type = "int"
  /\ m["sequence"].data.number \in 0 .. MAX_MESSAGE_SEQUENCE
  /\ ValidCiphertext(m["ciphertext"])

ASSUME MessagesAssumption ==
  \A m \in Messages :
    /\ m.kind \in Kinds
    /\ m.values = [f \in Fields(m.kind) |-> m.values[f]]
    /\ \A f \in Fields(m.kind) :
         m.values[f] = [type |-> m.values[f].type, data |-> m.values[f].data,
                        spelling |-> "plain"]
    /\ m.kind # "envelope" => m.values["kind"].type = "str" /\ m.values["kind"].data = m.kind
    /\ m.kind = "offer" => ValidOffer(m.values)
    /\ m.kind = "response" => ValidResponse(m.values)
    /\ m.kind = "confirmation" => ValidConfirmation(m.values)
    /\ m.kind = "envelope" => ValidEnvelope(m.values)

\* How many bytes json.dumps writes for a value the constructors accept: of the
\* printable characters only quotes and backslashes are escaped in a handshake
\* message, to two bytes; in an envelope a letter of two bytes becomes \uXXXX, one
\* of four bytes two of them.  No number exceeds 2^64 - 1.
ASSUME EscapesAssumption ==
  \A m \in Messages : \A f \in Fields(m.kind) :
    LET x == m.values[f].data
    IN  /\ Class(f) = "name" => x.utf8 \in 0 .. 2 * x.bytes /\ x.ascii \in 0 .. 3 * x.bytes
        /\ Class(f) = "int" => x.digits \in 1 .. 20
        /\ Class(f) = "suite" => x.bytes \in 1 .. MAX_SUITE_NAME_BYTES
        /\ Class(f) = "hex" => x.digits \in Nat

\* The longest name of a field has 30 characters.
ASSUME LengthsAssumption ==
  \A s \in Kinds \cup UNION {Fields(k) : k \in Kinds} : Len(s) \in 1 .. 30

-----------------------------------------------------------------------------
(* Documents *)

\* Bytes of a value: names are escaped as json.dumps escapes them, to ASCII
\* in an envelope only; strings have quotes.
ValueBytes(kind, field, v) ==
  CASE Class(field) = "int" -> v.data.digits
    [] Class(field) = "kind" -> 2 + Len(v.data)
    [] Class(field) = "suite" -> 2 + v.data.bytes
    [] Class(field) = "name" -> 2 + IF kind = "envelope" THEN v.data.ascii ELSE v.data.utf8
    [] Class(field) = "hex" -> 2 + v.data.digits

\* "field":value and a comma, or the closing brace.
MemberBytes(kind, m) == Len(m.field) + 4 + ValueBytes(kind, m.field, m.value)

\* {"field":value,...}
Bytes(kind, d) ==
  LET upto[n \in 0 .. Len(d.members)] ==
        IF n = 0 THEN 1 ELSE upto[n - 1] + MemberBytes(kind, d.members[n])
  IN  upto[Len(d.members)]

\* Faulty: the version is written under the name it has in the class.
EncodeUnabridged(kind, values) ==
  [object |-> TRUE, spaced |-> FALSE,
   members |-> [i \in DOMAIN FieldOrder(kind) |->
     [field |-> IF FieldOrder(kind)[i] = "v" THEN "version" ELSE FieldOrder(kind)[i],
      value |-> values[FieldOrder(kind)[i]]]]]

\* The text to_bytes returns.
Encode(kind, values) ==
  [object |-> TRUE, spaced |-> FALSE,
   members |-> [i \in DOMAIN FieldOrder(kind) |->
     [field |-> FieldOrder(kind)[i], value |-> values[FieldOrder(kind)[i]]]]]

Fits(kind, d) == Bytes(kind, d) <= MaxBytes(kind)

\* json.loads with _reject_duplicate_keys: the values by field.
NoDuplicates(d) ==
  \A i, j \in DOMAIN d.members : d.members[i].field = d.members[j].field => i = j
Received(d) == {d.members[i].field : i \in DOMAIN d.members}
Decode(d) ==
  [f \in Received(d) |->
     [(CHOOSE m \in Range(d.members) : m.field = f).value EXCEPT !.spelling = "plain"]]

\* _parse_message returns.
Parses(kind, d) ==
  /\ Fits(kind, d)
  /\ d.object
  /\ NoDuplicates(d)
  /\ Received(d) = Fields(kind)
  /\ Decode(d)["kind"].type = "str" /\ Decode(d)["kind"].data = kind

\* Faulty: the text is not compared.
CanonicalAlways(kind, d) == TRUE

\* The message encodes to the very text received.
Canonical(kind, d) == Encode(kind, Decode(d)) = d

\* The four from_bytes return; Decode(d) is what they return.
OfferAccepted(d) == Parses("offer", d) /\ ValidOffer(Decode(d)) /\ Canonical("offer", d)

ResponseAccepted(d) ==
  Parses("response", d) /\ ValidResponse(Decode(d)) /\ Canonical("response", d)

ConfirmationAccepted(d) ==
  Parses("confirmation", d) /\ ValidConfirmation(Decode(d)) /\ Canonical("confirmation", d)

EnvelopeAccepted(d) ==
  /\ Fits("envelope", d)
  /\ d.object
  /\ NoDuplicates(d)
  /\ Received(d) = EnvelopeFields
  /\ ValidEnvelope(Decode(d))
  /\ Canonical("envelope", d)

Accepts(kind, d) ==
  CASE kind = "offer" -> OfferAccepted(d)
    [] kind = "response" -> ResponseAccepted(d)
    [] kind = "confirmation" -> ConfirmationAccepted(d)
    [] kind = "envelope" -> EnvelopeAccepted(d)

-----------------------------------------------------------------------------
(* Authentication *)

\* The fields of each message that its signature covers, or that are compared
\* with the message it answers before its signature is verified.
OfferSigned ==
  {"v", "suite", "initiator", "responder",
   "initiator_ephemeral_public_key", "initiator_signing_public_key"}
ResponseSigned == OfferSigned \cup
  {"responder_ephemeral_public_key", "responder_signing_public_key",
   "responder_key_confirmation"}
ConfirmationSigned ==
  {"v", "suite", "initiator", "responder",
   "initiator_ephemeral_public_key", "responder_ephemeral_public_key",
   "initiator_key_confirmation"}
\* The fields of MessageEnvelope.associated_data.
AssociatedFields == {"v", "suite", "sender", "recipient", "sequence"}

\* Faulty: the suite is authenticated nowhere.
AuthenticatedSuiteless(kind) ==
  CASE kind = "offer" -> OfferSigned \ {"suite"}
    [] kind = "response" -> ResponseSigned \ {"suite"}
    [] kind = "confirmation" -> ConfirmationSigned \ {"suite"}
    [] kind = "envelope" -> AssociatedFields \ {"suite"}

Authenticated(kind) ==
  CASE kind = "offer" -> OfferSigned
    [] kind = "response" -> ResponseSigned
    [] kind = "confirmation" -> ConfirmationSigned
    [] kind = "envelope" -> AssociatedFields

\* The field that authenticates them, which nobody can make for other data.
Authenticator(kind) == IF kind = "envelope" THEN "ciphertext" ELSE "signature"

\* from_bytes returns and the signature is verified, or the ciphertext opened.
\* What is signed is the data of the values, not their type in the text.
Authentic(d) ==
  /\ Accepts(message.kind, d)
  /\ \A f \in Authenticated(message.kind) \cup {Authenticator(message.kind)} :
       Decode(d)[f].data = message.values[f].data

-----------------------------------------------------------------------------
(* The transport *)

Init ==
  /\ message \in Messages
  /\ document = Encode(message.kind, message.values)
  /\ damages = 0

Damage(d) ==
  /\ damages < MaxDamages
  /\ damages' = damages + 1
  /\ document' = d
  /\ UNCHANGED message

\* A member's value is changed, or written another way: an escape, a zero's
\* sign.
Change(i) ==
  LET v == document.members[i].value
  IN  \E w \in {[v EXCEPT !.data = x] : x \in Alternatives[Class(document.members[i].field)]}
             \cup {[v EXCEPT !.type = "other"], [v EXCEPT !.spelling = "other"]} :
        Damage([document EXCEPT !.members[i].value = w])

Swap(i, j) ==
  Damage([document EXCEPT !.members[i] = document.members[j],
                          !.members[j] = document.members[i]])

Drop(i) ==
  Damage([document EXCEPT !.members =
            SubSeq(@, 1, i - 1) \o SubSeq(@, i + 1, Len(@))])

\* A member is repeated, perhaps under a name nobody knows.
Repeat(i) ==
  \E f \in {document.members[i].field} \cup
           (IF Class(document.members[i].field) = "hex" THEN {"extra"} ELSE {}) :
    Damage([document EXCEPT !.members = Append(@, [document.members[i] EXCEPT !.field = f])])

Next ==
  \/ \E i \in DOMAIN document.members :
       \/ Change(i)
       \/ Drop(i)
       \/ Repeat(i)
       \/ \E j \in DOMAIN document.members : i < j /\ Swap(i, j)
  \/ Damage([document EXCEPT !.spaced = TRUE])
  \/ Damage([document EXCEPT !.object = FALSE])

Spec == Init /\ [][Next]_vars

-----------------------------------------------------------------------------
TypeOK ==
  /\ message \in Messages
  /\ \A i \in DOMAIN document.members :
       document.members[i].field \in (UNION {Fields(k) : k \in Kinds}) \cup {"extra"}
  /\ damages \in 0 .. MaxDamages

(* Whatever a constructor accepts can be sent: with the longest names, the *)
(* most escapes and the largest ciphertext the text still fits the limit   *)
(* that to_bytes and from_bytes share, and from_bytes gives it back.       *)
RoundTrip ==
  damages = 0 =>
    /\ Accepts(message.kind, document)
    /\ Decode(document) = message.values

(* Only the very text that was sent authenticates as the message: there is *)
(* no field that is written but neither signed nor compared, and none that *)
(* from_bytes lets through as another type, in another order or in another *)
(* spelling of the same data.                                              *)
AuthenticIsSent ==
  Authentic(document) => document = Encode(message.kind, message.values)
=============================================================================

------------------------------ MODULE MCCodec ------------------------------
(* One message of each kind with short names and one as large as can be.   *)
(* Names of 255 bytes grow most when they are escaped: in a handshake      *)
(* message if they are all quotes, in an envelope if they are two-byte     *)
(* letters and one quote.                                                  *)
EXTENDS Codec

Name(word, bytes, utf8, ascii) ==
  [word |-> word, bytes |-> bytes, utf8 |-> utf8, ascii |-> ascii,
   stripped |-> TRUE, printable |-> TRUE]
alice == Name("alice", 5, 5, 5)
bob == Name("bob", 3, 3, 3)
Quotes(word) == Name(word, 255, 510, 510)
Letters(word) == Name(word, 255, 256, 764)

Value(type, data) == [type |-> type, data |-> data, spelling |-> "plain"]
Hex(data, bytes) == Value("str", [digits |-> 2 * bytes, lowercase |-> TRUE, data |-> data])
Number(number, digits) == Value("int", [number |-> number, digits |-> digits])
Suite(word, bytes, pattern) == [word |-> word, bytes |-> bytes, pattern |-> pattern]

Small == [first |-> alice, second |-> bob, suite |-> Suite("CHACHA20_POLY1305", 17, TRUE),
          v |-> Number(1, 1), ciphertext |-> AEAD_TAG_BYTES]

Large(kind) ==
  IF kind = "envelope"
  THEN [first |-> Letters("letters"), second |-> Letters("others"),
        suite |-> Suite("LONGEST", MAX_SUITE_NAME_BYTES, TRUE),
        v |-> Number(MAX_PROTOCOL_VERSION, 5), ciphertext |-> MAX_CIPHERTEXT_BYTES]
  ELSE [Small EXCEPT !.first = Quotes("quotes"), !.second = Quotes("others")]

ValueOf(kind, field, m) ==
  CASE field \in {"initiator", "sender"} -> Value("str", m.first)
    [] field \in {"responder", "recipient"} -> Value("str", m.second)
    [] field = "kind" -> Value("str", kind)
    [] field = "suite" -> Value("str", m.suite)
    [] field = "v" -> m.v
    [] field = "sequence" -> Number(MAX_MESSAGE_SEQUENCE, 20)
    [] field = "ciphertext" -> Hex(1, m.ciphertext)
    [] field = "signature" -> Hex(1, 64)
    [] field = "responder_ephemeral_public_key" -> Hex(2, 32)
    [] OTHER -> Hex(1, 32)

MCMessages ==
  UNION {{[kind |-> k, values |-> [f \in Fields(k) |-> ValueOf(k, f, m)]] :
            m \in {Small, Large(k)}} : k \in Kinds}

MCAlternatives ==
  [name |-> {alice, bob, [bob EXCEPT !.stripped = FALSE], Name("long", 256, 256, 256)},
   int |-> {[number |-> 0, digits |-> 1], [number |-> 2, digits |-> 1]},
   kind |-> Kinds,
   suite |-> {Suite("AES_GCM_SIV", 11, TRUE), Suite("ROT13", 5, TRUE), Suite("rot13", 5, FALSE)},
   hex |-> {[digits |-> 64, lowercase |-> TRUE, data |-> 1],
            [digits |-> 64, lowercase |-> TRUE, data |-> 2],
            [digits |-> 64, lowercase |-> FALSE, data |-> 2],
            [digits |-> 63, lowercase |-> TRUE, data |-> 2]}]
=============================================================================

------------------------------- MODULE Store -------------------------------
(***************************************************************************)
(* The file format of EncryptedStore (store.py): how save turns an object  *)
(* into bytes and which bytes load accepts.                                *)
(*                                                                         *)
(* An object is its top-level fields and, standing for every dictionary    *)
(* nested in it, the set of keys of one of them.  A key is a number, given *)
(* as an int or as the string of its digits: json.dumps writes the same    *)
(* text for both, but sorts ints by value and strings by their characters. *)
(* The value of a field is its Python type and its content.  "tuple" is a  *)
(* sequence that is or holds a tuple, and "unwritable" any value that      *)
(* json.dumps or the UTF-8 encoding refuses: bytes, a set, a NaN, half a   *)
(* surrogate pair.                                                         *)
(* Lengths in bytes are kept, the bytes are not.  Cryptography is symbolic *)
(* as in Session: Scrypt gives the pair of its inputs, and a ciphertext    *)
(* opens under the key and nonce it was made with.                         *)
(***************************************************************************)
EXTENDS Integers

CONSTANTS
  MAX_STORE_PLAINTEXT_BYTES,
  TextRank        \* order of the nested keys' digits as strings

STORE_VERSION == 1
STORE_FIXED_BYTES == 18 + 1 + 16 + 12      \* magic, version, salt, nonce
STORE_TAG_BYTES == 16
MAX_STORE_FILE_BYTES == STORE_FIXED_BYTES + MAX_STORE_PLAINTEXT_BYTES + STORE_TAG_BYTES

ASSUME MaxPlaintextAssumption == MAX_STORE_PLAINTEXT_BYTES \in Nat \ {0}
ASSUME TextRankAssumption ==
  \A m, n \in DOMAIN TextRank : TextRank[m] = TextRank[n] => m = n

\* A passphrase is [secret, length].
validate_passphrase(p) == p.length \in 16 .. 1024

-----------------------------------------------------------------------------
(* JSON *)

Str(content) == [type |-> "str", content |-> content]

\* What json.dumps writes a value as, and what json.loads reads it as.
JsonKind ==
  [str |-> "string", int |-> "integer", float |-> "real", bool |-> "boolean",
   NoneType |-> "null", list |-> "array", tuple |-> "array"]
ReadAs ==
  [string |-> "str", integer |-> "int", real |-> "float", boolean |-> "bool",
   null |-> "NoneType", array |-> "list"]

KeyBefore(j, k) ==
  IF j.type = "int" THEN j.number < k.number
  ELSE TextRank[j.number] < TextRank[k.number]

WriteFields(fields) ==
  [f \in DOMAIN fields |->
     [kind |-> JsonKind[fields[f].type], content |-> fields[f].content]]
ReadFields(members) ==
  [f \in DOMAIN members |->
     [type |-> ReadAs[members[f].kind], content |-> members[f].content]]

\* _encode_object: the text lists a dictionary's members in the order of
\* its keys, compactly.
Encode(object) ==
  [form |-> "compact", fields |-> WriteFields(object.fields), size |-> object.size,
   keys |-> {k.number : k \in object.nested},
   order |-> {<<p[1].number, p[2].number>> :
                p \in {q \in object.nested \X object.nested : KeyBefore(q[1], q[2])}}]

\* Top-level keys are strings, sorting never compares an int with a string,
\* and every value can be written.
EncodableAnySize(object) ==
  /\ object.string_keys
  /\ \A j, k \in object.nested : j.type = k.type
  /\ \A f \in DOMAIN object.fields : object.fields[f].type \in DOMAIN JsonKind

\* _encode_object returns.
Encodable(object) ==
  /\ EncodableAnySize(object)
  /\ object.size <= MAX_STORE_PLAINTEXT_BYTES

\* json.loads: nested keys come back as strings, and arrays as lists.  "other"
\* is text that is not JSON, not an object, or repeats a key.
Parses(text) == text.form # "other"
Parse(text) ==
  [fields |-> ReadFields(text.fields), size |-> text.size, string_keys |-> TRUE,
   nested |-> {[type |-> "str", number |-> n] : n \in text.keys}]

-----------------------------------------------------------------------------
(* Files *)

DeriveKey(passphrase, salt) == [passphrase |-> passphrase.secret, salt |-> salt]

\* The blob EncryptedStore.save writes.
Seal(passphrase, salt, nonce, text) ==
  [size |-> STORE_FIXED_BYTES + text.size + STORE_TAG_BYTES,
   magic |-> TRUE, version |-> STORE_VERSION, salt |-> salt, nonce |-> nonce,
   sealed |-> [key |-> DeriveKey(passphrase, salt), nonce |-> nonce, text |-> text,
               intact |-> TRUE]]

\* Faulty: the limit forgets what surrounds the plaintext.
SizeAcceptedShort(blob) ==
  blob.size \in (STORE_FIXED_BYTES + STORE_TAG_BYTES) .. (STORE_FIXED_BYTES + MAX_STORE_PLAINTEXT_BYTES)

SizeAccepted(blob) ==
  blob.size \in (STORE_FIXED_BYTES + STORE_TAG_BYTES) .. MAX_STORE_FILE_BYTES

\* AESGCMSIV(key).decrypt does not raise InvalidTag.
Opens(blob, passphrase) ==
  /\ blob.sealed.intact
  /\ blob.sealed.key = DeriveKey(passphrase, blob.salt)
  /\ blob.sealed.nonce = blob.nonce

\* EncryptedStore.load returns; Parse(blob.sealed.text) is what it returns.
Loads(blob, passphrase) ==
  /\ SizeAccepted(blob)
  /\ blob.magic
  /\ blob.version = STORE_VERSION
  /\ Opens(blob, passphrase)
  /\ blob.sealed.text.size <= MAX_STORE_PLAINTEXT_BYTES
  /\ Parses(blob.sealed.text)
  /\ Encode(Parse(blob.sealed.text)) = blob.sealed.text
=============================================================================

------------------------- MODULE IdentityStoreProofs -------------------------
(***************************************************************************)
(* What Identity.save, Identity.load and EncryptedStore promise, for any   *)
(* names, identities, passphrases, objects and foreign texts and any       *)
(* number of files and mishaps.                                            *)
(*                                                                         *)
(* The argument: whatever happens to a file, the key and the text inside   *)
(* its authenticated part stay those of one save (FileOK); so a file that  *)
(* opens under a passphrase holds text sealed under that passphrase, and   *)
(* text that decodes to an identity with the wanted name can only be what  *)
(* Identity.save wrote (WrittenOK).  That save and load agree is that      *)
(* encoding an object without int keys loses nothing but the difference of *)
(* tuples and lists (ParseEncode), which the encoding does not show        *)
(* (EncodeAgain).                                                          *)
(***************************************************************************)
EXTENDS IdentityStore, TLAPS

\* The text is the encoding of what the writer wrote.
WriterOK(writer, text) ==
  \/ \E i \in Identities :
       writer = [identity |-> i] /\ text = Encode(StoragePayload(i))
  \/ \E o \in Objects :
       writer = [application |-> o] /\ Encodable(o) /\ text = Encode(o)
  \/ \E t \in Texts : writer = [other |-> t] /\ text = t

WrittenOK(w) ==
  /\ w.path \in Paths /\ w.passphrase \in Passphrases
  /\ w.blob = Seal(w.passphrase, w.blob.salt, w.blob.nonce, w.blob.sealed.text)
  /\ w.blob.sealed.text.size \in 0 .. MAX_STORE_PLAINTEXT_BYTES
  /\ WriterOK(w.writer, w.blob.sealed.text)

FileOK(b) ==
  /\ b.size \in 0 .. MAX_STORE_FILE_BYTES
  /\ \/ b = Missing
     \/ \E w \in written : /\ b.sealed.key = w.blob.sealed.key
                           /\ b.sealed.text = w.blob.sealed.text

\* The fields are those Identity.save wrote for an identity of this name.
WasSaved(fields, name, passphrase) ==
  \E w \in written, i \in Identities :
    /\ w.writer = [identity |-> i] /\ w.passphrase = passphrase
    /\ LoadedIdentity(fields, name) = i

Inv ==
  /\ file = [n \in Paths |-> file[n]]
  /\ \A n \in Paths : FileOK(file[n])
  /\ \A w \in written : WrittenOK(w)
  /\ \A l \in loaded : l.identity.name \in Paths /\ l.passphrase \in Passphrases
  /\ LoadedWasSaved
  /\ mishaps \in 0 .. MaxMishaps

-----------------------------------------------------------------------------
(* Objects and blobs *)

(* What _encode_object keeps of an object. *)
LEMMA EncodeFields ==
  ASSUME NEW o
  PROVE  /\ Encode(o).form = "compact" /\ Encode(o).fields = WriteFields(o.fields)
         /\ Encode(o).size = o.size
         /\ Encode(o).keys = {k.number : k \in o.nested}
BY DEF Encode

\* An object as ObjectsAssumption describes it, whose keys are all strings.
PlainObject(o) ==
  /\ o = [string_keys |-> o.string_keys, nested |-> o.nested, size |-> o.size,
          fields |-> o.fields]
  /\ o.string_keys = TRUE
  /\ o.fields = [f \in DOMAIN o.fields |->
                   [type |-> o.fields[f].type, content |-> o.fields[f].content]]
  /\ \A f \in DOMAIN o.fields : o.fields[f].type \in DOMAIN JsonKind
  /\ \A k \in o.nested : k = [type |-> k.type, number |-> k.number] /\ k.type = "str"

(* A value read back has the type it had, but a tuple is a list; and it is *)
(* written as it was.                                                      *)
LEMMA Conversion ==
  ASSUME NEW t \in DOMAIN JsonKind
  PROVE  /\ ReadAs[JsonKind[t]] = IF t = "tuple" THEN "list" ELSE t
         /\ JsonKind[ReadAs[JsonKind[t]]] = JsonKind[t]
BY DEF JsonKind, ReadAs

(* The fields as they come back. *)
LEMMA FieldsReadBack ==
  ASSUME NEW o, PlainObject(o)
  PROVE  /\ ReadFields(WriteFields(o.fields)) = ListsForTuples(o).fields
         /\ WriteFields(ReadFields(WriteFields(o.fields))) = WriteFields(o.fields)
<1> SUFFICES ASSUME NEW fields, fields = o.fields,
                    fields = [f \in DOMAIN fields |->
                                [type |-> fields[f].type, content |-> fields[f].content]],
                    \A f \in DOMAIN fields : fields[f].type \in DOMAIN JsonKind
             PROVE  /\ ReadFields(WriteFields(fields)) = ListsForTuples(o).fields
                    /\ WriteFields(ReadFields(WriteFields(fields))) = WriteFields(fields)
  BY DEF PlainObject
<1> DEFINE w == WriteFields(fields)
           r == ReadFields(w)
           back == [f \in DOMAIN fields |->
                      [type |-> IF fields[f].type = "tuple" THEN "list" ELSE fields[f].type,
                       content |-> fields[f].content]]
<1>1. DOMAIN w = DOMAIN fields
  BY DEF WriteFields
<1>2. DOMAIN r = DOMAIN fields
  BY <1>1 DEF ReadFields
<1>3. ASSUME NEW f \in DOMAIN fields
      PROVE  /\ w[f] = [kind |-> JsonKind[fields[f].type], content |-> fields[f].content]
             /\ r[f] = [type |-> ReadAs[JsonKind[fields[f].type]],
                        content |-> fields[f].content]
  <2>1. w[f] = [kind |-> JsonKind[fields[f].type], content |-> fields[f].content]
    BY DEF WriteFields
  <2>2. r[f] = [type |-> ReadAs[w[f].kind], content |-> w[f].content]
    BY <1>1 DEF ReadFields
  <2> QED BY <2>1, <2>2
<1>4. ASSUME NEW f \in DOMAIN fields PROVE r[f] = back[f]
  <2>1. PICK t \in DOMAIN JsonKind : t = fields[f].type
    OBVIOUS
  <2>2. ReadAs[JsonKind[t]] = IF t = "tuple" THEN "list" ELSE t
    BY Conversion
  <2>3. r[f] = [type |-> ReadAs[JsonKind[t]], content |-> fields[f].content]
    BY <1>3, <2>1
  <2>4. back[f] = [type |-> IF t = "tuple" THEN "list" ELSE t, content |-> fields[f].content]
    BY <2>1
  <2> HIDE DEF r, back
  <2> QED BY <2>2, <2>3, <2>4
<1>5. r = back
  <2>1. r = [f \in DOMAIN fields |-> r[f]]
    BY <1>1 DEF ReadFields
  <2>2. back = [f \in DOMAIN fields |-> back[f]]
    OBVIOUS
  <2> HIDE DEF r, back
  <2> QED BY <1>4, <2>1, <2>2
<1>6. ListsForTuples(o).fields = back
  BY DEF ListsForTuples
<1>7. WriteFields(r) = w
  <2>1. WriteFields(r) = [f \in DOMAIN fields |->
                            [kind |-> JsonKind[r[f].type], content |-> r[f].content]]
    <3> HIDE DEF r
    <3> QED BY <1>2 DEF WriteFields
  <2>2. ASSUME NEW f \in DOMAIN fields
        PROVE  [kind |-> JsonKind[r[f].type], content |-> r[f].content] = w[f]
    <3>1. PICK t \in DOMAIN JsonKind : t = fields[f].type
      OBVIOUS
    <3>2. JsonKind[ReadAs[JsonKind[t]]] = JsonKind[t]
      BY Conversion
    <3>3. /\ w[f] = [kind |-> JsonKind[t], content |-> fields[f].content]
          /\ r[f] = [type |-> ReadAs[JsonKind[t]], content |-> fields[f].content]
      BY <1>3, <3>1
    <3> HIDE DEF r, w
    <3>4. r[f].type = ReadAs[JsonKind[t]] /\ r[f].content = fields[f].content
      BY <3>3
    <3> QED BY <3>2, <3>3, <3>4
  <2>3. w = [f \in DOMAIN fields |-> w[f]]
    BY DEF WriteFields
  <2> HIDE DEF r, w
  <2> QED BY <2>1, <2>2, <2>3
<1> QED BY <1>5, <1>6, <1>7

(* Nested keys that are strings come back as they were. *)
LEMMA KeysReadBack ==
  ASSUME NEW o, PlainObject(o)
  PROVE  o.nested = {[type |-> "str", number |-> n] : n \in {k.number : k \in o.nested}}
<1> USE DEF PlainObject
<1> DEFINE Strings == {[type |-> "str", number |-> n] : n \in {k.number : k \in o.nested}}
<1>1. ASSUME NEW k \in o.nested PROVE k \in Strings
  <2>1. k = [type |-> "str", number |-> k.number]
    OBVIOUS
  <2> QED BY <2>1
<1>2. ASSUME NEW s \in Strings PROVE s \in o.nested
  <2>1. PICK k \in o.nested : s = [type |-> "str", number |-> k.number]
    OBVIOUS
  <2>2. k = [type |-> "str", number |-> k.number]
    OBVIOUS
  <2> QED BY <2>1, <2>2
<1> QED BY <1>1, <1>2

(* Decoding gives back the object with lists for its tuples. *)
LEMMA ParseEncode ==
  ASSUME NEW o, PlainObject(o)
  PROVE  Parse(Encode(o)) = ListsForTuples(o)
<1> DEFINE t == Encode(o)
<1>1. /\ t.fields = WriteFields(o.fields) /\ t.size = o.size
      /\ t.keys = {k.number : k \in o.nested}
  BY EncodeFields
<1> HIDE DEF t
<1>2. {[type |-> "str", number |-> n] : n \in t.keys} = o.nested
  BY <1>1, KeysReadBack
<1>3. Parse(t) = [fields |-> ListsForTuples(o).fields, size |-> o.size, string_keys |-> TRUE,
                  nested |-> o.nested]
  BY <1>1, <1>2, FieldsReadBack DEF Parse
<1>4. ListsForTuples(o) = [string_keys |-> TRUE, nested |-> o.nested, size |-> o.size,
                           fields |-> ListsForTuples(o).fields]
  BY DEF ListsForTuples, PlainObject
<1> QED BY <1>3, <1>4 DEF t

(* What was read is encoded as what was written: load's last test passes. *)
LEMMA EncodeAgain ==
  ASSUME NEW o, PlainObject(o)
  PROVE  Encode(Parse(Encode(o))) = Encode(o)
<1> DEFINE q == Parse(Encode(o))
<1>1. /\ q.fields = ReadFields(WriteFields(o.fields)) /\ q.size = o.size
      /\ q.nested = o.nested
  <2>1. /\ Encode(o).fields = WriteFields(o.fields) /\ Encode(o).size = o.size
        /\ Encode(o).keys = {k.number : k \in o.nested}
    BY EncodeFields
  <2> QED BY <2>1, KeysReadBack DEF Parse
<1>2. WriteFields(q.fields) = WriteFields(o.fields)
  BY <1>1, FieldsReadBack
<1> HIDE DEF q
<1>3. Encode(q) = Encode(o)
  BY <1>1, <1>2 DEF Encode
<1> QED BY <1>3 DEF q

(* The parts of a blob that EncryptedStore.save wrote. *)
LEMMA SealFields ==
  ASSUME NEW p, NEW s, NEW n, NEW t
  PROVE  LET b == Seal(p, s, n, t)
         IN  /\ b.size = STORE_FIXED_BYTES + t.size + STORE_TAG_BYTES
             /\ b.magic = TRUE /\ b.version = STORE_VERSION /\ b.salt = s /\ b.nonce = n
             /\ b.sealed = [key |-> DeriveKey(p, s), nonce |-> n, text |-> t, intact |-> TRUE]
             /\ b.sealed.key = DeriveKey(p, s) /\ b.sealed.nonce = n /\ b.sealed.text = t
             /\ b.sealed.intact = TRUE
             /\ b.sealed.key.passphrase = p.secret
BY DEF Seal, DeriveKey

(* A blob of text that fits is within the file's limits. *)
LEMMA SealedSize ==
  ASSUME NEW p, NEW s, NEW n, NEW t, t.size \in 0 .. MAX_STORE_PLAINTEXT_BYTES
  PROVE  /\ SizeAccepted(Seal(p, s, n, t))
         /\ Seal(p, s, n, t).size \in 1 .. MAX_STORE_FILE_BYTES
<1>1. Seal(p, s, n, t).size = STORE_FIXED_BYTES + t.size + STORE_TAG_BYTES
  BY DEF Seal
<1>2. STORE_FIXED_BYTES + t.size + STORE_TAG_BYTES
        \in (STORE_FIXED_BYTES + STORE_TAG_BYTES) .. MAX_STORE_FILE_BYTES
  BY MaxPlaintextAssumption DEF MAX_STORE_FILE_BYTES, STORE_FIXED_BYTES, STORE_TAG_BYTES
<1> QED BY <1>1, <1>2 DEF SizeAccepted, STORE_FIXED_BYTES, STORE_TAG_BYTES, MAX_STORE_FILE_BYTES

(* A blob loads under the passphrase it was sealed with, if its text is    *)
(* what encoding gives back.                                               *)
LEMMA SealedLoads ==
  ASSUME NEW p, NEW s, NEW n, NEW t, t.size \in 0 .. MAX_STORE_PLAINTEXT_BYTES,
         Parses(t), Encode(Parse(t)) = t
  PROVE  Loads(Seal(p, s, n, t), p)
<1> DEFINE b == Seal(p, s, n, t)
<1>1. /\ b.magic = TRUE /\ b.version = STORE_VERSION
      /\ b.sealed.key = DeriveKey(p, b.salt) /\ b.sealed.nonce = b.nonce
      /\ b.sealed.text = t /\ b.sealed.intact = TRUE
  BY DEF Seal
<1>2. SizeAccepted(b)
  BY SealedSize
<1> HIDE DEF b
<1>3. t.size <= MAX_STORE_PLAINTEXT_BYTES
  BY MaxPlaintextAssumption
<1>4. Loads(b, p)
  BY <1>1, <1>2, <1>3 DEF Loads, Opens
<1> QED BY <1>4 DEF b

(* Identity.save hands the store an object without tuples. *)
LEMMA PayloadIsPlain ==
  ASSUME NEW i
  PROVE  /\ PlainObject(StoragePayload(i)) /\ StoragePayload(i).size = 1
         /\ Parse(Encode(StoragePayload(i))) = StoragePayload(i)
<1> DEFINE o == StoragePayload(i)
<1>1. PICK format, name, signing, exchange :
        /\ o = [string_keys |-> TRUE, nested |-> {}, size |-> 1,
                fields |-> [format |-> Str(format), name |-> Str(name),
                            ed25519_private_key |-> Str(signing),
                            x25519_private_key |-> Str(exchange)]]
  BY DEF StoragePayload, Bundle, Hex
<1> HIDE DEF o
<1>2. /\ o = [string_keys |-> o.string_keys, nested |-> o.nested, size |-> o.size,
              fields |-> o.fields]
      /\ o.string_keys = TRUE /\ o.nested = {} /\ o.size = 1
      /\ o.fields = [format |-> Str(format), name |-> Str(name),
                     ed25519_private_key |-> Str(signing), x25519_private_key |-> Str(exchange)]
  BY <1>1
<1>3. \A f \in DOMAIN o.fields :
        o.fields[f] \in {Str(format), Str(name), Str(signing), Str(exchange)}
  BY <1>2
<1>4. \A f \in DOMAIN o.fields :
        /\ o.fields[f].type = "str"
        /\ o.fields[f] = [type |-> o.fields[f].type, content |-> o.fields[f].content]
  BY <1>3 DEF Str
<1>5. o.fields = [f \in DOMAIN o.fields |-> o.fields[f]]
  BY <1>2
<1>6. PlainObject(o)
  <2>1. o.fields = [f \in DOMAIN o.fields |->
                     [type |-> o.fields[f].type, content |-> o.fields[f].content]]
    BY <1>4, <1>5
  <2>2. "str" \in DOMAIN JsonKind
    BY DEF JsonKind
  <2> QED BY <1>2, <1>4, <2>1, <2>2 DEF PlainObject
<1>7. ListsForTuples(o) = o
  <2>1. [f \in DOMAIN o.fields |->
           [type |-> IF o.fields[f].type = "tuple" THEN "list" ELSE o.fields[f].type,
            content |-> o.fields[f].content]] = o.fields
    BY <1>4, <1>5
  <2> QED BY <1>2, <2>1 DEF ListsForTuples
<1> QED BY <1>2, <1>6, <1>7, ParseEncode DEF o

(* Identity.load accepts the bundle Identity.save made, for its own name,  *)
(* and makes the same identity of it.                                      *)
LEMMA PayloadIsIdentity ==
  ASSUME NEW i \in Identities
  PROVE  /\ IsIdentity(StoragePayload(i).fields, i.name)
         /\ LoadedIdentity(StoragePayload(i).fields, i.name) = i
         /\ \A n : IsIdentity(StoragePayload(i).fields, n) => n = i.name
<1> DEFINE f == [format |-> Str(IDENTITY_FORMAT), name |-> Str(i.name),
                 ed25519_private_key |-> Hex(i.signing),
                 x25519_private_key |-> Hex(i.exchange)]
<1>1. StoragePayload(i).fields = f
  BY DEF StoragePayload, Bundle
<1>2. \A k : DecodesPrivateKey(Hex(k)) /\ Hex(k).content.key = k
  BY DEF DecodesPrivateKey, Hex, Str
<1>3. /\ DOMAIN f = {"format", "name", "ed25519_private_key", "x25519_private_key"}
      /\ f.format = Str(IDENTITY_FORMAT) /\ f.name = Str(i.name)
      /\ f.ed25519_private_key = Hex(i.signing) /\ f.x25519_private_key = Hex(i.exchange)
  OBVIOUS
<1> HIDE DEF f
<1>4. IsIdentity(f, i.name)
  BY <1>2, <1>3 DEF IsIdentity, IsIdentityOfAnyName
<1>5. LoadedIdentity(f, i.name) = i
  BY <1>2, <1>3, IdentitiesAssumption DEF LoadedIdentity
<1>6. ASSUME NEW n, IsIdentity(f, n) PROVE n = i.name
  <2>1. Str(n).content = Str(i.name).content
    BY <1>3, <1>6 DEF IsIdentity
  <2> QED BY <2>1 DEF Str
<1> QED BY <1>1, <1>4, <1>5, <1>6

-----------------------------------------------------------------------------
(* Init and steps *)

(* There are no files and nothing was loaded. *)
LEMMA InitInv == Init => Inv
<1> SUFFICES ASSUME Init PROVE Inv
  OBVIOUS
<1>1. Missing.size = 0
  BY DEF Missing
<1>2. 0 \in 0 .. MAX_STORE_FILE_BYTES
  BY MaxPlaintextAssumption DEF MAX_STORE_FILE_BYTES, STORE_FIXED_BYTES, STORE_TAG_BYTES
<1>3. FileOK(Missing)
  BY <1>1, <1>2 DEF FileOK
<1> QED BY <1>3, WriteBoundsAssumption DEF Init, Inv, LoadedWasSaved

(* Whoever writes a file seals text of its own under its passphrase. *)
LEMMA WriteInv ==
  ASSUME Inv, NEW path \in Paths, NEW passphrase \in Passphrases, NEW text, NEW writer,
         text.size \in 0 .. MAX_STORE_PLAINTEXT_BYTES, WriterOK(writer, text),
         Write(path, passphrase, text, writer)
  PROVE  Inv'
<1> SUFFICES ASSUME NEW s, s = Fresh, NEW n, n = Fresh + 1 PROVE Inv'
  OBVIOUS
<1> DEFINE blob == Seal(passphrase, s, n, text)
           w == [writer |-> writer, path |-> path, passphrase |-> passphrase, blob |-> blob]
<1>1. /\ file' = [file EXCEPT ![path] = blob] /\ written' = written \cup {w}
      /\ UNCHANGED <<loaded, mishaps>>
  BY DEF Write
<1>2. blob.salt = s /\ blob.nonce = n /\ blob.sealed.text = text
  BY DEF Seal
<1>3. w.writer = writer /\ w.path = path /\ w.passphrase = passphrase /\ w.blob = blob
  OBVIOUS
<1>4. blob.size \in 0 .. MAX_STORE_FILE_BYTES
  <2>1. blob.size \in 1 .. MAX_STORE_FILE_BYTES
    BY SealedSize
  <2>2. MAX_STORE_FILE_BYTES \in Nat
    BY MaxPlaintextAssumption DEF MAX_STORE_FILE_BYTES, STORE_FIXED_BYTES, STORE_TAG_BYTES
  <2> HIDE DEF blob
  <2> QED BY <2>1, <2>2
<1>5. w.blob = Seal(w.passphrase, w.blob.salt, w.blob.nonce, w.blob.sealed.text)
  BY <1>2, <1>3
<1> HIDE DEF blob, w
<1>6. WrittenOK(w)
  BY <1>2, <1>3, <1>5 DEF WrittenOK
<1>7. \A b : FileOK(b) => FileOK(b)'
  BY <1>1 DEF FileOK
<1>8. FileOK(blob)'
  BY <1>1, <1>3, <1>4 DEF FileOK
<1>9. file' = [m \in Paths |-> file'[m]] /\ \A m \in Paths : FileOK(file[m])'
  <2>1. file = [m \in Paths |-> file[m]] /\ \A m \in Paths : FileOK(file[m])
    BY DEF Inv
  <2>2. /\ file' = [m \in Paths |-> file'[m]]
        /\ file'[path] = blob /\ \A m \in Paths \ {path} : file'[m] = file[m]
    BY <1>1, <2>1
  <2>3. ASSUME NEW m \in Paths PROVE FileOK(file[m])'
    <3> SUFFICES ASSUME NEW b, b = file'[m] PROVE FileOK(b)'
      BY DEF FileOK
    <3> QED BY <1>7, <1>8, <2>1, <2>2
  <2> QED BY <2>2, <2>3
<1>10. LoadedWasSaved'
  BY <1>1 DEF Inv, LoadedWasSaved
<1> QED BY <1>1, <1>6, <1>9, <1>10 DEF Inv

(* EncryptedStore.save called by the application. *)
LEMMA StoreSaveInv ==
  ASSUME Inv, NEW path \in Paths, NEW p \in Passphrases, NEW o \in Objects,
         StoreSave(path, p, o)
  PROVE  Inv'
<1>1. Encodable(o) /\ Write(path, p, Encode(o), [application |-> o])
  BY DEF StoreSave, Save
<1>2. Encode(o).size = o.size /\ o.size \in Nat
  BY EncodeFields, ObjectsAssumption
<1>3. Encode(o).size \in 0 .. MAX_STORE_PLAINTEXT_BYTES
  BY <1>1, <1>2, MaxPlaintextAssumption DEF Encodable
<1>4. WriterOK([application |-> o], Encode(o))
  BY <1>1 DEF WriterOK
<1> QED BY <1>1, <1>3, <1>4, WriteInv

(* Identity.save. *)
LEMMA IdentitySaveInv ==
  ASSUME Inv, NEW i \in Identities, NEW p \in Passphrases, IdentitySave(i, p)
  PROVE  Inv'
<1>1. Write(i.name, p, Encode(StoragePayload(i)), [identity |-> i])
  BY DEF IdentitySave, Save
<1>2. Encode(StoragePayload(i)).size = 1
  BY EncodeFields, PayloadIsPlain
<1>3. Encode(StoragePayload(i)).size \in 0 .. MAX_STORE_PLAINTEXT_BYTES
  BY <1>2, MaxPlaintextAssumption
<1>4. WriterOK([identity |-> i], Encode(StoragePayload(i)))
  BY DEF WriterOK
<1>5. i.name \in Paths
  BY IdentitiesAssumption DEF Paths
<1> QED BY <1>1, <1>3, <1>4, <1>5, WriteInv

(* Another program seals text. *)
LEMMA ForeignWriteInv ==
  ASSUME Inv, NEW path \in Paths, NEW p \in Passphrases, NEW t \in Texts,
         ForeignWrite(path, p, t)
  PROVE  Inv'
<1>1. Write(path, p, t, [other |-> t])
  BY DEF ForeignWrite
<1>2. t.size \in 0 .. MAX_STORE_PLAINTEXT_BYTES
  BY TextsAssumption
<1>3. WriterOK([other |-> t], t)
  BY DEF WriterOK
<1> QED BY <1>1, <1>2, <1>3, WriteInv

(* A damaged file still carries the key and text of one write together. *)
LEMMA DamagedFacts ==
  ASSUME \A w \in written : WrittenOK(w), NEW b \in Blobs, NEW c \in {b} \cup Damaged(b)
  PROVE  FileOK(c)
<1> DEFINE Shape(x) ==
      x = [size |-> x.size, magic |-> x.magic, version |-> x.version, salt |-> x.salt,
           nonce |-> x.nonce, sealed |-> x.sealed]
           SealedShape(y) ==
      y = [key |-> y.key, nonce |-> y.nonce, text |-> y.text, intact |-> y.intact]
<1>1. ASSUME NEW x \in Blobs
      PROVE  /\ Shape(x) /\ SealedShape(x.sealed)
             /\ x.size \in 1 .. MAX_STORE_FILE_BYTES
             /\ \E w \in written : x = w.blob
  <2>1. PICK w \in written : x = w.blob
    BY DEF Blobs
  <2>2. PICK p, s, n, t : /\ x = Seal(p, s, n, t)
                          /\ t.size \in 0 .. MAX_STORE_PLAINTEXT_BYTES
    BY <2>1 DEF WrittenOK
  <2>3. x.size \in 1 .. MAX_STORE_FILE_BYTES
    BY <2>2, SealedSize
  <2>4. PICK y : /\ y = [key |-> DeriveKey(p, s), nonce |-> n, text |-> t, intact |-> TRUE]
                 /\ x = [size |-> STORE_FIXED_BYTES + t.size + STORE_TAG_BYTES, magic |-> TRUE,
                         version |-> STORE_VERSION, salt |-> s, nonce |-> n, sealed |-> y]
    BY <2>2 DEF Seal
  <2>5. x.sealed = y /\ SealedShape(y)
    BY <2>4
  <2>6. Shape(x)
    BY <2>4
  <2>7. SealedShape(x.sealed)
    BY <2>5
  <2> HIDE DEF Shape, SealedShape
  <2> QED BY <2>1, <2>3, <2>6, <2>7
<1>2. PICK w \in written : b = w.blob
  BY <1>1
<1>b. Shape(b) /\ SealedShape(b.sealed) /\ b.size \in 1 .. MAX_STORE_FILE_BYTES
  BY <1>1
<1>3. MAX_STORE_FILE_BYTES \in Nat
  BY MaxPlaintextAssumption DEF MAX_STORE_FILE_BYTES, STORE_FIXED_BYTES, STORE_TAG_BYTES
<1> DEFINE Kept(x) == /\ x.size \in 0 .. MAX_STORE_FILE_BYTES
                      /\ \E v \in written : /\ x.sealed.key = v.blob.sealed.key
                                            /\ x.sealed.text = v.blob.sealed.text
<1>4. CASE c = b
  <2>1. Kept(b)
    BY <1>b, <1>2, <1>3
  <2> QED BY <1>4, <2>1 DEF FileOK
<1>5. CASE c \in {[b EXCEPT !.magic = FALSE], [b EXCEPT !.version = 2]}
  <2>1. c.size = b.size /\ c.sealed = b.sealed
    BY <1>b, <1>5
  <2>2. Kept(c)
    BY <1>b, <1>2, <1>3, <2>1
  <2> QED BY <2>2 DEF FileOK
<1>6. CASE c = [b EXCEPT !.sealed.intact = FALSE]
  <2>1. c.size = b.size /\ c.sealed = [b.sealed EXCEPT !.intact = FALSE]
    BY <1>b, <1>6
  <2>2. c.sealed.key = b.sealed.key /\ c.sealed.text = b.sealed.text
    BY <1>b, <2>1
  <2>3. Kept(c)
    BY <1>b, <1>2, <1>3, <2>1, <2>2
  <2> QED BY <2>3 DEF FileOK
<1>7. CASE c = [b EXCEPT !.size = @ - 1, !.sealed.intact = FALSE]
  <2>1. c.size = b.size - 1 /\ c.sealed = [b.sealed EXCEPT !.intact = FALSE]
    BY <1>b, <1>7
  <2>2. c.sealed.key = b.sealed.key /\ c.sealed.text = b.sealed.text
    BY <1>b, <2>1
  <2>3. c.size \in 0 .. MAX_STORE_FILE_BYTES
    BY <1>b, <1>3, <2>1
  <2>4. Kept(c)
    BY <1>2, <2>2, <2>3
  <2> QED BY <2>4 DEF FileOK
<1>8. ASSUME NEW x \in Blobs,
             c \in {[b EXCEPT !.salt = x.salt], [b EXCEPT !.nonce = x.nonce]}
      PROVE  FileOK(c)
  <2>1. c.size = b.size /\ c.sealed = b.sealed
    BY <1>b, <1>8
  <2>2. Kept(c)
    BY <1>b, <1>2, <1>3, <2>1
  <2> QED BY <2>2 DEF FileOK
<1>9. ASSUME NEW x \in Blobs, c = [b EXCEPT !.sealed = x.sealed, !.size = x.size]
      PROVE  FileOK(c)
  <2>1. c.size = x.size /\ c.sealed = x.sealed
    BY <1>b, <1>9
  <2>2. x.size \in 1 .. MAX_STORE_FILE_BYTES
    BY <1>1
  <2>3. PICK v \in written : x = v.blob
    BY <1>1
  <2>4. Kept(c)
    BY <1>3, <2>1, <2>2, <2>3
  <2> QED BY <2>4 DEF FileOK
<1> QED BY <1>4, <1>5, <1>6, <1>7, <1>8, <1>9 DEF Damaged

(* Files are moved, restored or damaged. *)
LEMMA MishapInv ==
  ASSUME Inv, NEW path \in Paths, Mishap(path)
  PROVE  Inv'
<1>0. PICK b \in Blobs : \E c \in {b} \cup Damaged(b) : file' = [file EXCEPT ![path] = c]
  BY DEF Mishap
<1>1. PICK c \in {b} \cup Damaged(b) : file' = [file EXCEPT ![path] = c]
  BY <1>0
<1>2. mishaps' \in 0 .. MaxMishaps /\ UNCHANGED <<written, loaded>>
  BY WriteBoundsAssumption DEF Mishap, Inv
<1>3. FileOK(c)
  BY DamagedFacts DEF Inv
<1>4. \A x : FileOK(x) => FileOK(x)'
  BY <1>2 DEF FileOK
<1>5. file' = [m \in Paths |-> file'[m]] /\ \A m \in Paths : FileOK(file[m])'
  <2>1. file = [m \in Paths |-> file[m]] /\ \A m \in Paths : FileOK(file[m])
    BY DEF Inv
  <2>2. /\ file' = [m \in Paths |-> file'[m]]
        /\ file'[path] = c /\ \A m \in Paths \ {path} : file'[m] = file[m]
    BY <1>1, <2>1
  <2>3. ASSUME NEW m \in Paths PROVE FileOK(file[m])'
    <3> SUFFICES ASSUME NEW x, x = file'[m] PROVE FileOK(x)'
      BY DEF FileOK
    <3> QED BY <1>3, <1>4, <2>1, <2>2
  <2> QED BY <2>2, <2>3
<1>6. LoadedWasSaved'
  BY <1>2 DEF Inv, LoadedWasSaved
<1> QED BY <1>2, <1>5, <1>6 DEF Inv

(* Identity.load returns only what Identity.save wrote. *)
LEMMA LoadsSaved ==
  ASSUME Inv, NEW name \in Names, NEW passphrase \in Passphrases, NEW b, b = file[name],
         b # Missing, Loads(b, passphrase), IsIdentity(Parse(b.sealed.text).fields, name)
  PROVE  WasSaved(Parse(b.sealed.text).fields, name, passphrase)
<1>1. PICK w \in written : /\ b.sealed.key = w.blob.sealed.key
                           /\ b.sealed.text = w.blob.sealed.text
  BY DEF Inv, FileOK, Paths
<1>2. WrittenOK(w)
  BY DEF Inv
<1> DEFINE t == b.sealed.text
<1>3. w.passphrase = passphrase
  <2>1. w.blob.sealed.key.passphrase = w.passphrase.secret
    <3>1. PICK p, s, n, u : w.blob = Seal(p, s, n, u) /\ p = w.passphrase
      BY <1>2 DEF WrittenOK
    <3> QED BY <3>1 DEF Seal, DeriveKey
  <2>2. b.sealed.key.passphrase = passphrase.secret
    BY DEF Loads, Opens, DeriveKey
  <2> QED BY <1>1, <1>2, <2>1, <2>2, PassphrasesAssumption DEF WrittenOK
<1>4. Parses(t) /\ Encode(Parse(t)) = t
  BY DEF Loads
<1>5. WriterOK(w.writer, t)
  BY <1>1, <1>2 DEF WrittenOK
<1>6. CASE \E o \in Objects : Encodable(o) /\ t = Encode(o)
  BY <1>6, ObjectsAssumption
<1>7. CASE t \in Texts
  BY <1>4, <1>7, TextsAssumption
<1>8. CASE \E i \in Identities : w.writer = [identity |-> i] /\ t = Encode(StoragePayload(i))
  <2>1. PICK i \in Identities : w.writer = [identity |-> i] /\ t = Encode(StoragePayload(i))
    BY <1>8
  <2>2. Parse(t).fields = StoragePayload(i).fields
    BY <2>1, PayloadIsPlain
  <2>3. name = i.name /\ LoadedIdentity(Parse(t).fields, name) = i
    BY <2>2, PayloadIsIdentity
  <2> QED BY <1>3, <2>1, <2>3 DEF WasSaved
<1> QED BY <1>5, <1>6, <1>7, <1>8 DEF WriterOK

(* Identity.load. *)
LEMMA IdentityLoadInv ==
  ASSUME Inv, NEW name \in Paths, NEW passphrase \in Passphrases,
         IdentityLoad(name, passphrase)
  PROVE  Inv'
<1> SUFFICES ASSUME NEW b, b = file[name] PROVE Inv'
  OBVIOUS
<1> DEFINE fields == Parse(b.sealed.text).fields
           l == [passphrase |-> passphrase, identity |-> LoadedIdentity(fields, name)]
<1>1. /\ b # Missing /\ Loads(b, passphrase) /\ IsIdentity(fields, name)
      /\ loaded' = loaded \cup {l}
      /\ UNCHANGED <<file, written, mishaps>>
  BY DEF IdentityLoad
<1>2. PICK w \in written, i \in Identities :
        /\ w.writer = [identity |-> i] /\ w.passphrase = passphrase
        /\ LoadedIdentity(fields, name) = i
  <2>1. name \in Names
    BY DEF Paths
  <2>2. WasSaved(fields, name, passphrase)
    <3> HIDE DEF l
    <3> QED BY <1>1, <2>1, LoadsSaved
  <2> QED BY <2>2 DEF WasSaved
<1>3. l.passphrase = passphrase /\ l.identity = i
  BY <1>2
<1>4. i.name \in Paths
  BY IdentitiesAssumption DEF Paths
<1> HIDE DEF l
<1>5. LoadedWasSaved'
  BY <1>1, <1>2, <1>3 DEF Inv, LoadedWasSaved
<1>6. \A x \in loaded' : x.identity.name \in Paths /\ x.passphrase \in Passphrases
  BY <1>1, <1>3, <1>4 DEF Inv
<1>7. \A n \in Paths : FileOK(file[n])'
  BY <1>1 DEF Inv, FileOK
<1> QED BY <1>1, <1>5, <1>6, <1>7 DEF Inv

(* Every step preserves the invariant. *)
LEMMA StepInv == Inv /\ [Next]_vars => Inv'
<1> SUFFICES ASSUME Inv, [Next]_vars PROVE Inv'
  OBVIOUS
<1>1. CASE UNCHANGED vars
  BY <1>1 DEF vars, Inv, FileOK, LoadedWasSaved
<1>2. ASSUME NEW p \in Passphrases, NEW i \in Identities, IdentitySave(i, p) PROVE Inv'
  BY <1>2, IdentitySaveInv
<1>3. ASSUME NEW p \in Passphrases, NEW n \in Paths, IdentityLoad(n, p) PROVE Inv'
  BY <1>3, IdentityLoadInv
<1>4. ASSUME NEW p \in Passphrases, NEW n \in Paths, NEW o \in Objects, StoreSave(n, p, o)
      PROVE  Inv'
  BY <1>4, StoreSaveInv
<1>5. ASSUME NEW p \in Passphrases, NEW n \in Paths, NEW t \in Texts, ForeignWrite(n, p, t)
      PROVE  Inv'
  BY <1>5, ForeignWriteInv
<1>6. ASSUME NEW n \in Paths, Mishap(n) PROVE Inv'
  BY <1>6, MishapInv
<1> QED BY <1>1, <1>2, <1>3, <1>4, <1>5, <1>6 DEF Next

(* The invariant holds in every reachable state. *)
THEOREM Invariance == Spec => []Inv
BY InitInv, StepInv, PTL DEF Spec

-----------------------------------------------------------------------------
(* The properties *)

(* Every variable has its type. *)
THEOREM TypeCorrect == Spec => []TypeOK
<1>1. ASSUME Inv PROVE TypeOK
  BY <1>1 DEF Inv, TypeOK, FileOK, WrittenOK
<1> QED BY <1>1, Invariance, PTL

(* Identity.load returns only identities that Identity.save wrote under    *)
(* that name and passphrase, however files were moved, mixed or damaged.   *)
THEOREM LoadsOnlySaved == Spec => []LoadedWasSaved
<1>1. ASSUME Inv PROVE LoadedWasSaved
  BY <1>1 DEF Inv
<1> QED BY <1>1, Invariance, PTL

(* What Identity.save wrote loads, and gives back the same name and keys. *)
THEOREM IdentityRoundTrip == Spec => []SavedIdentityLoads
<1>1. ASSUME Inv PROVE SavedIdentityLoads
  <2> USE <1>1
  <2> SUFFICES ASSUME NEW w \in written, NEW i \in Identities, w.writer = [identity |-> i]
               PROVE  /\ Loads(w.blob, w.passphrase)
                      /\ IsIdentity(Parse(w.blob.sealed.text).fields, i.name)
                      /\ LoadedIdentity(Parse(w.blob.sealed.text).fields, i.name) = i
    BY DEF SavedIdentityLoads
  <2> DEFINE t == w.blob.sealed.text
             o == StoragePayload(i)
  <2>1. /\ WriterOK(w.writer, t) /\ t.size \in 0 .. MAX_STORE_PLAINTEXT_BYTES
        /\ w.blob = Seal(w.passphrase, w.blob.salt, w.blob.nonce, t)
    BY DEF Inv, WrittenOK
  <2>2. t = Encode(o)
    <3>1. ASSUME NEW j, [identity |-> i] = [identity |-> j] PROVE i = j
      BY <3>1
    <3>2. \A x : [identity |-> i] # [application |-> x] /\ [identity |-> i] # [other |-> x]
      OBVIOUS
    <3> QED BY <2>1, <3>1, <3>2 DEF WriterOK
  <2>3. Parse(Encode(o)) = o /\ Encode(Parse(Encode(o))) = Encode(o)
    BY PayloadIsPlain, EncodeAgain
  <2>4. Parses(t)
    BY <2>2, EncodeFields DEF Parses
  <2>5. Loads(Seal(w.passphrase, w.blob.salt, w.blob.nonce, t), w.passphrase)
    BY <2>1, <2>2, <2>3, <2>4, SealedLoads
  <2>6. IsIdentity(Parse(t).fields, i.name) /\ LoadedIdentity(Parse(t).fields, i.name) = i
    BY <2>2, <2>3, PayloadIsIdentity
  <2> QED BY <2>1, <2>5, <2>6
<1> QED BY <1>1, Invariance, PTL

(* EncryptedStore.load gives back every object that EncryptedStore.save    *)
(* accepted and whose keys are all strings, with lists for its tuples.     *)
THEOREM ObjectRoundTrip == Spec => []SavedObjectLoads
<1>1. ASSUME Inv PROVE SavedObjectLoads
  <2> USE <1>1
  <2> SUFFICES ASSUME NEW w \in written, NEW o \in Objects, w.writer = [application |-> o],
                      \A k \in o.nested : k.type = "str"
               PROVE  /\ Loads(w.blob, w.passphrase)
                      /\ Parse(w.blob.sealed.text) = ListsForTuples(o)
    BY DEF SavedObjectLoads
  <2> DEFINE t == w.blob.sealed.text
  <2>1. /\ WriterOK(w.writer, t) /\ t.size \in 0 .. MAX_STORE_PLAINTEXT_BYTES
        /\ w.blob = Seal(w.passphrase, w.blob.salt, w.blob.nonce, t)
    BY DEF Inv, WrittenOK
  <2>2. t = Encode(o) /\ Encodable(o)
    <3>1. ASSUME NEW x, [application |-> o] = [application |-> x] PROVE o = x
      BY <3>1
    <3>2. \A x : [application |-> o] # [identity |-> x] /\ [application |-> o] # [other |-> x]
      OBVIOUS
    <3> QED BY <2>1, <3>1, <3>2 DEF WriterOK
  <2>3. PlainObject(o)
    <3>1. /\ o = [string_keys |-> o.string_keys, nested |-> o.nested, size |-> o.size,
                  fields |-> o.fields]
          /\ o.string_keys \in BOOLEAN
          /\ o.fields = [f \in DOMAIN o.fields |->
                           [type |-> o.fields[f].type, content |-> o.fields[f].content]]
          /\ \A k \in o.nested : k = [type |-> k.type, number |-> k.number]
      BY ObjectsAssumption
    <3>2. /\ o.string_keys = TRUE
          /\ \A f \in DOMAIN o.fields : o.fields[f].type \in DOMAIN JsonKind
      BY <2>2, <3>1 DEF Encodable, EncodableAnySize
    <3> QED BY <3>1, <3>2 DEF PlainObject
  <2>4. Parses(t)
    BY <2>2, EncodeFields DEF Parses
  <2>5. Encode(Parse(t)) = t /\ Parse(t) = ListsForTuples(o)
    BY <2>2, <2>3, EncodeAgain, ParseEncode
  <2>6. Loads(Seal(w.passphrase, w.blob.salt, w.blob.nonce, t), w.passphrase)
    BY <2>1, <2>4, <2>5, SealedLoads
  <2> QED BY <2>1, <2>5, <2>6
<1> QED BY <1>1, Invariance, PTL
=============================================================================

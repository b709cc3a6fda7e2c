---------------------------- MODULE IdentityStore ----------------------------
(***************************************************************************)
(* Identity.save and Identity.load (identity.py) and EncryptedStore.save   *)
(* and load (store.py) over one directory.  A file's name is the hash of   *)
(* an identity's name, so a path is known by that name.                    *)
(*                                                                         *)
(* A save ends as DurableRegister says atomic_write_bytes may end.  Around *)
(* the program, files are moved to other paths, restored from a backup and *)
(* damaged, and another program that knows a passphrase may have sealed    *)
(* text of its own.                                                        *)
(***************************************************************************)
EXTENDS Store, FiniteSets

CONSTANTS
  Names,          \* names given to Identity.load, valid or not
  Identities,     \* Identity objects: [name, signing, exchange]
  Passphrases,    \* [secret, length]
  Objects,        \* objects the application gives EncryptedStore.save
  Texts,          \* plaintexts another program has sealed
  MaxWrites,      \* bound on the number of files written
  MaxMishaps      \* bound on the number of files moved or damaged

ASSUME IdentitiesAssumption ==
  \A i \in Identities :
    /\ i = [name |-> i.name, signing |-> i.signing, exchange |-> i.exchange]
    /\ i.name \in Names
ASSUME WriteBoundsAssumption == MaxWrites \in Nat /\ MaxMishaps \in Nat

\* A passphrase has one length.
ASSUME PassphrasesAssumption ==
  \A p, q \in Passphrases : p.secret = q.secret => p = q

MAX_PARTICIPANT_NAME_BYTES == 255
IDENTITY_FORMAT == "CypherSyntax/identity/v1"

VARIABLES
  file,           \* the blob at each path, if any
  written,        \* history: who wrote which blob with what
  loaded,         \* history: what load returned
  mishaps         \* files moved or damaged so far (bounds the model)

vars == <<file, written, loaded, mishaps>>

Paths == Names
Missing == [size |-> 0]

\* Only a blob that was written has contents; a truncated one may have none.
Blobs == {w.blob : w \in written}

-----------------------------------------------------------------------------
(* Identities *)

\* _validate_identity_name; a name is the facts about it the code tests.
ValidName(n) ==
  /\ n.bytes \in 1 .. MAX_PARTICIPANT_NAME_BYTES
  /\ n.stripped
  /\ n.printable
  /\ ~n.path

\* The hexadecimal string of a private key.
Hex(key) == Str([digits |-> 64, lowercase |-> TRUE, key |-> key])

Bundle(name, signing, exchange) ==
  [string_keys |-> TRUE, nested |-> {}, size |-> 1,
   fields |-> [format |-> Str(IDENTITY_FORMAT), name |-> Str(name),
               ed25519_private_key |-> Hex(signing), x25519_private_key |-> Hex(exchange)]]

\* Faulty: each key is written under the other's name.
StoragePayloadSwapped(identity) ==
  Bundle(identity.name, identity.exchange, identity.signing)

StoragePayload(identity) == Bundle(identity.name, identity.signing, identity.exchange)

\* _decode_private_key returns.
DecodesPrivateKey(value) ==
  /\ value.type = "str"
  /\ value.content.digits = 64
  /\ value.content.lowercase

\* The tests of Identity.load on what the store returned, but for the name.
IsIdentityOfAnyName(fields, name) ==
  /\ DOMAIN fields = {"format", "name", "ed25519_private_key", "x25519_private_key"}
  /\ fields.format = Str(IDENTITY_FORMAT)
  /\ DecodesPrivateKey(fields.ed25519_private_key)
  /\ DecodesPrivateKey(fields.x25519_private_key)

IsIdentity(fields, name) ==
  /\ IsIdentityOfAnyName(fields, name)
  /\ fields.name = Str(name)

\* The Identity that load makes of them.
LoadedIdentity(fields, name) ==
  [name |-> name, signing |-> fields.ed25519_private_key.content.key,
   exchange |-> fields.x25519_private_key.content.key]

\* The application saves no identity of its own making through the store.
ASSUME ObjectsAssumption ==
  \A o \in Objects :
    /\ o = [string_keys |-> o.string_keys, nested |-> o.nested, size |-> o.size,
            fields |-> o.fields]
    /\ o.string_keys \in BOOLEAN /\ o.size \in Nat
    /\ o.fields = [f \in DOMAIN o.fields |->
                     [type |-> o.fields[f].type, content |-> o.fields[f].content]]
    /\ \A k \in o.nested : k = [type |-> k.type, number |-> k.number]
    /\ \A n \in Names : Encodable(o) => ~IsIdentity(Parse(Encode(o)).fields, n)

\* Neither does the other program: what it seals is not an identity as save
\* writes it, and no longer than load reads (a longer file fails by its size).
ASSUME TextsAssumption ==
  \A t \in Texts :
    /\ t.size \in 0 .. MAX_STORE_PLAINTEXT_BYTES
    /\ \A n \in Names :
         Parses(t) /\ Encode(Parse(t)) = t => ~IsIdentity(Parse(t).fields, n)

-----------------------------------------------------------------------------
Init ==
  /\ file = [p \in Paths |-> Missing]
  /\ written = {}
  /\ loaded = {}
  /\ mishaps = 0

\* os.urandom: a salt and a nonce nobody has.
Fresh == 1 + 2 * Cardinality(written)

Write(path, passphrase, text, writer) ==
  LET blob == Seal(passphrase, Fresh, Fresh + 1, text)
  IN  /\ Cardinality(written) < MaxWrites
      /\ file' = [file EXCEPT ![path] = blob]
      /\ written' = written \cup
           {[writer |-> writer, path |-> path, passphrase |-> passphrase, blob |-> blob]}
      /\ UNCHANGED <<loaded, mishaps>>

\* EncryptedStore.save.  Whether it then returns or raises StoreError because
\* the directory could not be synchronised, the blob is there; a save that
\* fails before that, or refuses its arguments, changes nothing.
Save(path, passphrase, object, writer) ==
  /\ validate_passphrase(passphrase)
  /\ Encodable(object)
  /\ Write(path, passphrase, Encode(object), writer)

StoreSave(path, passphrase, object) ==
  Save(path, passphrase, object, [application |-> object])

IdentitySave(identity, passphrase) ==
  /\ ValidName(identity.name)
  /\ Save(identity.name, passphrase, StoragePayload(identity), [identity |-> identity])

IdentityLoad(name, passphrase) ==
  LET fields == Parse(file[name].sealed.text).fields
  IN  /\ ValidName(name)
      /\ validate_passphrase(passphrase)
      /\ file[name] # Missing
      /\ Loads(file[name], passphrase)
      /\ IsIdentity(fields, name)
      /\ loaded' = loaded \cup
           {[passphrase |-> passphrase, identity |-> LoadedIdentity(fields, name)]}
      /\ UNCHANGED <<file, written, mishaps>>

-----------------------------------------------------------------------------
(* The world around the program *)

ForeignWrite(path, passphrase, text) == Write(path, passphrase, text, [other |-> text])

Damaged(b) ==
  {[b EXCEPT !.magic = FALSE], [b EXCEPT !.version = 2],
   [b EXCEPT !.sealed.intact = FALSE],
   [b EXCEPT !.size = @ - 1, !.sealed.intact = FALSE]}
  \cup UNION {{[b EXCEPT !.salt = c.salt], [b EXCEPT !.nonce = c.nonce],
               [b EXCEPT !.sealed = c.sealed, !.size = c.size]} : c \in Blobs}

\* A file appears that was written elsewhere or earlier, as it was or damaged.
Mishap(path) ==
  /\ mishaps < MaxMishaps
  /\ mishaps' = mishaps + 1
  /\ \E b \in Blobs : file' \in {[file EXCEPT ![path] = c] : c \in {b} \cup Damaged(b)}
  /\ UNCHANGED <<written, loaded>>

Next ==
  \/ \E p \in Passphrases :
       \/ \E i \in Identities : IdentitySave(i, p)
       \/ \E n \in Paths :
            \/ IdentityLoad(n, p)
            \/ \E o \in Objects : StoreSave(n, p, o)
            \/ \E t \in Texts : ForeignWrite(n, p, t)
  \/ \E n \in Paths : Mishap(n)

Spec == Init /\ [][Next]_vars

-----------------------------------------------------------------------------
TypeOK ==
  /\ \A n \in Paths : file[n].size \in 0 .. MAX_STORE_FILE_BYTES
  /\ \A w \in written : w.path \in Paths /\ w.passphrase \in Passphrases
  /\ \A l \in loaded : l.identity.name \in Paths /\ l.passphrase \in Passphrases
  /\ mishaps \in 0 .. MaxMishaps

(* Whatever happened to the files of the directory, an identity that load  *)
(* returns for a name is one that Identity.save wrote under that name and  *)
(* this passphrase, both keys together: not another person's file moved to *)
(* this path, a file spliced from two, or another kind of object.          *)
LoadedWasSaved ==
  \A l \in loaded :
    \E w \in written : w.writer = [identity |-> l.identity] /\ w.passphrase = l.passphrase

(* A file nobody touched since Identity.save wrote it loads, and gives     *)
(* back the identity that was saved: its name and each of its two keys.    *)
SavedIdentityLoads ==
  \A w \in written, i \in Identities :
    w.writer = [identity |-> i] =>
      LET fields == Parse(w.blob.sealed.text).fields
      IN  /\ Loads(w.blob, w.passphrase)
          /\ IsIdentity(fields, i.name)
          /\ LoadedIdentity(fields, i.name) = i

\* The object with its tuples replaced by lists.
ListsForTuples(o) ==
  [string_keys |-> o.string_keys, nested |-> o.nested, size |-> o.size,
   fields |-> [f \in DOMAIN o.fields |->
     [type |-> IF o.fields[f].type = "tuple" THEN "list" ELSE o.fields[f].type,
      content |-> o.fields[f].content]]]

(* If every key of every dictionary in it is a string, EncryptedStore.load *)
(* does not refuse an object that save accepted, up to the largest one,    *)
(* and gives it back with nothing changed but that its tuples are lists.   *)
SavedObjectLoads ==
  \A w \in written, o \in Objects :
    /\ w.writer = [application |-> o]
    /\ \A k \in o.nested : k.type = "str"
    => /\ Loads(w.blob, w.passphrase)
       /\ Parse(w.blob.sealed.text) = ListsForTuples(o)

(* EncryptedStore.save refuses objects with keys that are not strings      *)
(* ("encrypted store keys must be strings"), so load gives back every      *)
(* object save accepted.                                                   *)
AcceptedObjectLoads ==
  \A w \in written, o \in Objects :
    w.writer = [application |-> o] => Loads(w.blob, w.passphrase)
=============================================================================

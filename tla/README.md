# A TLA+ verification of CypherSyntax

CypherSyntax (`src/src/cyphersyntax`) is a Python library for authenticated
sessions between two identities: a three-message handshake, a message layer with
replay protection, and encrypted local persistence. It has no network code: the
application carries every message, and threads of the application share the
library's objects. This directory models the parts that keep state and the
encodings between them, checks them with TLC on small instances and proves their
safety properties and refinements with TLAPS for every instance.

## Inventory

| component | state | operations | interacts with | hard behaviour | what makes it correct |
|---|---|---|---|---|---|
| replay window (`replay.py`, `protocol.py`) | `highest_seen`, `seen`, a lock | `observe`, `authenticate_and_record` | called by `SessionState.decrypt`, calls back the authentication | threads, an operation that raises under the lock, window edges | every number recorded at most once; decisions independent of what was pruned; bounded memory; the lock always released |
| session (`session.py`, `kdf.py`) | `send_sequence`, send lock, a replay window, keys | `encrypt`, `decrypt` | peers through packets the application carries | threads, failures inside `encrypt`, exhausted sequence, lost, repeated, reordered, reflected, misdelivered, damaged packets | one packet per message key; what is returned was sent by the peer, once; late packets inside the window accepted |
| handshake (`session.py`, `handshake.py`) | per object one secret that `complete()` clears | `SessionFactory.initiator`, `.responder`, both `complete()` | makes the sessions; peers through three messages | concurrent and repeated handshakes, misdelivered or damaged messages, wrong anchors and secrets, two threads in `complete()` | the two ends agree on peer, suite and root; one session per handshake object; refused messages do no harm |
| message envelope (`wire.py`) and handshake encoding (`handshake.py`) | none | `to_bytes`, `from_bytes` | used by the two above | canonical form, size limits, fields written in one place and signed in another | decoding is the inverse of encoding; only the text that was sent authenticates |
| identity (`identity.py`) | key pairs | `generate`, `sign`, `verify`, `save`, `load` | handshake, store | files moved to another name | a loaded identity is the one saved under that name |
| atomic write (`persistence.py`) | a file, its temporary files, its directory | `atomic_write_bytes` | called by the store | crash between steps, I/O errors at every step, concurrent writers | old or new content, never a mixture; what returned survives; no litter |
| store (`store.py`) | a file | `save`, `load` | identity; the atomic write | damaged, spliced and foreign files, size limits, canonical form | load gives back what save accepted, as JSON allows, and nothing else |
| errors, exports, `demo.py`, `check_green.py`, `check_source_quality.py` | none of the library's | | | | not modelled |

The hazards these behaviours create are listed in `PROJECT.json`, each at the
line where it bites and with the properties that would notice it.

## Modules

| module | models |
|---|---|
| `Replay` | a replay window as a value, with `_check_unlocked` and `_record_unlocked` as functions on it |
| `ReplayWindow` | a `ReplayWindow` object shared by threads: call, lock, check, operation, record |
| `ReplayOracle` | what the window promises: an oracle that never forgets |
| `ReplayProofs` | lemmas about the functions of `Replay`, used by the two proofs below |
| `ReplayWindowProofs`, `SessionProofs`, `HandshakeProofs`, `PersistenceProofs`, `IdentityStoreProofs`, `CodecProofs` | the theorems about each state machine |
| `Session` | `SessionState.encrypt` and `decrypt` at both ends of several sessions |
| `SessionEnds` | `EndsFit`: what a `SessionState` takes for granted of the values it was constructed with |
| `SecureChannel` | what a session promises: the peer's plaintexts, each position at most once |
| `HandshakeMessages` | offers, responses, confirmations, transcripts, keys and the tests put to them |
| `Handshake` | `SessionFactory` and the two `complete()` methods |
| `Persistence` | `atomic_write_bytes`, one system call a step, and a file system that may lose power |
| `DurableRegister` | what `atomic_write_bytes` promises: a register that changes at one instant and as a whole |
| `Store` | the file format of `EncryptedStore`: which objects `save` encodes and which files `load` accepts |
| `IdentityStore` | `Identity` and `EncryptedStore` `save` and `load` over one directory |
| `Codec` | `to_bytes`, `from_bytes` and the constructors of the four messages |
| `MC*` | constants for TLC |

`Session` uses the functions of `Replay`, so both state machines share one
definition of the window. `Session` assumes one formula of its endpoints
(`EndpointAssumption`, which is `EndsFit` of `SessionEnds`): each has a peer with
its suite, another name and another ephemeral key, and shares its root key with that
peer only. `Handshake` shows the same formula of the sessions `complete()` returns
(`SessionsFit`). A session an initiator already uses may have a peer whose
`complete()` has yet to return, or never will because the confirmation was lost; that
peer (`Awaited`) counts as an end, which `Session` sees as an endpoint nobody calls.
`Handshake` and `Session` exchange messages as records and rely on `Codec` for
that: every message survives its encoding (`RoundTrip`), and no other text is
accepted and authenticated as that message (`AuthenticIsSent`). `IdentityStore` writes files in one step and relies on
`Persistence` for that (`ImplementsRegister`); it uses the format of `Store`.

### How state and actions correspond to the code

*ReplayWindow.* `window` is the pair of fields, `lock` the holder of `_lock`,
`pc`, `method` and `sequence` are the thread's position and arguments. A call
waits (`Call`, `Acquire`), checks (`CheckRaises`, `CheckPasses`), runs the
operation (`OperationRaises`, `OperationReturns`; `observe` has none), records and
leaves (`RecordAndReturn`). `acceptances` is a history of what was recorded. The
lock is an `RLock`; no operation of the library calls back into the window, so
re-entrance does not occur.

*Session.* A thread is idle, waiting for the send lock (`encrypting`), holding it
with a sequence number read (`sealing`), waiting for the window's lock
(`decrypting`) or holding it with the check passed (`authenticating`). Lock and
first reads are one step, since the fields read are written under the same lock
only. `EncryptRaises` is an exception anywhere between the read of
`send_sequence` and its increment. The refusals `encrypt` and `decrypt` make
before they take a lock (size, parsing, version, suite, names) change nothing and
are guards of `Encrypt` and `Decrypt`. Keys, ciphertexts and associated data are
records of what they are made from; a ciphertext opens under the same key and
associated data only. `sent` and `received` are histories of what the calls
returned. The transport is every packet in `sent`, given to any endpoint any
number of times, also with one field damaged or the ciphertext of another packet.

*Handshake.* An object never changes except that `complete()` clears its secret,
so objects are records and `pending` holds the keys of those not cleared.
`complete()` takes no lock: `BeginInitiator`/`BeginResponder` read the secret and
make all tests (which depend on nothing that changes), `EndInitiator`/
`EndResponder` build the session and clear the secret; `InitiatorRaises` and
`ResponderRaises` are the calls that raise. `Confined` says whether the
application keeps each object to one call at a time. Fresh ephemeral keys are
numbers in order. Damaged messages keep the signature and change one field, or
carry the signature or key confirmation of another message.

*Persistence.* `step` is the system call each call of `atomic_write_bytes` will
make next; every one may raise `OSError` (`RaiseOSError`), after which the finally
block runs (`Unlink`) if there is a temporary file. The three ways to raise
`PersistenceError` are kept apart (`Raised`): nothing left behind, the temporary file
left because `unlink` failed (`littered`), and `_sync_directory` failed after the
rename (`unsynced`). Two errors escape as a plain `OSError` (`escaped`): that of
`is_symlink`, which is outside both `try` blocks, and that of `os.close` in the finally
block (`CloseFails`, after a failed `os.fdopen`), which also skips the `unlink`. `history` lists the files that
were renamed to the destination, the last of which it names now; `synced` says how
many of the renames are on the disk. The file system is an assumption, as weak as
the code allows: bytes survive a power failure once `fsync` returned and may be
lost wholly or partly before; `os.replace` is atomic; renames survive once the
directory was synchronised and are otherwise undone from the last one backwards;
the entry of a directory that `mkdir` made is not synchronised by anyone. A
process may be killed anywhere (`Kill`), all of them by a power failure. The
symbolic-link test is made against a destination that does not change meanwhile.
Failures of `fchmod` and `chmod`, which the code ignores, are left out. On Windows
`_sync_directory` does nothing, so `ReturnedSurvives` is stated for the rest.

*Store and IdentityStore.* A file is a record of its header, salt, nonce, size and
of what was sealed; it opens under the key derived from the same passphrase and
salt. An object is its top-level fields, its size and the keys of one nested
dictionary: numbers, as integers or as strings of digits, which `json.dumps`
writes alike and sorts differently. The value of a field is its Python type and its
content. `WriteFields` turns the type into the kind of JSON value (`JsonKind`) and
refuses what has none; `ReadFields` turns it back (`ReadAs`). The two are not inverse:
lists and tuples are both written as arrays, and arrays are read as lists. So
`SavedObjectLoads` says that the object comes back with lists for its tuples
(`ListsForTuples`) and otherwise as it was. A path is known by the name it is the hash
of. Loads that raise change nothing and are not actions; `IdentityLoad` is a load
that returns. The world moves, restores, damages and splices files (`Mishap`), and
other programs that know the passphrase seal texts `save` would never write
(`ForeignWrite`). That nobody who knows the passphrase writes a well-formed bundle
other than through `Identity.save` is assumed, of objects in `ObjectsAssumption` and
of foreign texts in `TextsAssumption`.

*Codec.* A document is the list of members in the order written, each value with
its type, its facts the code tests (length, case, number) and whether it is
spelled as `json.dumps` spells it, plus whether there is anything between the
members. Sizes are computed as `json.dumps` gives them, names with the bytes their
escapes take. The transport changes values and spellings, reorders, drops and
repeats members. `Authentic` is a text that `from_bytes` accepts and whose signature
or tag is then verified: `OfferSigned`, `ResponseSigned` and `ConfirmationSigned` list
the fields the signature payloads and the comparisons before them cover,
`AssociatedFields` those of `associated_data`; a signature or ciphertext is taken to be
one that nobody makes for other data. They are lists of their own, as in the code, so a
field that is written and not signed would show in `AuthenticIsSent`. The schemas that `from_bytes` expects and the keys that
`to_bytes` writes are separate definitions, as they are in the code; the latter
are listed in the order `sort_keys=True` gives them. `MessagesAssumption` says that
the messages sent are ones their constructors accept. `EscapesAssumption` and
`LengthsAssumption` say what Python guarantees of the lengths: escapes at most double
the bytes of a UTF-8 text and at most triple those of an ASCII-only encoding, an
integer has at most 20 digits, and field names are short.

Definitions whose comment begins with "Faulty" are slips the code could contain.
Each one, put in the place of the definition it varies, makes a property fail
(`mutants` in `PROJECT.json`). Where the code makes one more test than the slip,
the right definition is written as the slip and that test.

## Runs

| run | instance | shows |
|---|---|---|
| `replay_window` | 3 threads, 5 calls, window 2, numbers 0 to 4 and one beyond each end | types, `AtMostOnce`, `WindowMatchesHistory`, `SeenBounded`, `CheckStillHolds`, `JudgesByHistory`, refinement of `ReplayOracle` |
| `replay_window_live` | 3 threads, 4 calls, numbers 0 to 2 | `CallsReturn` |
| `sessions` | 2 sessions of the same people and suite, 2 threads, 4 calls, 2 numbers, window 1 | `KeyUsedOnce`, `NoSequenceGap`, `ReceivedWasSent`, `ReceivedOnce`, `WindowFollowsPeer`, `GenuineOpens`, refinement of `SecureChannel` |
| `session_long` | 1 session, 2 threads, 6 calls, 3 numbers, window 2 | `NoFalseReject`, `CallsReturn` |
| `handshake` | Alice, Bob and a namesake of Bob, 4 objects, 2 threads, objects confined | `InitiatorAgreement`, `ResponderAgreement`, `CompletedOnce`, `SessionsFit`, `OffersAreGenuine` |
| `handshake_live` | one invitation, matching and mismatching secrets, 4 objects, 2 threads, not confined | `HandshakeCompletes`, `SharedRoots` |
| `handshake_race` | one handshake, 2 threads, not confined | `CompletedOnce` is violated |
| `persistence` | 2 calls, 2 power failures, both platforms, directory there or not, symbolic link or not | `NeverTorn`, `ReturnedSurvives`, `NoLitter`, `CallsEnd`, refinement of `DurableRegister` |
| `persistence_failure` | 2 calls, no power failure | `FailurePreservesPrevious` is violated |
| `identity_store` | 2 people, one with two key pairs, and an invalid name; 3 passphrases, 11 objects, 2 foreign texts; 2 files written, 1 mishap | `LoadedWasSaved`, `SavedIdentityLoads`, `SavedObjectLoads` |
| `store_keys` | the same | `AcceptedObjectLoads` is violated |
| `codec` | a small and the largest message of each of the 4 kinds, 2 changes | `RoundTrip`, `AuthenticIsSent` |

**Bounds.** A window of 2 over 5 numbers has numbers that are seen, in the window
and unseen, pruned, and just out of it at both ends; five calls fill the window,
move it past a recorded number and present that number again. Two sequence numbers
let an endpoint exhaust its space in three calls. Two sessions with equal names
and suite leave nothing but keys to tell packets apart; four calls suffice for
any packet of one session to meet a moved window of the other. Four handshake
objects allow two complete handshakes side by side, a repeated offer, crossed
roles, or an offer answered by three responders; five objects were checked once
(76 092 states, no violation) and are left out for time. Two calls of
`atomic_write_bytes` can overlap at every pair of steps, and a second power failure
can follow a recovery from the first; three calls were checked once with two power
failures (781 800 states, safety and refinement, no violation). Two files written
and one mishap suffice to move one file over another, or to splice two. Two changes
make a document that repeats a member under a new value or changes two names to
one. `Codec` uses the code's own sizes; the largest names are those whose escapes
take most bytes. The largest object of `Store` has 3 bytes: only the distance to the
limits matters. Symmetry over threads is
used in the runs without liveness properties.

**Fairness.** A thread that can run is run again (`WF` on the steps of a call in
progress); with a bounded number of calls this gives the lock to everyone, and no
fairness of the lock itself is assumed. The operation of
`authenticate_and_record` returns or raises: it derives a key and decrypts. In
`HandshakeCompletes` the application hands each response and each confirmation to
its addressee sooner or later: an assumption on the application, as the library
has no transport. No fairness is assumed of `SessionFactory` calls or of damage.
In `CallsEnd` every system call of `atomic_write_bytes` returns or fails, and the
thread goes on; calls that were killed count as ended.
`CHECK_DEADLOCK FALSE` throughout: the application may stop calling.

**What `handshake_race` shows.** `InitiatorHandshake.complete` reads
`_ephemeral_private_key` (line 162), tests it for `None`, and clears it at line
242. A second thread that enters in between passes the same test, and both return
a session with the same root key and `send_sequence` 0, contrary to the error
message of line 164 ("initiator handshake has already been completed") and to
`src/tests/test_handshake.py:146`, which checks it for calls in sequence.
`ResponderHandshake.complete` has the same gap. With each object confined to one
thread at a time the property holds (run `handshake`).

**What `persistence_failure` shows.** `_sync_directory` (line 79 of
`persistence.py`) runs after `os.replace`. If it fails, `PersistenceError` is raised
and `Identity.save` reports a failure, but the destination holds the new content.
`test_identity_save_failure_preserves_previous_bundle`
(`src/tests/test_identity.py:225`) states the opposite and tests it for a failing
`os.replace`. The refinement of `DurableRegister` says what does hold: a call that
raised has taken effect as a whole or not at all.

**What `store_keys` shows.** `_encode_object` (line 45 of `store.py`) tests only the
outermost keys. `save({"a": {2: 1, 10: 1}})` succeeds, with the members sorted as
numbers; `load` reads the keys as strings, sorts `"10"` before `"2"`, and refuses the
file as not canonical. The rule of line 46, "encrypted store keys must be strings",
and `src/tests/test_store.py:97` would have it refused by `save`. With string keys
throughout the object comes back (`SavedObjectLoads`).

## Proofs

Every safety invariant, action property and refinement that a passing run checks is a
theorem for every value of the constants, with one reservation: three properties of
`Handshake` are proved for confined objects, which is where they hold. Each theorem
rests on the named `ASSUME`s of the module it is about, which TLC evaluates in the
runs, and on nothing else. Each proof module defines an inductive invariant `Inv`, has
one lemma for each action or group of alike actions, collects them in `StepInv` and
`Invariance`, and derives the properties from `Inv`.

**`ReplayWindowProofs`** assumes what `__post_init__` enforces (`WindowSize` > 0) and
that the value for a free lock is no thread. `AtMostOnce` alone is not inductive.
`Inv` adds
 - `Exclusion`: a thread is between lock and unlock exactly if it holds the lock;
 - `CheckStillHolds`: so nobody moved the window since the holder's check;
 - `WindowMatchesHistory`: so a number that passes the check was never recorded,
   not even one that has been pruned since (`CheckIsHistoryCheck`).

`RecordKeepsMatch` shows that recording keeps the window in step with the history.
The action property and the refinement of `ReplayOracle` follow from `Inv` and
`CheckIsHistoryCheck`; `BoundedMemory` from `seen` being inside an interval of
`WindowSize` numbers. These lemmas are in `ReplayProofs` and are cited again for
`Session`.

**`SessionProofs`** assumes `EndpointAssumption` (above). The hard part is what a call
knows between its steps, so `Inv` says
 - of a call in the middle of `encrypt`, that it holds the send lock and the number it
   read still is `send_sequence`: so numbers are given out without gap
   (`NumberedWithoutGap`), and with distinct roots and ephemerals no message key seals
   two packets (`NoKeyReuse`);
 - of a call in `authenticate_and_record`, that it holds the window's lock and the
   check it passed still holds;
 - of a packet handed to `decrypt`, that its ciphertext is broken or is one that some
   `encrypt` made: so what opens was sealed by the peer under the same number and
   names (`OpensOnlyPeers`), which gives `Authenticity`;
 - that each window is the recent part of what its endpoint received: so a replay is
   always refused (`NoReplay`) and nothing else is (`OnlyReplaysRefused`,
   `GenuinePass`).

`RefinesChannel` maps each step to one of `SecureChannel` or to a stutter.

**`HandshakeProofs`** assumes that a signing key belongs to one identity. Ephemeral keys
are fresh, so a key names one object (`KeysAreFresh`). A signature covers every other
field of its message, so a message that passes its tests agrees with one an honest
party made, however the transport damaged it (`AcceptedOfferIsGenuine`,
`AcceptedResponseIsAnswer`, `AcceptedConfirmationIsAnswered`). So every call that
passed its tests, every confirmation and every session belongs to a responder object
that answers an initiator object. This gives `GenuineOffers`, `InitiatorAgrees` and
`RootsStay` without any condition on the application: two sessions with one root key
come from one object, or are the two ends of one handshake. `CompletesOnce`,
`RootsPair` and `ResponderAgrees` count sessions and need `Confined`, under which a
secret that a call has read is still there when the call clears it; without it
`CompletedOnce` is false (`handshake_race`). `RootsStay` (`SharedRoots`) is what remains of
`RootsPair` when threads race.

`HandshakesMakeSessions` joins this proof to the one of `Session`: with confined objects
`SessionsFit` holds, so `EndpointAssumption` is true of what handshakes produce and the
theorems of `SessionProofs` apply to it. An initiator returns only after its responder
made the root, a responder only after its initiator returned, so every end has a mirror
(`EndHasMirror`); the mirror is known by its ephemeral key, which belongs to one object,
and a confined object has one end (`OneEnd`), so the mirror is unique (`OneMirror`); and a
root key holds the transcript, hence both ephemeral keys, so no third end has it
(`RootsOfEnds`).

**`PersistenceProofs`** assumes only that the bounds are numbers. A power failure may
put back any file renamed earlier, so `NeverTorn` needs that all files of the history
are synchronised, which needs that a call reaches `os.replace` only with synchronised
bytes and does not write afterwards. `ReturnedSurvives` and `NoLitter` are inductive
together with the types and with where a call can be once its file was renamed; a call
that ended after its rename has its file among the temporary ones only if a power
failure put it back.
`RefinesRegister` also needs that a call at `_sync_directory` is in the history and that
an absent directory holds no file.

**`IdentityStoreProofs`** assumes that a passphrase has one length, that names and
objects have the shape Python gives them, and the two assumptions about who writes
bundles (above). Whatever happens to a file, the key and the text of its sealed part
stay those of one save (`FileOK`); so a file that opens under a passphrase holds what
was sealed under it, and text that decodes to an identity of the wanted name can only
be what `Identity.save` wrote (`LoadsOnlySaved`). `IdentityRoundTrip` and `ObjectRoundTrip`
rest on `ParseEncode`: what is read from the encoding of an object whose nested keys are
strings is that object with lists for its tuples. A bundle holds strings only, so it
comes back with each key where it was.

**`CodecProofs`** assumes `MessagesAssumption`, and for sizes `EscapesAssumption` and
`LengthsAssumption`. However a document is changed, its members
stay pairs of a field and a value (`MemberOK`). `OneAuthenticText` joins three facts that
live in different places of the code: every field of a kind is the kind itself, signed,
or the signature (`NothingUnsigned`); a value that passed the constructor's tests has the
one type they allow (`TypesAccepted`), so that equal data are equal values; and
`from_bytes` compares what it read with the encoding of what it decoded, so that equal
values are equal texts. `SentIsReceived` needs that the members of an encoding are exactly
the fields of its kind, each once (`OrderFacts`, `EncodeLists`), and that the largest
encoding fits the limit of its kind (`EncodingFits`). The size is a sum over the members,
defined by recursion on their number. That the recursion has a value (`SumsExist`) and
is bounded by what each member may take (`Room`, `MemberSize`, `BytesFacts`) are inductions
over numbers; they are made as arguments about the least number for which the claim
fails (`LeastNumber`), since the induction theorems of the library take an operator.

Only model-checked:
 - liveness, which is out of the prover's reach: `CallsReturn` of both modules,
   `HandshakeCompletes`, `CallsEnd`;
 - the properties that the code violates (runs `handshake_race`, `persistence_failure`,
   `store_keys`).

## Plan

1. Done: all components modelled, with their runs; all their safety properties and
   refinements proved.
2. Done: the seam between handshake and session, as a theorem.
3. Left: two seams are arguments of this document and not theorems. `IdentityStore`
   writes a file in one step where `Persistence` takes many and shows that they amount
   to one; `Handshake` and `Session` pass records where the code passes the bytes of
   `Codec`.

## Not modelled

 - The strength of the primitives: keys, signatures and ciphertexts are symbolic. The
   length prefixes that make the signed and derived byte strings unambiguous
   (`_encode_field`, `_length_prefixed`) are part of that: a payload is the record of
   its fields. Scrypt's parameters.
 - Exception texts and classes, `errors.py` and the exports of `__init__.py`: no state
   and no decision.
 - `demo.py` and `pair_for_tests`: sequences of calls that `Handshake` and `Session`
   take one by one.
 - `check_green.py` and `check_source_quality.py`: tools that run once in a developer's
   checkout, start other programs and look at source text. They decide by the exit
   status of programs and by the syntax of files, neither of which has a state to
   explore, and no part of the library depends on them.

--------------------------- MODULE MCIdentityStore ---------------------------
(* Two people, one of whom has had two key pairs, and a name that is a     *)
(* path; passphrases of the shortest and the longest length and one too    *)
(* short.                                                                  *)
EXTENDS IdentityStore

Name(word, path) ==
  [word |-> word, bytes |-> 5, stripped |-> TRUE, printable |-> TRUE, path |-> path]
alice == Name("alice", FALSE)
bob == Name("bob", FALSE)
MCNames == {alice, bob, Name("a/b", TRUE)}

Person(name, key) == [name |-> name, signing |-> <<key, "s">>, exchange |-> <<key, "x">>]
MCIdentities == {Person(alice, 1), Person(alice, 2), Person(bob, 3)}

MCPassphrases ==
  {[secret |-> 1, length |-> 16], [secret |-> 2, length |-> 1024], [secret |-> 3, length |-> 15]}

\* "10" sorts before "2".
MCTextRank == [n \in {2, 10} |-> IF n = 10 THEN 1 ELSE 2]

Object(size, nested) ==
  [string_keys |-> TRUE, size |-> size, nested |-> nested,
   fields |-> [value |-> [type |-> "int", content |-> 0]]]
Valued(type) == [Object(1, {}) EXCEPT !.fields.value.type = type]
AliceObject == StoragePayload(Person(alice, 4))
Ints == {[type |-> "int", number |-> n] : n \in {2, 10}}
Strings == {[type |-> "str", number |-> n] : n \in {2, 10}}

\* The largest object and one byte more, nested keys of each type, a tuple, a
\* value that is not JSON, and bundles of Alice's with a wrong format, key or
\* set of fields.
MCObjects ==
  {Object(MAX_STORE_PLAINTEXT_BYTES, {}), Object(MAX_STORE_PLAINTEXT_BYTES + 1, {}),
   Object(1, Strings), Object(1, Ints), Object(1, Ints \cup Strings),
   [Object(1, {}) EXCEPT !.string_keys = FALSE],
   Valued("tuple"), Valued("unwritable"),
   [AliceObject EXCEPT !.fields.format = Str("CypherSyntax/identity/v2")],
   [AliceObject EXCEPT !.fields.x25519_private_key.content.digits = 5],
   [AliceObject EXCEPT !.fields = [name |-> @.name]]}

\* Text that is no object, and a bundle of Alice's with spaces in it.
MCTexts ==
  {[Encode(AliceObject) EXCEPT !.form = "other"], [Encode(AliceObject) EXCEPT !.form = "spaced"]}
=============================================================================

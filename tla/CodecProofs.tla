----------------------------- MODULE CodecProofs -----------------------------
(***************************************************************************)
(* What the four from_bytes accept, for any messages, any damage and any   *)
(* number of changes.                                                      *)
(*                                                                         *)
(* The argument: however a document is changed, its members stay pairs of  *)
(* a field and a value (MemberOK), so decoded values of one type differ    *)
(* only in their data.  The constructors fix the type of every field       *)
(* (TypesAccepted), and its kind or its authentication fixes its data      *)
(* (NothingUnsigned); so an authentic document decodes to the message that *)
(* was sent, and from_bytes encodes what it decoded and compares.  That    *)
(* every message fits its limit is a sum over the members of its encoding: *)
(* the sums exist for any number of members, by induction as a least       *)
(* number without them, and each member has a bound of its own (Room).     *)
(***************************************************************************)
EXTENDS Codec, WellFoundedInduction, TLAPS

MemberOK(m) ==
  /\ m = [field |-> m.field, value |-> m.value]
  /\ m.field \in (UNION {Fields(k) : k \in Kinds}) \cup {"extra"}
  /\ m.value = [type |-> m.value.type, data |-> m.value.data, spelling |-> m.value.spelling]

MembersOK(s) ==
  /\ Len(s) \in Nat
  /\ s = [i \in 1 .. Len(s) |-> s[i]]
  /\ \A i \in 1 .. Len(s) : MemberOK(s[i])

DocumentOK(d) ==
  /\ d = [object |-> d.object, spaced |-> d.spaced, members |-> d.members]
  /\ MembersOK(d.members)

Inv ==
  /\ message \in Messages
  /\ DocumentOK(document)
  /\ damages \in 0 .. MaxDamages
  /\ damages = 0 => document = Encode(message.kind, message.values)

-----------------------------------------------------------------------------
(* Encodings *)

\* An enumeration of a set without repetition.
Enumerates(o, S) ==
  /\ Len(o) \in Nat /\ DOMAIN o = 1 .. Len(o)
  /\ \A i \in DOMAIN o : o[i] \in S
  /\ \A f \in S : \E i \in DOMAIN o : o[i] = f
  /\ \A i, j \in DOMAIN o : o[i] = o[j] => i = j

(* to_bytes writes every field of its message once. *)
LEMMA OrderFacts ==
  ASSUME NEW k \in Kinds
  PROVE  Enumerates(FieldOrder(k), Fields(k))
<1>1. Enumerates(OfferKeys, OfferFields)
  <2>1. Len(OfferKeys) = 8 /\ DOMAIN OfferKeys = 1 .. 8
    BY DEF OfferKeys
  <2>2. \A i \in 1 .. 8 : i = 1 \/ i = 2 \/ i = 3 \/ i = 4 \/ i = 5 \/ i = 6 \/ i = 7 \/ i = 8
    OBVIOUS
  <2>3. \A i \in 1 .. 8 : OfferKeys[i] \in OfferFields
    BY <2>2 DEF OfferKeys, OfferFields, CommonFields
  <2>4. \A f \in OfferFields : \E i \in 1 .. 8 : OfferKeys[i] = f
    BY DEF OfferKeys, OfferFields, CommonFields
  <2>5. \A i, j \in 1 .. 8 : OfferKeys[i] = OfferKeys[j] => i = j
    BY <2>2 DEF OfferKeys
  <2> QED BY <2>1, <2>3, <2>4, <2>5 DEF Enumerates
<1>2. Enumerates(ResponseKeys, ResponseFields)
  <2>1. Len(ResponseKeys) = 11 /\ DOMAIN ResponseKeys = 1 .. 11
    BY DEF ResponseKeys
  <2>2. \A i \in 1 .. 11 : i = 1 \/ i = 2 \/ i = 3 \/ i = 4 \/ i = 5 \/ i = 6 \/ i = 7 \/ i = 8
                           \/ i = 9 \/ i = 10 \/ i = 11
    OBVIOUS
  <2>3. \A i \in 1 .. 11 : ResponseKeys[i] \in ResponseFields
    BY <2>2 DEF ResponseKeys, ResponseFields, OfferFields, CommonFields
  <2>4. \A f \in ResponseFields : \E i \in 1 .. 11 : ResponseKeys[i] = f
    BY DEF ResponseKeys, ResponseFields, OfferFields, CommonFields
  <2>5. \A i, j \in 1 .. 11 : ResponseKeys[i] = ResponseKeys[j] => i = j
    BY <2>2 DEF ResponseKeys
  <2> QED BY <2>1, <2>3, <2>4, <2>5 DEF Enumerates
<1>3. Enumerates(ConfirmationKeys, ConfirmationFields)
  <2>1. Len(ConfirmationKeys) = 9 /\ DOMAIN ConfirmationKeys = 1 .. 9
    BY DEF ConfirmationKeys
  <2>2. \A i \in 1 .. 9 : i = 1 \/ i = 2 \/ i = 3 \/ i = 4 \/ i = 5 \/ i = 6 \/ i = 7 \/ i = 8
                          \/ i = 9
    OBVIOUS
  <2>3. \A i \in 1 .. 9 : ConfirmationKeys[i] \in ConfirmationFields
    BY <2>2 DEF ConfirmationKeys, ConfirmationFields, CommonFields
  <2>4. \A f \in ConfirmationFields : \E i \in 1 .. 9 : ConfirmationKeys[i] = f
    BY DEF ConfirmationKeys, ConfirmationFields, CommonFields
  <2>5. \A i, j \in 1 .. 9 : ConfirmationKeys[i] = ConfirmationKeys[j] => i = j
    BY <2>2 DEF ConfirmationKeys
  <2> QED BY <2>1, <2>3, <2>4, <2>5 DEF Enumerates
<1>4. Enumerates(EnvelopeKeys, EnvelopeFields)
  <2>1. Len(EnvelopeKeys) = 6 /\ DOMAIN EnvelopeKeys = 1 .. 6
    BY DEF EnvelopeKeys
  <2>2. \A i \in 1 .. 6 : i = 1 \/ i = 2 \/ i = 3 \/ i = 4 \/ i = 5 \/ i = 6
    OBVIOUS
  <2>3. \A i \in 1 .. 6 : EnvelopeKeys[i] \in EnvelopeFields
    BY <2>2 DEF EnvelopeKeys, EnvelopeFields
  <2>4. \A f \in EnvelopeFields : \E i \in 1 .. 6 : EnvelopeKeys[i] = f
    BY DEF EnvelopeKeys, EnvelopeFields
  <2>5. \A i, j \in 1 .. 6 : EnvelopeKeys[i] = EnvelopeKeys[j] => i = j
    BY <2>2 DEF EnvelopeKeys
  <2> QED BY <2>1, <2>3, <2>4, <2>5 DEF Enumerates
<1> QED BY <1>1, <1>2, <1>3, <1>4 DEF Kinds, FieldOrder, Fields

\* The document d lists the values of the fields in the order o.
Lists(d, o, values) ==
  /\ d = [object |-> TRUE, spaced |-> FALSE, members |-> d.members]
  /\ Len(d.members) = Len(o) /\ DOMAIN d.members = DOMAIN o
  /\ d.members = [i \in 1 .. Len(o) |-> d.members[i]]
  /\ \A i \in DOMAIN o : d.members[i] = [field |-> o[i], value |-> values[o[i]]]

(* to_bytes writes the values in the order of the fields. *)
LEMMA EncodeLists ==
  ASSUME NEW k \in Kinds, NEW values
  PROVE  Lists(Encode(k, values), FieldOrder(k), values)
<1> SUFFICES ASSUME NEW o, o = FieldOrder(k), NEW s,
                    s = [i \in DOMAIN o |-> [field |-> o[i], value |-> values[o[i]]]],
                    NEW d, d = [object |-> TRUE, spaced |-> FALSE, members |-> s]
             PROVE  Lists(d, o, values)
  BY DEF Encode
<1>1. Len(o) \in Nat /\ DOMAIN o = 1 .. Len(o)
  BY OrderFacts DEF Enumerates
<1>2. s = [i \in 1 .. Len(o) |-> [field |-> o[i], value |-> values[o[i]]]]
  BY <1>1
<1>3. DOMAIN s = 1 .. Len(o) /\ Len(s) = Len(o)
  BY <1>1, <1>2
<1>4. \A i \in DOMAIN o : s[i] = [field |-> o[i], value |-> values[o[i]]]
  OBVIOUS
<1>5. s = [i \in 1 .. Len(o) |-> s[i]]
  BY <1>2
<1>6. d.members = s
  OBVIOUS
<1> QED BY <1>1, <1>3, <1>4, <1>5, <1>6 DEF Lists

(* The fields of a message of any kind are among the fields there are. *)
LEMMA FieldsAreFields ==
  ASSUME NEW k \in Kinds PROVE Fields(k) \subseteq (UNION {Fields(j) : j \in Kinds}) \cup {"extra"}
OBVIOUS

(* What to_bytes returns is a document. *)
LEMMA EncodedIsDocument ==
  ASSUME NEW m \in Messages
  PROVE  DocumentOK(Encode(m.kind, m.values))
<1> SUFFICES ASSUME NEW k, k = m.kind, NEW values, values = m.values
             PROVE  DocumentOK(Encode(k, values))
  OBVIOUS
<1>1. k \in Kinds
  BY MessagesAssumption
<1>2. \A f \in Fields(k) :
        values[f] = [type |-> values[f].type, data |-> values[f].data, spelling |-> "plain"]
  BY MessagesAssumption
<1> SUFFICES ASSUME NEW o, o = FieldOrder(k), NEW d, d = Encode(k, values),
                    NEW s, s = d.members
             PROVE  DocumentOK(d)
  OBVIOUS
<1>3. /\ Len(s) = Len(o) /\ DOMAIN s = DOMAIN o
      /\ s = [i \in 1 .. Len(s) |-> s[i]]
      /\ \A i \in DOMAIN o : s[i] = [field |-> o[i], value |-> values[o[i]]]
      /\ d = [object |-> TRUE, spaced |-> FALSE, members |-> s]
  <2>1. Lists(d, o, values)
    BY <1>1, EncodeLists
  <2> QED BY <2>1 DEF Lists
<1>4. Len(o) \in Nat /\ DOMAIN o = 1 .. Len(o) /\ \A i \in DOMAIN o : o[i] \in Fields(k)
  BY <1>1, OrderFacts DEF Enumerates
<1>5. ASSUME NEW i \in 1 .. Len(s) PROVE MemberOK(s[i])
  <2>1. /\ s[i] = [field |-> o[i], value |-> values[o[i]]]
        /\ o[i] \in Fields(k)
    BY <1>3, <1>4
  <2>2. /\ s[i].field = o[i] /\ s[i].value = values[o[i]]
        /\ s[i] = [field |-> s[i].field, value |-> s[i].value]
    BY <2>1
  <2>3. values[o[i]] = [type |-> values[o[i]].type, data |-> values[o[i]].data,
                        spelling |-> "plain"]
    BY <1>2, <2>1
  <2>4. values[o[i]].spelling = "plain"
    BY <2>3
  <2>5. o[i] \in (UNION {Fields(j) : j \in Kinds}) \cup {"extra"}
    BY <1>1, <2>1, FieldsAreFields
  <2> QED BY <2>2, <2>3, <2>4, <2>5 DEF MemberOK
<1>6. MembersOK(s)
  BY <1>3, <1>4, <1>5 DEF MembersOK
<1> QED BY <1>3, <1>6 DEF DocumentOK

-----------------------------------------------------------------------------
(* Init and steps *)

(* Members form a sequence. *)
LEMMA MembersAreSeq ==
  ASSUME NEW s, MembersOK(s)
  PROVE  \E S : s \in Seq(S) /\ \A x \in S : MemberOK(x)
<1> DEFINE S == {s[i] : i \in 1 .. Len(s)}
<1>1. s = [i \in 1 .. Len(s) |-> s[i]] /\ Len(s) \in Nat
  BY DEF MembersOK
<1>2. s \in [1 .. Len(s) -> S]
  BY <1>1
<1>3. s \in Seq(S)
  BY <1>1, <1>2
<1>4. \A x \in S : MemberOK(x)
  BY DEF MembersOK
<1> QED BY <1>3, <1>4

(* A sequence of members. *)
LEMMA SeqIsMembers ==
  ASSUME NEW S, NEW s \in Seq(S), \A x \in S : MemberOK(x)
  PROVE  MembersOK(s)
<1>1. Len(s) \in Nat /\ DOMAIN s = 1 .. Len(s) /\ \A i \in 1 .. Len(s) : s[i] \in S
  OBVIOUS
<1>2. s = [i \in 1 .. Len(s) |-> s[i]]
  BY <1>1
<1> QED BY <1>1, <1>2 DEF MembersOK

(* One member is replaced by another. *)
LEMMA ReplaceMember ==
  ASSUME NEW s, MembersOK(s), NEW i \in 1 .. Len(s), NEW m, MemberOK(m)
  PROVE  MembersOK([s EXCEPT ![i] = m]) /\ Len([s EXCEPT ![i] = m]) = Len(s)
<1>1. PICK S : s \in Seq(S) /\ \A x \in S : MemberOK(x)
  BY MembersAreSeq
<1> DEFINE T == S \cup {m}
<1>2. s \in Seq(T)
  BY <1>1
<1>3. [s EXCEPT ![i] = m] \in Seq(T) /\ Len([s EXCEPT ![i] = m]) = Len(s)
  BY <1>2
<1>4. \A x \in T : MemberOK(x)
  BY <1>1
<1> HIDE DEF T
<1> QED BY <1>3, <1>4, SeqIsMembers

(* A member is taken out. *)
LEMMA DropMember ==
  ASSUME NEW s, MembersOK(s), NEW i \in 1 .. Len(s)
  PROVE  MembersOK(SubSeq(s, 1, i - 1) \o SubSeq(s, i + 1, Len(s)))
<1>1. PICK S : s \in Seq(S) /\ \A x \in S : MemberOK(x)
  BY MembersAreSeq
<1>2. SubSeq(s, 1, i - 1) \in Seq(S) /\ SubSeq(s, i + 1, Len(s)) \in Seq(S)
  BY <1>1
<1>3. SubSeq(s, 1, i - 1) \o SubSeq(s, i + 1, Len(s)) \in Seq(S)
  BY <1>2
<1> QED BY <1>1, <1>3, SeqIsMembers

(* A member is added at the end. *)
LEMMA AppendMember ==
  ASSUME NEW s, MembersOK(s), NEW m, MemberOK(m)
  PROVE  MembersOK(Append(s, m))
<1>1. PICK S : s \in Seq(S) /\ \A x \in S : MemberOK(x)
  BY MembersAreSeq
<1> DEFINE T == S \cup {m}
<1>2. s \in Seq(T) /\ m \in T
  BY <1>1
<1>3. Append(s, m) \in Seq(T)
  BY <1>2
<1>4. \A x \in T : MemberOK(x)
  BY <1>1
<1> HIDE DEF T
<1> QED BY <1>3, <1>4, SeqIsMembers

(* Whatever the transport makes of a document counts as damage. *)
LEMMA DamageInv ==
  ASSUME Inv, NEW d, DocumentOK(d), damages < MaxDamages, damages' = damages + 1,
         document' = d, UNCHANGED message
  PROVE  Inv'
<1>1. damages' \in 0 .. MaxDamages /\ damages' # 0
  BY MaxDamagesAssumption DEF Inv
<1>2. DocumentOK(document)'
  BY DEF DocumentOK, MembersOK, MemberOK
<1> QED BY <1>1, <1>2 DEF Inv

(* A document whose members are replaced is a document. *)
LEMMA NewMembers ==
  ASSUME NEW d, DocumentOK(d), NEW s, MembersOK(s)
  PROVE  DocumentOK([d EXCEPT !.members = s])
<1>1. d = [object |-> d.object, spaced |-> d.spaced, members |-> d.members]
  BY DEF DocumentOK
<1> SUFFICES ASSUME NEW e, e = [d EXCEPT !.members = s] PROVE DocumentOK(e)
  OBVIOUS
<1>2. e = [object |-> d.object, spaced |-> d.spaced, members |-> s]
  BY <1>1
<1>3. e = [object |-> e.object, spaced |-> e.spaced, members |-> e.members] /\ e.members = s
  BY <1>2
<1> QED BY <1>3 DEF DocumentOK

(* A member's value is changed or respelled. *)
LEMMA ChangeInv ==
  ASSUME Inv, NEW i \in DOMAIN document.members, Change(i)
  PROVE  Inv'
<1> SUFFICES ASSUME NEW d, d = document, NEW s, s = d.members, NEW m, m = s[i],
                    NEW v, v = m.value
             PROVE  Inv'
  OBVIOUS
<1>1. DocumentOK(d) /\ MembersOK(s)
  BY DEF Inv, DocumentOK
<1>2. Len(s) \in Nat /\ i \in 1 .. Len(s) /\ MemberOK(m) /\ DOMAIN s = 1 .. Len(s)
  BY <1>1 DEF MembersOK
<1>3. PICK w : /\ \/ \E x : w = [v EXCEPT !.data = x]
                  \/ w = [v EXCEPT !.type = "other"]
                  \/ w = [v EXCEPT !.spelling = "other"]
               /\ Damage([document EXCEPT !.members[i].value = w])
  BY DEF Change
<1>4. w = [type |-> w.type, data |-> w.data, spelling |-> w.spelling]
  <2>1. v = [type |-> v.type, data |-> v.data, spelling |-> v.spelling]
    BY <1>2 DEF MemberOK
  <2>2. CASE \E x : w = [v EXCEPT !.data = x]
    BY <2>1, <2>2
  <2>3. CASE w = [v EXCEPT !.type = "other"]
    BY <2>1, <2>3
  <2>4. CASE w = [v EXCEPT !.spelling = "other"]
    BY <2>1, <2>4
  <2> QED BY <1>3, <2>2, <2>3, <2>4
<1> SUFFICES ASSUME NEW n, n = [m EXCEPT !.value = w] PROVE Inv'
  OBVIOUS
<1>5. MemberOK(n)
  <2>1. m = [field |-> m.field, value |-> m.value]
        /\ m.field \in (UNION {Fields(k) : k \in Kinds}) \cup {"extra"}
    BY <1>2 DEF MemberOK
  <2>2. n = [field |-> n.field, value |-> n.value] /\ n.field = m.field /\ n.value = w
    BY <2>1
  <2> QED BY <1>4, <2>1, <2>2 DEF MemberOK
<1>6. [d EXCEPT !.members[i].value = w] = [d EXCEPT !.members = [s EXCEPT ![i] = n]]
  OBVIOUS
<1>7. DocumentOK([d EXCEPT !.members = [s EXCEPT ![i] = n]])
  BY <1>1, <1>2, <1>5, ReplaceMember, NewMembers
<1> QED BY <1>3, <1>6, <1>7, DamageInv DEF Damage

(* Two members change places. *)
LEMMA SwapInv ==
  ASSUME Inv, NEW i \in DOMAIN document.members, NEW j \in DOMAIN document.members, Swap(i, j)
  PROVE  Inv'
<1> SUFFICES ASSUME NEW d, d = document, NEW s, s = d.members, NEW m, m = s[i], NEW n, n = s[j]
             PROVE  Inv'
  OBVIOUS
<1>1. DocumentOK(d) /\ MembersOK(s)
  BY DEF Inv, DocumentOK
<1>2. /\ Len(s) \in Nat /\ i \in 1 .. Len(s) /\ j \in 1 .. Len(s)
      /\ MemberOK(m) /\ MemberOK(n)
  BY <1>1 DEF MembersOK
<1> SUFFICES ASSUME NEW t, t = [s EXCEPT ![i] = n], NEW u, u = [t EXCEPT ![j] = m] PROVE Inv'
  OBVIOUS
<1>3. MembersOK(t) /\ Len(t) = Len(s)
  BY <1>1, <1>2, ReplaceMember
<1>4. MembersOK(u)
  BY <1>2, <1>3, ReplaceMember
<1>5. DocumentOK([d EXCEPT !.members = u])
  BY <1>1, <1>4, NewMembers
<1>6. [d EXCEPT !.members[i] = d.members[j], !.members[j] = d.members[i]]
        = [d EXCEPT !.members = u]
  <2>1. d = [object |-> d.object, spaced |-> d.spaced, members |-> s]
    BY <1>1 DEF DocumentOK
  <2> QED BY <2>1
<1> QED BY <1>5, <1>6, DamageInv DEF Swap, Damage

(* A member is lost. *)
LEMMA DropInv ==
  ASSUME Inv, NEW i \in DOMAIN document.members, Drop(i)
  PROVE  Inv'
<1> SUFFICES ASSUME NEW d, d = document, NEW s, s = d.members PROVE Inv'
  OBVIOUS
<1>1. DocumentOK(d) /\ MembersOK(s)
  BY DEF Inv, DocumentOK
<1>2. i \in 1 .. Len(s)
  BY <1>1 DEF MembersOK
<1> SUFFICES ASSUME NEW t, t = SubSeq(s, 1, i - 1) \o SubSeq(s, i + 1, Len(s)) PROVE Inv'
  OBVIOUS
<1>3. MembersOK(t)
  BY <1>1, <1>2, DropMember
<1>4. DocumentOK([d EXCEPT !.members = t])
  BY <1>1, <1>3, NewMembers
<1>5. [d EXCEPT !.members = SubSeq(@, 1, i - 1) \o SubSeq(@, i + 1, Len(@))]
        = [d EXCEPT !.members = t]
  OBVIOUS
<1> QED BY <1>4, <1>5, DamageInv DEF Drop, Damage

(* A member is repeated, perhaps under another name. *)
LEMMA RepeatInv ==
  ASSUME Inv, NEW i \in DOMAIN document.members, Repeat(i)
  PROVE  Inv'
<1> SUFFICES ASSUME NEW d, d = document, NEW s, s = d.members, NEW m, m = s[i] PROVE Inv'
  OBVIOUS
<1>1. DocumentOK(d) /\ MembersOK(s)
  BY DEF Inv, DocumentOK
<1>2. MemberOK(m)
  BY <1>1 DEF MembersOK
<1>3. PICK f \in {m.field, "extra"} :
        Damage([document EXCEPT !.members = Append(@, [document.members[i] EXCEPT !.field = f])])
  BY DEF Repeat
<1> SUFFICES ASSUME NEW n, n = [m EXCEPT !.field = f], NEW t, t = Append(s, n) PROVE Inv'
  OBVIOUS
<1>4. MemberOK(n)
  <2>1. m = [field |-> m.field, value |-> m.value]
        /\ m.field \in (UNION {Fields(k) : k \in Kinds}) \cup {"extra"}
    BY <1>2 DEF MemberOK
  <2>2. n = [field |-> n.field, value |-> n.value] /\ n.field = f /\ n.value = m.value
    BY <2>1
  <2>3. f \in (UNION {Fields(k) : k \in Kinds}) \cup {"extra"}
    BY <2>1
  <2> QED BY <1>2, <2>2, <2>3 DEF MemberOK
<1>5. DocumentOK([d EXCEPT !.members = t])
  BY <1>1, <1>4, AppendMember, NewMembers
<1>6. [d EXCEPT !.members = Append(@, [d.members[i] EXCEPT !.field = f])]
        = [d EXCEPT !.members = t]
  OBVIOUS
<1> QED BY <1>3, <1>5, <1>6, DamageInv DEF Damage

(* The text gets a space, or becomes something that is not an object. *)
LEMMA TextInv ==
  ASSUME Inv, \/ Damage([document EXCEPT !.spaced = TRUE])
              \/ Damage([document EXCEPT !.object = FALSE])
  PROVE  Inv'
<1> SUFFICES ASSUME NEW d, d = document PROVE Inv'
  OBVIOUS
<1>1. d = [object |-> d.object, spaced |-> d.spaced, members |-> d.members]
      /\ MembersOK(d.members)
  BY DEF Inv, DocumentOK
<1>2. ASSUME NEW e, e = [d EXCEPT !.spaced = TRUE] \/ e = [d EXCEPT !.object = FALSE]
      PROVE  DocumentOK(e)
  <2>1. e = [object |-> e.object, spaced |-> e.spaced, members |-> e.members]
        /\ e.members = d.members
    BY <1>1, <1>2
  <2> QED BY <1>1, <2>1 DEF DocumentOK
<1> QED BY <1>2, DamageInv DEF Damage

(* The invariant holds in every reachable state. *)
THEOREM Invariance == Spec => []Inv
<1>1. ASSUME Init PROVE Inv
  <2>1. DocumentOK(document)
    BY <1>1, EncodedIsDocument DEF Init
  <2> QED BY <1>1, <2>1, MaxDamagesAssumption DEF Init, Inv
<1>2. ASSUME Inv, [Next]_vars PROVE Inv'
  <2>1. CASE UNCHANGED vars
    BY <1>2, <2>1 DEF vars, Inv, DocumentOK, MembersOK, MemberOK
  <2>2. ASSUME NEW i \in DOMAIN document.members, Change(i) PROVE Inv'
    BY <1>2, <2>2, ChangeInv
  <2>3. ASSUME NEW i \in DOMAIN document.members, Drop(i) PROVE Inv'
    BY <1>2, <2>3, DropInv
  <2>4. ASSUME NEW i \in DOMAIN document.members, Repeat(i) PROVE Inv'
    BY <1>2, <2>4, RepeatInv
  <2>5. ASSUME NEW i \in DOMAIN document.members, NEW j \in DOMAIN document.members, Swap(i, j)
        PROVE  Inv'
    BY <1>2, <2>5, SwapInv
  <2>6. CASE \/ Damage([document EXCEPT !.spaced = TRUE])
             \/ Damage([document EXCEPT !.object = FALSE])
    BY <1>2, <2>6, TextInv
  <2> QED BY <1>2, <2>1, <2>2, <2>3, <2>4, <2>5, <2>6 DEF Next
<1> QED BY <1>1, <1>2, PTL DEF Spec

-----------------------------------------------------------------------------
(* The properties *)

(* A decoded value is a type and data, however it was spelled. *)
LEMMA DecodedValue ==
  ASSUME NEW d, DocumentOK(d), NEW f \in Received(d)
  PROVE  LET v == Decode(d)[f] IN v = [type |-> v.type, data |-> v.data, spelling |-> "plain"]
<1> DEFINE m == CHOOSE x \in Range(d.members) : x.field = f
<1>1. MembersOK(d.members)
  BY DEF DocumentOK
<1>2. DOMAIN d.members = 1 .. Len(d.members)
  BY <1>1 DEF MembersOK
<1>3. \E x \in Range(d.members) : x.field = f
  BY DEF Received, Range
<1>4. m \in Range(d.members)
  BY <1>3
<1>5. Decode(d)[f] = [m.value EXCEPT !.spelling = "plain"]
  BY DEF Decode
<1> HIDE DEF m
<1>6. MemberOK(m)
  BY <1>1, <1>2, <1>4 DEF Range, MembersOK
<1>7. m.value = [type |-> m.value.type, data |-> m.value.data, spelling |-> m.value.spelling]
  BY <1>6 DEF MemberOK
<1> SUFFICES ASSUME NEW v, v = [m.value EXCEPT !.spelling = "plain"]
             PROVE  v = [type |-> v.type, data |-> v.data, spelling |-> "plain"]
  BY <1>5
<1> QED BY <1>7

(* What an accepted document is, whatever its kind. *)
LEMMA AcceptedFacts ==
  ASSUME NEW k \in Kinds, NEW d, Accepts(k, d)
  PROVE  /\ Fits(k, d) /\ NoDuplicates(d) /\ Received(d) = Fields(k) /\ Canonical(k, d)
         /\ k # "envelope" => Decode(d)["kind"].type = "str" /\ Decode(d)["kind"].data = k
<1>1. CASE k = "offer"
  BY <1>1 DEF Accepts, OfferAccepted, Parses
<1>2. CASE k = "response"
  BY <1>2 DEF Accepts, ResponseAccepted, Parses
<1>3. CASE k = "confirmation"
  BY <1>3 DEF Accepts, ConfirmationAccepted, Parses
<1>4. CASE k = "envelope"
  BY <1>4 DEF Accepts, EnvelopeAccepted, Fields
<1> QED BY <1>1, <1>2, <1>3, <1>4 DEF Kinds

(* Every variable has its type. *)
THEOREM TypeCorrect == Spec => []TypeOK
<1>1. ASSUME Inv PROVE TypeOK
  <2>1. MembersOK(document.members)
    BY <1>1 DEF Inv, DocumentOK
  <2>2. \A i \in DOMAIN document.members : MemberOK(document.members[i])
    BY <2>1 DEF MembersOK
  <2> QED BY <1>1, <2>2 DEF Inv, TypeOK, MemberOK
<1> QED BY <1>1, Invariance, PTL

\* The Python type of a field of a message.
TypeOf(f) == IF f \in {"v", "sequence"} THEN "int" ELSE "str"

\* The tests a message of a kind passes.
ValidFor(k, m) ==
  /\ k # "envelope" => m["kind"].type = "str" /\ m["kind"].data = k
  /\ k = "offer" => ValidOffer(m)
  /\ k = "response" => ValidResponse(m)
  /\ k = "confirmation" => ValidConfirmation(m)
  /\ k = "envelope" => ValidEnvelope(m)

(* What a constructor accepts has the type of every field fixed. *)
LEMMA TypesAccepted ==
  ASSUME NEW k \in Kinds, NEW m, ValidFor(k, m)
  PROVE  \A f \in Fields(k) : m[f].type = TypeOf(f)
<1> USE DEF Fields, CommonFields, TypeOf, ValidFor, ValidVersion, ValidSuite, ValidParticipants,
            ValidName, ValidHex
<1>1. CASE k = "offer"
  BY <1>1 DEF OfferFields, ValidOffer, ValidOfferFields
<1>2. CASE k = "response"
  BY <1>2 DEF OfferFields, ResponseFields, ValidResponse, ValidOfferFields
<1>3. CASE k = "confirmation"
  BY <1>3 DEF ConfirmationFields, ValidConfirmation
<1>4. CASE k = "envelope"
  BY <1>4 DEF EnvelopeFields, ValidEnvelope, ValidProtocolVersion, ValidSuiteName,
              ValidParticipantName, ValidCiphertext
<1> QED BY <1>1, <1>2, <1>3, <1>4 DEF Kinds

(* Every field that is written is authenticated, or is the kind. *)
LEMMA NothingUnsigned ==
  ASSUME NEW k \in Kinds, NEW f \in Fields(k)
  PROVE  \/ f \in Authenticated(k) \cup {Authenticator(k)}
         \/ k # "envelope" /\ f = "kind"
<1> USE DEF Fields, CommonFields, Authenticated, Authenticator
<1>1. CASE k = "offer"
  BY <1>1 DEF OfferFields, OfferSigned
<1>2. CASE k = "response"
  BY <1>2 DEF OfferFields, ResponseFields, OfferSigned, ResponseSigned
<1>3. CASE k = "confirmation"
  BY <1>3 DEF ConfirmationFields, ConfirmationSigned
<1>4. CASE k = "envelope"
  BY <1>4 DEF EnvelopeFields, AssociatedFields
<1> QED BY <1>1, <1>2, <1>3, <1>4 DEF Kinds

(* What from_bytes returns has passed the constructor's tests. *)
LEMMA AcceptedIsValid ==
  ASSUME NEW k \in Kinds, NEW d, Accepts(k, d)
  PROVE  ValidFor(k, Decode(d))
<1> USE DEF Accepts, ValidFor
<1>1. CASE k = "offer"
  BY <1>1 DEF OfferAccepted, Parses
<1>2. CASE k = "response"
  BY <1>2 DEF ResponseAccepted, Parses
<1>3. CASE k = "confirmation"
  BY <1>3 DEF ConfirmationAccepted, Parses
<1>4. CASE k = "envelope"
  BY <1>4 DEF EnvelopeAccepted
<1> QED BY <1>1, <1>2, <1>3, <1>4 DEF Kinds

(* No document but the one that was sent authenticates as the message: a   *)
(* changed one differs in a field that is signed, has a type or a kind     *)
(* that from_bytes refuses, or is not the encoding of what it decodes to.  *)
THEOREM OneAuthenticText == Spec => []AuthenticIsSent
<1>1. ASSUME Inv PROVE AuthenticIsSent
  <2> SUFFICES ASSUME Authentic(document), NEW d, d = document, NEW k, k = message.kind,
                      NEW values, values = message.values
               PROVE  d = Encode(k, values)
    BY DEF AuthenticIsSent
  <2>1. /\ k \in Kinds /\ ValidFor(k, values)
        /\ values = [f \in Fields(k) |-> values[f]]
        /\ \A f \in Fields(k) : values[f] = [type |-> values[f].type, data |-> values[f].data,
                                            spelling |-> "plain"]
    BY <1>1, MessagesAssumption DEF Inv, ValidFor
  <2>2. /\ DocumentOK(d) /\ Accepts(k, d)
        /\ \A f \in Authenticated(k) \cup {Authenticator(k)} : Decode(d)[f].data = values[f].data
    BY <1>1 DEF Inv, Authentic
  <2>3. Received(d) = Fields(k) /\ Canonical(k, d) /\ ValidFor(k, Decode(d))
    BY <2>1, <2>2, AcceptedFacts, AcceptedIsValid
  <2>4. ASSUME NEW f \in Fields(k) PROVE Decode(d)[f] = values[f]
    <3>1. Decode(d)[f].type = values[f].type
      BY <2>1, <2>3, TypesAccepted
    <3>2. Decode(d)[f].data = values[f].data
      <4>1. CASE f \in Authenticated(k) \cup {Authenticator(k)}
        BY <2>2, <4>1
      <4>2. CASE k # "envelope" /\ f = "kind"
        BY <2>1, <2>3, <4>2 DEF ValidFor
      <4> QED BY <2>1, <4>1, <4>2, NothingUnsigned
    <3>3. Decode(d)[f] = [type |-> Decode(d)[f].type, data |-> Decode(d)[f].data,
                          spelling |-> "plain"]
      BY <2>2, <2>3, DecodedValue
    <3> QED BY <2>1, <3>1, <3>2, <3>3
  <2>5. Decode(d) = [f \in Fields(k) |-> Decode(d)[f]]
    BY <2>3 DEF Decode
  <2>6. Decode(d) = values
    BY <2>1, <2>4, <2>5
  <2> QED BY <2>3, <2>6 DEF Canonical
<1> QED BY <1>1, Invariance, PTL

(* Decoding gives back what was encoded. *)
LEMMA DecodeEncode ==
  ASSUME NEW m \in Messages, NEW d, d = Encode(m.kind, m.values)
  PROVE  /\ d.object = TRUE /\ NoDuplicates(d) /\ Received(d) = Fields(m.kind)
         /\ Decode(d) = m.values
<1> SUFFICES ASSUME NEW k, k = m.kind, NEW values, values = m.values, NEW o, o = FieldOrder(k)
             PROVE  /\ d.object = TRUE /\ NoDuplicates(d) /\ Received(d) = Fields(k)
                    /\ Decode(d) = values
  OBVIOUS
<1>1. /\ k \in Kinds
      /\ values = [f \in Fields(k) |-> values[f]]
      /\ \A f \in Fields(k) :
           values[f] = [type |-> values[f].type, data |-> values[f].data, spelling |-> "plain"]
  BY MessagesAssumption
<1>2. Lists(d, o, values)
  BY <1>1, EncodeLists
<1>3. Enumerates(o, Fields(k))
  BY <1>1, OrderFacts
<1>4. /\ d.object = TRUE
      /\ DOMAIN d.members = DOMAIN o
      /\ \A i \in DOMAIN o : d.members[i].field = o[i] /\ d.members[i].value = values[o[i]]
  <2>1. /\ d = [object |-> TRUE, spaced |-> FALSE, members |-> d.members]
        /\ DOMAIN d.members = DOMAIN o
        /\ \A i \in DOMAIN o : d.members[i] = [field |-> o[i], value |-> values[o[i]]]
    BY <1>2 DEF Lists
  <2>2. d.object = TRUE
    BY <2>1
  <2>3. ASSUME NEW i \in DOMAIN o
        PROVE  d.members[i].field = o[i] /\ d.members[i].value = values[o[i]]
    <3> SUFFICES ASSUME NEW x, x = d.members[i], NEW f, f = o[i], NEW v, v = values[f]
                 PROVE  x.field = f /\ x.value = v
      OBVIOUS
    <3>1. x = [field |-> f, value |-> v]
      BY <2>1
    <3> QED BY <3>1
  <2> QED BY <2>1, <2>2, <2>3
<1>5. /\ \A i \in DOMAIN o : o[i] \in Fields(k)
      /\ \A f \in Fields(k) : \E i \in DOMAIN o : o[i] = f
      /\ \A i, j \in DOMAIN o : o[i] = o[j] => i = j
  BY <1>3 DEF Enumerates
<1>6. NoDuplicates(d)
  BY <1>4, <1>5 DEF NoDuplicates
<1>7. Received(d) = Fields(k)
  BY <1>4, <1>5 DEF Received
<1>8. ASSUME NEW f \in Fields(k) PROVE Decode(d)[f] = values[f]
  <2> DEFINE x == CHOOSE y \in Range(d.members) : y.field = f
  <2>1. \E y \in Range(d.members) : y.field = f
    BY <1>4, <1>5 DEF Range
  <2>2. x \in Range(d.members) /\ x.field = f
    BY <2>1
  <2>3. Decode(d)[f] = [x.value EXCEPT !.spelling = "plain"]
    BY <1>7 DEF Decode
  <2> HIDE DEF x
  <2>4. PICK i \in DOMAIN o : x = d.members[i]
    BY <1>4, <2>2 DEF Range
  <2>5. x.value = values[f]
    BY <1>4, <2>2, <2>4
  <2>6. values[f] = [type |-> values[f].type, data |-> values[f].data, spelling |-> "plain"]
    BY <1>1
  <2> SUFFICES ASSUME NEW v, v = values[f] PROVE [v EXCEPT !.spelling = "plain"] = v
    BY <2>3, <2>5
  <2> QED BY <2>6
<1>9. Decode(d) = [f \in Fields(k) |-> Decode(d)[f]]
  BY <1>7 DEF Decode
<1>10. Decode(d) = values
  BY <1>1, <1>8, <1>9
<1> QED BY <1>4, <1>6, <1>7, <1>10

-----------------------------------------------------------------------------
(* Sizes *)

(* A set of natural numbers that is not empty has a least element. *)
LEMMA LeastNumber ==
  ASSUME NEW T, T \subseteq Nat, T # {}
  PROVE  \E n \in T : \A m \in T : n <= m
<1>1. PICK n \in T : \A m \in T : ~(<<m, n>> \in OpToRel(<, Nat))
  BY WFMin, NatLessThanWellFounded, Zenon
<1>2. ASSUME NEW m \in T PROVE ~(m < n)
  <2>1. <<m, n>> \in Nat \X Nat
    OBVIOUS
  <2>2. <<m, n>>[1] = m /\ <<m, n>>[2] = n
    OBVIOUS
  <2> QED BY <1>1, <2>1, <2>2, Zenon DEF OpToRel
<1> QED BY <1>2

\* u lists the sums of b from 1 on.
Sums(u, N, b) == u = [n \in 0 .. N |-> IF n = 0 THEN 1 ELSE u[n - 1] + b[n]]

(* However long a list of numbers is, it has sums: the least length        *)
(* without would be one more than a length with.                           *)
LEMMA SumsExist ==
  ASSUME NEW N \in Nat, NEW b
  PROVE  \E u : Sums(u, N, b)
<1> DEFINE T == {k \in Nat : ~\E u : Sums(u, k, b)}
<1> SUFFICES ASSUME T # {} PROVE FALSE
  OBVIOUS
<1>1. PICK k \in T : \A m \in T : k <= m
  BY LeastNumber
<1>2. k # 0
  <2>1. ASSUME NEW u, u = [n \in 0 .. 0 |-> 1] PROVE Sums(u, 0, b)
    BY <2>1 DEF Sums
  <2> QED BY <2>1, <1>1
<1>3. k - 1 \in Nat /\ k - 1 \notin T
  BY <1>1, <1>2
<1>4. PICK u : Sums(u, k - 1, b)
  BY <1>3
<1>5. ASSUME NEW v, v = [n \in 0 .. k |-> IF n = k THEN u[k - 1] + b[k] ELSE u[n]]
      PROVE  Sums(v, k, b)
  <2>1. \A n \in 0 .. k - 1 : v[n] = u[n]
    BY <1>5, <1>3
  <2>2. \A n \in 0 .. k - 1 : u[n] = IF n = 0 THEN 1 ELSE u[n - 1] + b[n]
    BY <1>4 DEF Sums
  <2>3. ASSUME NEW n \in 0 .. k PROVE v[n] = IF n = 0 THEN 1 ELSE v[n - 1] + b[n]
    <3>1. CASE n = k
      BY <3>1, <1>2, <1>3, <1>5, <2>1
    <3>2. CASE n # k
      <4>1. n \in 0 .. k - 1
        BY <3>2, <1>3
      <4>2. n # 0 => n - 1 \in 0 .. k - 1
        BY <4>1, <1>3
      <4> QED BY <2>1, <2>2, <4>1, <4>2
    <3> QED BY <3>1, <3>2
  <2> QED BY <1>5, <2>3 DEF Sums
<1> QED BY <1>1, <1>5

(* The bytes of a document are the last of these sums. *)
LEMMA BytesFacts ==
  ASSUME NEW kind, NEW d, Len(d.members) \in Nat
  PROVE  \E u : /\ Sums(u, Len(d.members), [i \in 1 .. Len(d.members) |-> MemberBytes(kind, d.members[i])])
                /\ Bytes(kind, d) = u[Len(d.members)]
<1> DEFINE N == Len(d.members)
           b == [i \in 1 .. N |-> MemberBytes(kind, d.members[i])]
           E(u) == u = [n \in 0 .. N |-> IF n = 0 THEN 1 ELSE u[n - 1] + MemberBytes(kind, d.members[n])]
           w == CHOOSE u : E(u)
<1>1. \A u : E(u) <=> Sums(u, N, b)
  <2> TAKE u
  <2>1. \A n \in 0 .. N : n # 0 => b[n] = MemberBytes(kind, d.members[n])
    OBVIOUS
  <2> HIDE DEF b
  <2> QED BY <2>1 DEF Sums
<1>2. \E u : E(u)
  BY <1>1, SumsExist
<1>3. E(w)
  BY <1>2
<1>4. Bytes(kind, d) = w[N]
  BY DEF Bytes
<1> HIDE DEF w
<1> QED BY <1>1, <1>3, <1>4

\* Bytes that are enough for a member, and for the bytes it holds in hex.
HexBytes(f) ==
  CASE f = "signature" -> 64
    [] f = "ciphertext" -> MAX_CIPHERTEXT_BYTES
    [] OTHER -> 32
Room(kind, f) ==
  36 + CASE Class(f) = "int" -> 20
         [] Class(f) = "kind" -> 30
         [] Class(f) = "suite" -> MAX_SUITE_NAME_BYTES
         [] Class(f) = "name" -> (IF kind = "envelope" THEN 3 ELSE 2) * MAX_PARTICIPANT_NAME_BYTES
         [] Class(f) = "hex" -> 2 * HexBytes(f)

(* The limit on ciphertexts is a number. *)
LEMMA CiphertextBound == MAX_CIPHERTEXT_BYTES \in Nat
BY SMT DEF MAX_CIPHERTEXT_BYTES, AEAD_TAG_BYTES

(* A key, a confirmation, a signature or a ciphertext that the constructor *)
(* accepts has so many digits at most.                                     *)
LEMMA HexSize ==
  ASSUME NEW m \in Messages, NEW f \in Fields(m.kind), Class(f) = "hex"
  PROVE  m.values[f].data.digits <= 2 * HexBytes(f)
<1> SUFFICES ASSUME NEW k, k = m.kind, NEW v, v = m.values
             PROVE  v[f].data.digits <= 2 * HexBytes(f)
  OBVIOUS
<1>0. v[f].data.digits \in Nat
  BY EscapesAssumption
<1>1. CASE k = "offer"
  <2>1. ValidOffer(v)
    BY <1>1, MessagesAssumption
  <2>2. f \in {"initiator_ephemeral_public_key", "initiator_signing_public_key", "signature"}
    BY <1>1 DEF Class, Fields, OfferFields, CommonFields
  <2> QED BY <2>1, <2>2 DEF ValidOffer, ValidOfferFields, ValidHex, HexBytes
<1>2. CASE k = "response"
  <2>1. ValidResponse(v)
    BY <1>2, MessagesAssumption
  <2>2. f \in {"initiator_ephemeral_public_key", "initiator_signing_public_key", "signature",
               "responder_ephemeral_public_key", "responder_signing_public_key",
               "responder_key_confirmation"}
    BY <1>2 DEF Class, Fields, ResponseFields, OfferFields, CommonFields
  <2> QED BY <2>1, <2>2 DEF ValidResponse, ValidOfferFields, ValidHex, HexBytes
<1>3. CASE k = "confirmation"
  <2>1. ValidConfirmation(v)
    BY <1>3, MessagesAssumption
  <2>2. f \in {"initiator_ephemeral_public_key", "responder_ephemeral_public_key", "signature",
               "initiator_key_confirmation"}
    BY <1>3 DEF Class, Fields, ConfirmationFields, CommonFields
  <2> QED BY <2>1, <2>2 DEF ValidConfirmation, ValidHex, HexBytes
<1>4. CASE k = "envelope"
  <2>1. ValidEnvelope(v)
    BY <1>4, MessagesAssumption
  <2>2. f = "ciphertext"
    BY <1>4 DEF Class, Fields, EnvelopeFields
  <2>3. v[f].data.digits % 2 = 0 /\ v[f].data.digits \div 2 <= MAX_CIPHERTEXT_BYTES
    BY <2>1, <2>2 DEF ValidEnvelope, ValidCiphertext
  <2> QED BY <1>0, <2>2, <2>3, CiphertextBound DEF HexBytes
<1> QED BY <1>1, <1>2, <1>3, <1>4, MessagesAssumption DEF Kinds

(* The constructor has tested every name. *)
LEMMA NameSize ==
  ASSUME NEW m \in Messages, NEW f \in Fields(m.kind), Class(f) = "name"
  PROVE  ValidName(m.values[f])
<1> SUFFICES ASSUME NEW k, k = m.kind, NEW v, v = m.values PROVE ValidName(v[f])
  OBVIOUS
<1>1. CASE k = "offer" \/ k = "response" \/ k = "confirmation"
  <2>1. ValidParticipants(v)
    BY <1>1, MessagesAssumption DEF ValidOffer, ValidOfferFields, ValidResponse, ValidConfirmation
  <2>2. f \in {"initiator", "responder"}
    BY <1>1 DEF Class, Fields, OfferFields, ResponseFields, ConfirmationFields, CommonFields
  <2> QED BY <2>1, <2>2 DEF ValidParticipants
<1>2. CASE k = "envelope"
  <2>1. ValidEnvelope(v)
    BY <1>2, MessagesAssumption
  <2>2. f \in {"sender", "recipient"}
    BY <1>2 DEF Class, Fields, EnvelopeFields
  <2> QED BY <2>1, <2>2 DEF ValidEnvelope, ValidParticipantName
<1> QED BY <1>1, <1>2, MessagesAssumption DEF Kinds

(* A member of a message that the constructor accepts takes no more bytes  *)
(* than there is room for.                                                 *)
LEMMA MemberSize ==
  ASSUME NEW m \in Messages, NEW f \in Fields(m.kind), NEW x, x.field = f, x.value = m.values[f]
  PROVE  MemberBytes(m.kind, x) \in Nat /\ MemberBytes(m.kind, x) <= Room(m.kind, f)
<1> SUFFICES ASSUME NEW k, k = m.kind, NEW data, data = m.values[f].data
             PROVE  MemberBytes(k, x) \in Nat /\ MemberBytes(k, x) <= Room(k, f)
  OBVIOUS
<1> DEFINE l == Len(f)
           kl == Len(k)
           b == MemberBytes(k, x)
           w == ValueBytes(k, f, x.value)
           r == Room(k, f)
<1> SUFFICES b \in Nat /\ b <= r
  OBVIOUS
<1>1. k \in Kinds
  BY MessagesAssumption
<1>2. l \in 1 .. 30 /\ kl \in 1 .. 30
  BY <1>1, LengthsAssumption
<1>3. b = l + 4 + w /\ x.value.data = data
  BY DEF MemberBytes
<1>4. /\ Class(f) = "name" => data.utf8 \in 0 .. 2 * data.bytes /\ data.ascii \in 0 .. 3 * data.bytes
      /\ Class(f) = "int" => data.digits \in 1 .. 20
      /\ Class(f) = "suite" => data.bytes \in 1 .. MAX_SUITE_NAME_BYTES
      /\ Class(f) = "hex" => data.digits \in Nat
  BY EscapesAssumption
<1> HIDE DEF l, kl, b
<1>5. CASE Class(f) = "int"
  <2>1. w = data.digits
    BY <1>3, <1>5 DEF ValueBytes
  <2>2. r = 56
    BY <1>5 DEF Room
  <2> QED BY <1>2, <1>3, <1>4, <1>5, <2>1, <2>2
<1>6. CASE Class(f) = "kind"
  <2>1. f = "kind" /\ k # "envelope"
    BY <1>1, <1>6 DEF Class, Fields, EnvelopeFields
  <2>2. data = k
    BY <2>1, MessagesAssumption
  <2>3. w = 2 + Len(x.value.data)
    BY <1>6 DEF ValueBytes
  <2>4. x.value.data = k
    BY <1>3, <2>2
  <2>5. w = 2 + kl
    BY <2>3, <2>4, Zenon DEF kl
  <2>6. r = 66
    BY <1>6 DEF Room
  <2> QED BY <1>2, <1>3, <2>5, <2>6
<1>7. CASE Class(f) = "suite"
  <2>1. w = 2 + data.bytes
    BY <1>3, <1>7 DEF ValueBytes
  <2>2. r = 100 /\ MAX_SUITE_NAME_BYTES = 64
    BY <1>7 DEF Room, MAX_SUITE_NAME_BYTES
  <2> QED BY <1>2, <1>3, <1>4, <1>7, <2>1, <2>2
<1>8. CASE Class(f) = "name"
  <2>1. PICK n : n = data.bytes
    OBVIOUS
  <2>2. n \in 1 .. 255
    BY <1>8, <2>1, NameSize DEF ValidName, MAX_PARTICIPANT_NAME_BYTES
  <2>3. data.utf8 \in 0 .. 2 * n /\ data.ascii \in 0 .. 3 * n
    BY <1>4, <1>8, <2>1
  <2>4. PICK e : e = IF k = "envelope" THEN data.ascii ELSE data.utf8
    OBVIOUS
  <2>5. w = 2 + e
    BY <1>3, <1>8, <2>4 DEF ValueBytes
  <2>6. CASE k = "envelope"
    <3>1. r = 801
      BY <1>8, <2>6 DEF Room, MAX_PARTICIPANT_NAME_BYTES
    <3>2. e \in 0 .. 3 * n
      BY <2>3, <2>4, <2>6
    <3>3. e \in 0 .. 765
      BY <2>2, <3>2
    <3> QED BY <1>2, <1>3, <2>5, <3>1, <3>3
  <2>7. CASE k # "envelope"
    <3>1. r = 546
      BY <1>8, <2>7 DEF Room, MAX_PARTICIPANT_NAME_BYTES
    <3>2. e \in 0 .. 2 * n
      BY <2>3, <2>4, <2>7
    <3>3. e \in 0 .. 510
      BY <2>2, <3>2
    <3> QED BY <1>2, <1>3, <2>5, <3>1, <3>3
  <2> QED BY <2>6, <2>7
<1>9. CASE Class(f) = "hex"
  <2>1. data.digits <= 2 * HexBytes(f)
    BY <1>9, HexSize
  <2>2. HexBytes(f) \in Nat
    BY CiphertextBound DEF HexBytes
  <2>3. w = 2 + data.digits
    BY <1>3, <1>9 DEF ValueBytes
  <2>4. r = 36 + 2 * HexBytes(f)
    BY <1>9 DEF Room
  <2> QED BY <1>2, <1>3, <1>4, <1>9, <2>1, <2>2, <2>3, <2>4
<1>10. Class(f) \in {"int", "kind", "suite", "name", "hex"}
  BY DEF Class
<1> QED BY <1>5, <1>6, <1>7, <1>8, <1>9, <1>10

(* The room for each field, as a number. *)
LEMMA Rooms ==
  /\ \A k \in {"offer", "response", "confirmation"} :
       /\ Room(k, "initiator") = 546 /\ Room(k, "responder") = 546
       /\ Room(k, "kind") = 66 /\ Room(k, "suite") = 100 /\ Room(k, "v") = 56
       /\ Room(k, "signature") = 164
       /\ \A f \in {"initiator_ephemeral_public_key", "initiator_signing_public_key",
                    "initiator_key_confirmation", "responder_ephemeral_public_key",
                    "responder_signing_public_key", "responder_key_confirmation"} :
            Room(k, f) = 100
  /\ Room("envelope", "sender") = 801 /\ Room("envelope", "recipient") = 801
  /\ Room("envelope", "sequence") = 56 /\ Room("envelope", "v") = 56
  /\ Room("envelope", "suite") = 100
  /\ Room("envelope", "ciphertext") = 36 + 2 * MAX_CIPHERTEXT_BYTES
<1>1. /\ \A f \in {"initiator", "responder", "sender", "recipient"} : Class(f) = "name"
      /\ Class("v") = "int" /\ Class("sequence") = "int"
      /\ Class("kind") = "kind" /\ Class("suite") = "suite"
      /\ \A f \in {"initiator_ephemeral_public_key", "initiator_signing_public_key",
                   "initiator_key_confirmation", "responder_ephemeral_public_key",
                   "responder_signing_public_key", "responder_key_confirmation",
                   "signature", "ciphertext"} : Class(f) = "hex"
  BY DEF Class
<1>2. /\ HexBytes("signature") = 64 /\ HexBytes("ciphertext") = MAX_CIPHERTEXT_BYTES
      /\ \A f \in {"initiator_ephemeral_public_key", "initiator_signing_public_key",
                   "initiator_key_confirmation", "responder_ephemeral_public_key",
                   "responder_signing_public_key", "responder_key_confirmation"} :
           HexBytes(f) = 32
  BY DEF HexBytes
<1>3. \A k, f : /\ Class(f) = "name" => Room(k, f) = IF k = "envelope" THEN 801 ELSE 546
                /\ Class(f) = "int" => Room(k, f) = 56
                /\ Class(f) = "kind" => Room(k, f) = 66
                /\ Class(f) = "suite" => Room(k, f) = 100
                /\ Class(f) = "hex" => Room(k, f) = 36 + 2 * HexBytes(f)
  BY DEF Room, MAX_SUITE_NAME_BYTES, MAX_PARTICIPANT_NAME_BYTES
<1>4. \A k \in {"offer", "response", "confirmation"} : k # "envelope"
  OBVIOUS
<1> QED BY <1>1, <1>2, <1>3, <1>4

(* With the longest names, the most escapes and the largest ciphertext the *)
(* text of to_bytes fits the limit of its kind.                            *)
LEMMA EncodingFits ==
  ASSUME NEW m \in Messages, NEW d, d = Encode(m.kind, m.values)
  PROVE  Fits(m.kind, d)
<1> SUFFICES ASSUME NEW k, k = m.kind, NEW values, values = m.values,
                    NEW o, o = FieldOrder(k), NEW s, s = d.members
             PROVE  Fits(k, d)
  OBVIOUS
<1>1. k \in Kinds
  BY MessagesAssumption
<1>2. /\ Len(s) = Len(o) /\ DOMAIN s = DOMAIN o
      /\ \A i \in DOMAIN o : s[i] = [field |-> o[i], value |-> values[o[i]]]
  <2>1. Lists(d, o, values)
    BY <1>1, EncodeLists
  <2> QED BY <2>1 DEF Lists
<1>3. Len(o) \in Nat /\ DOMAIN o = 1 .. Len(o) /\ \A i \in DOMAIN o : o[i] \in Fields(k)
  BY <1>1, OrderFacts DEF Enumerates
<1> DEFINE N == Len(o)
           b == [i \in 1 .. N |-> MemberBytes(k, s[i])]
<1>4. ASSUME NEW i \in 1 .. N PROVE b[i] \in Nat /\ b[i] <= Room(k, o[i])
  <2>1. PICK x : x = s[i]
    OBVIOUS
  <2>2. PICK f : f = o[i]
    OBVIOUS
  <2>3. x = [field |-> f, value |-> values[f]] /\ f \in Fields(k)
    BY <1>2, <1>3, <2>1, <2>2
  <2>4. x.field = f /\ x.value = values[f]
    BY <2>3
  <2>5. MemberBytes(k, x) \in Nat /\ MemberBytes(k, x) <= Room(k, f)
    BY <2>3, <2>4, MemberSize
  <2> QED BY <2>1, <2>2, <2>5
<1>5. PICK u : Sums(u, N, b) /\ Bytes(k, d) = u[N]
  <2>1. Len(d.members) = N /\ N \in Nat
    BY <1>2, <1>3
  <2> QED BY <2>1, BytesFacts
<1>6. N \in Nat
  BY <1>3
<1> HIDE DEF b, N
<1>7. u[0] = 1 /\ \A n \in 1 .. N : u[n] = u[n - 1] + b[n]
  BY <1>6, <1>5 DEF Sums
<1>8. CASE k = "offer"
  <2>1. o = OfferKeys /\ N = 8
    BY <1>8 DEF N, FieldOrder, OfferKeys
  <2>2. /\ o[1] = "initiator"
        /\ o[2] = "initiator_ephemeral_public_key"
        /\ o[3] = "initiator_signing_public_key"
        /\ o[4] = "kind"
        /\ o[5] = "responder"
        /\ o[6] = "signature"
        /\ o[7] = "suite"
        /\ o[8] = "v"
    BY <2>1 DEF OfferKeys
  <2>3. /\ Room(k, o[1]) = 546
        /\ Room(k, o[2]) = 100
        /\ Room(k, o[3]) = 100
        /\ Room(k, o[4]) = 66
        /\ Room(k, o[5]) = 546
        /\ Room(k, o[6]) = 164
        /\ Room(k, o[7]) = 100
        /\ Room(k, o[8]) = 56
    BY <1>8, <2>2, Rooms
  <2>4. /\ b[1] \in Nat /\ b[1] <= 546
        /\ b[2] \in Nat /\ b[2] <= 100
        /\ b[3] \in Nat /\ b[3] <= 100
        /\ b[4] \in Nat /\ b[4] <= 66
        /\ b[5] \in Nat /\ b[5] <= 546
        /\ b[6] \in Nat /\ b[6] <= 164
        /\ b[7] \in Nat /\ b[7] <= 100
        /\ b[8] \in Nat /\ b[8] <= 56
    BY <1>4, <2>1, <2>3
  <2>5. /\ u[1] = u[0] + b[1]
        /\ u[2] = u[1] + b[2]
        /\ u[3] = u[2] + b[3]
        /\ u[4] = u[3] + b[4]
        /\ u[5] = u[4] + b[5]
        /\ u[6] = u[5] + b[6]
        /\ u[7] = u[6] + b[7]
        /\ u[8] = u[7] + b[8]
    BY <1>7, <2>1
  <2>6. MaxBytes(k) = 4096
    BY <1>8 DEF MaxBytes
  <2>7. u[N] <= MaxBytes(k)
    BY <1>7, <2>1, <2>4, <2>5, <2>6
  <2> QED BY <1>5, <2>7 DEF Fits
<1>9. CASE k = "response"
  <2>1. o = ResponseKeys /\ N = 11
    BY <1>9 DEF N, FieldOrder, ResponseKeys
  <2>2. /\ o[1] = "initiator"
        /\ o[2] = "initiator_ephemeral_public_key"
        /\ o[3] = "initiator_signing_public_key"
        /\ o[4] = "kind"
        /\ o[5] = "responder"
        /\ o[6] = "responder_ephemeral_public_key"
        /\ o[7] = "responder_key_confirmation"
        /\ o[8] = "responder_signing_public_key"
        /\ o[9] = "signature"
        /\ o[10] = "suite"
        /\ o[11] = "v"
    BY <2>1 DEF ResponseKeys
  <2>3. /\ Room(k, o[1]) = 546
        /\ Room(k, o[2]) = 100
        /\ Room(k, o[3]) = 100
        /\ Room(k, o[4]) = 66
        /\ Room(k, o[5]) = 546
        /\ Room(k, o[6]) = 100
        /\ Room(k, o[7]) = 100
        /\ Room(k, o[8]) = 100
        /\ Room(k, o[9]) = 164
        /\ Room(k, o[10]) = 100
        /\ Room(k, o[11]) = 56
    BY <1>9, <2>2, Rooms
  <2>4. /\ b[1] \in Nat /\ b[1] <= 546
        /\ b[2] \in Nat /\ b[2] <= 100
        /\ b[3] \in Nat /\ b[3] <= 100
        /\ b[4] \in Nat /\ b[4] <= 66
        /\ b[5] \in Nat /\ b[5] <= 546
        /\ b[6] \in Nat /\ b[6] <= 100
        /\ b[7] \in Nat /\ b[7] <= 100
        /\ b[8] \in Nat /\ b[8] <= 100
        /\ b[9] \in Nat /\ b[9] <= 164
        /\ b[10] \in Nat /\ b[10] <= 100
        /\ b[11] \in Nat /\ b[11] <= 56
    BY <1>4, <2>1, <2>3
  <2>5. /\ u[1] = u[0] + b[1]
        /\ u[2] = u[1] + b[2]
        /\ u[3] = u[2] + b[3]
        /\ u[4] = u[3] + b[4]
        /\ u[5] = u[4] + b[5]
        /\ u[6] = u[5] + b[6]
        /\ u[7] = u[6] + b[7]
        /\ u[8] = u[7] + b[8]
        /\ u[9] = u[8] + b[9]
        /\ u[10] = u[9] + b[10]
        /\ u[11] = u[10] + b[11]
    BY <1>7, <2>1
  <2>6. MaxBytes(k) = 4096
    BY <1>9 DEF MaxBytes
  <2>7. u[N] <= MaxBytes(k)
    BY <1>7, <2>1, <2>4, <2>5, <2>6
  <2> QED BY <1>5, <2>7 DEF Fits
<1>10. CASE k = "confirmation"
  <2>1. o = ConfirmationKeys /\ N = 9
    BY <1>10 DEF N, FieldOrder, ConfirmationKeys
  <2>2. /\ o[1] = "initiator"
        /\ o[2] = "initiator_ephemeral_public_key"
        /\ o[3] = "initiator_key_confirmation"
        /\ o[4] = "kind"
        /\ o[5] = "responder"
        /\ o[6] = "responder_ephemeral_public_key"
        /\ o[7] = "signature"
        /\ o[8] = "suite"
        /\ o[9] = "v"
    BY <2>1 DEF ConfirmationKeys
  <2>3. /\ Room(k, o[1]) = 546
        /\ Room(k, o[2]) = 100
        /\ Room(k, o[3]) = 100
        /\ Room(k, o[4]) = 66
        /\ Room(k, o[5]) = 546
        /\ Room(k, o[6]) = 100
        /\ Room(k, o[7]) = 164
        /\ Room(k, o[8]) = 100
        /\ Room(k, o[9]) = 56
    BY <1>10, <2>2, Rooms
  <2>4. /\ b[1] \in Nat /\ b[1] <= 546
        /\ b[2] \in Nat /\ b[2] <= 100
        /\ b[3] \in Nat /\ b[3] <= 100
        /\ b[4] \in Nat /\ b[4] <= 66
        /\ b[5] \in Nat /\ b[5] <= 546
        /\ b[6] \in Nat /\ b[6] <= 100
        /\ b[7] \in Nat /\ b[7] <= 164
        /\ b[8] \in Nat /\ b[8] <= 100
        /\ b[9] \in Nat /\ b[9] <= 56
    BY <1>4, <2>1, <2>3
  <2>5. /\ u[1] = u[0] + b[1]
        /\ u[2] = u[1] + b[2]
        /\ u[3] = u[2] + b[3]
        /\ u[4] = u[3] + b[4]
        /\ u[5] = u[4] + b[5]
        /\ u[6] = u[5] + b[6]
        /\ u[7] = u[6] + b[7]
        /\ u[8] = u[7] + b[8]
        /\ u[9] = u[8] + b[9]
    BY <1>7, <2>1
  <2>6. MaxBytes(k) = 4096
    BY <1>10 DEF MaxBytes
  <2>7. u[N] <= MaxBytes(k)
    BY <1>7, <2>1, <2>4, <2>5, <2>6
  <2> QED BY <1>5, <2>7 DEF Fits
<1>11. CASE k = "envelope"
  <2>1. o = EnvelopeKeys /\ N = 6
    BY <1>11 DEF N, FieldOrder, EnvelopeKeys
  <2>2. /\ o[1] = "ciphertext"
        /\ o[2] = "recipient"
        /\ o[3] = "sender"
        /\ o[4] = "sequence"
        /\ o[5] = "suite"
        /\ o[6] = "v"
    BY <2>1 DEF EnvelopeKeys
  <2>3. /\ Room(k, o[1]) = 36 + 2 * MAX_CIPHERTEXT_BYTES
        /\ Room(k, o[2]) = 801
        /\ Room(k, o[3]) = 801
        /\ Room(k, o[4]) = 56
        /\ Room(k, o[5]) = 100
        /\ Room(k, o[6]) = 56
    BY <1>11, <2>2, Rooms
  <2>4. /\ b[1] \in Nat /\ b[1] <= 36 + 2 * MAX_CIPHERTEXT_BYTES
        /\ b[2] \in Nat /\ b[2] <= 801
        /\ b[3] \in Nat /\ b[3] <= 801
        /\ b[4] \in Nat /\ b[4] <= 56
        /\ b[5] \in Nat /\ b[5] <= 100
        /\ b[6] \in Nat /\ b[6] <= 56
    BY <1>4, <2>1, <2>3
  <2>5. /\ u[1] = u[0] + b[1]
        /\ u[2] = u[1] + b[2]
        /\ u[3] = u[2] + b[3]
        /\ u[4] = u[3] + b[4]
        /\ u[5] = u[4] + b[5]
        /\ u[6] = u[5] + b[6]
    BY <1>7, <2>1
  <2>6. MaxBytes(k) = 2 * MAX_CIPHERTEXT_BYTES + 4096
    BY <1>11 DEF MaxBytes
  <2>7. u[N] <= MaxBytes(k)
    BY <1>7, <2>1, <2>4, <2>5, <2>6, CiphertextBound
  <2> QED BY <1>5, <2>7 DEF Fits
<1> QED BY <1>1, <1>8, <1>9, <1>10, <1>11 DEF Kinds

-----------------------------------------------------------------------------
(* Every message the constructors accept fits the limit, is accepted and   *)
(* given back by from_bytes as it was.                                     *)
THEOREM SentIsReceived == Spec => []RoundTrip
<1>1. ASSUME Inv PROVE RoundTrip
  <2> SUFFICES ASSUME damages = 0
               PROVE  Accepts(message.kind, document) /\ Decode(document) = message.values
    BY DEF RoundTrip
  <2> SUFFICES ASSUME NEW m, m = message, NEW d, d = document
               PROVE  Accepts(m.kind, d) /\ Decode(d) = m.values
    OBVIOUS
  <2>1. m \in Messages /\ d = Encode(m.kind, m.values)
    BY <1>1 DEF Inv
  <2>10. Fits(m.kind, d)
    BY <2>1, EncodingFits
  <2>2. /\ d.object = TRUE /\ NoDuplicates(d) /\ Received(d) = Fields(m.kind)
        /\ Decode(d) = m.values
    BY <2>1, DecodeEncode
  <2>3. Canonical(m.kind, d)
    BY <2>1, <2>2 DEF Canonical
  <2>4. /\ m.kind \in Kinds
        /\ m.kind # "envelope" => m.values["kind"].type = "str" /\ m.values["kind"].data = m.kind
        /\ m.kind = "offer" => ValidOffer(m.values)
        /\ m.kind = "response" => ValidResponse(m.values)
        /\ m.kind = "confirmation" => ValidConfirmation(m.values)
        /\ m.kind = "envelope" => ValidEnvelope(m.values)
    BY <2>1, MessagesAssumption
  <2>5. m.kind # "envelope" => Parses(m.kind, d)
    BY <2>2, <2>4, <2>10 DEF Parses
  <2>6. CASE m.kind = "offer"
    BY <2>2, <2>3, <2>4, <2>5, <2>6 DEF Accepts, OfferAccepted
  <2>7. CASE m.kind = "response"
    BY <2>2, <2>3, <2>4, <2>5, <2>7 DEF Accepts, ResponseAccepted
  <2>8. CASE m.kind = "confirmation"
    BY <2>2, <2>3, <2>4, <2>5, <2>8 DEF Accepts, ConfirmationAccepted
  <2>9. CASE m.kind = "envelope"
    BY <2>2, <2>3, <2>4, <2>9, <2>10 DEF Accepts, EnvelopeAccepted, Fields
  <2> QED BY <2>4, <2>6, <2>7, <2>8, <2>9 DEF Kinds
<1> QED BY <1>1, Invariance, PTL
=============================================================================

------------------------------ MODULE CtapHost ------------------------------
(***************************************************************************)
(* What a host puts on the wire, and what it must be able to read: the     *)
(* requests of src/tools/ctaphid_probe.py, which a CBOR library encodes,   *)
(* with the variations a browser is free to use (the order of the members, *)
(* members the firmware does not know), and a decoder as strict as the one *)
(* a comment of Ctap2.cpp says a browser has.  Against them the parsers    *)
(* and the answers of the firmware are compared.                           *)
(***************************************************************************)
EXTENDS Ctap2Responses

Str(n) == [i \in 1 .. n |-> 96 + (i % 20)]
Rotated(s, k) == SubSeq(s, k + 1, Len(s)) \o SubSeq(s, 1, k)
Rotations(s) == {Rotated(s, k) : k \in 0 .. Len(s) - 1}

-----------------------------------------------------------------------------
(* Requests.  A member is the calls that write its key and its value.       *)

Wire(members) == Written(4 * kMaxCtapMessageSize, Map(Len(members)) \o FlattenSeq(members)).buf

Descriptors(ids) == Array(Len(ids)) \o FlattenSeq([k \in DOMAIN ids |-> DescriptorSwapped(ids[k])])

\* Members of later versions of the protocol, with a value of every kind.
UnknownValues ==
    {Num(7), Num(-300), Num(70000), Bytes(Str(30)), Text(Str(3)), Bool(TRUE), Nothing,
     Array(2) \o Num(1) \o Array(1) \o Text(Str(1)),
     Map(2) \o Num(1) \o Map(1) \o Text(KeyRk) \o Nothing \o Text(KeyId) \o Bytes(Str(2))}
Unknown(value) == Num(100) \o value

\* The members in any order, and with one the firmware does not know among them.
Spellings(members) ==
    {Wire(m) : m \in Rotations(members)
                      \cup UNION {Rotations(Append(members, Unknown(v))) : v \in UnknownValues}}

MakeCredentialMembers(q) ==
    << Num(1) \o Bytes(q.hash),
       Num(2) \o Map(2) \o Text(KeyId) \o Text(q.rp) \o Text(KeyName) \o Text(q.rp),
       Num(3) \o Map(3) \o Text(KeyId) \o Bytes(q.user) \o Text(KeyName) \o Text(Str(2))
           \o Text(KeyDisplayName) \o Text(Str(2)),
       Num(4) \o Array(Len(q.algs))
           \o FlattenSeq([k \in DOMAIN q.algs |->
                  Map(2) \o Text(KeyType) \o Text(PublicKey) \o Text(KeyAlg) \o Num(q.algs[k])]),
       Num(5) \o Descriptors(q.exclude),
       Num(7) \o Map(2) \o Text(KeyRk) \o Bool(q.rk) \o Text(KeyUv) \o Bool(FALSE) >>

GetAssertionMembers(q) ==
    << Num(1) \o Text(q.rp), Num(2) \o Bytes(q.hash),
       Num(5) \o Map(1 + Len(q.up)) \o Text(KeyUv) \o Bool(TRUE) \o IfAny(q.up, LAMBDA x : Text(KeyUp) \o Bool(x)),
       Num(6) \o Bytes(q.hash), Num(7) \o Num(2) >>
    \o (IF q.allow = <<>> THEN <<>> ELSE << Num(3) \o Descriptors(q.allow) >>)

ManagementMembers(q) ==
    << Num(1) \o Num(6),
       Num(2) \o Map(3) \o Num(1) \o Bytes(q.hash) \o Num(2) \o DescriptorOf(q.id)
           \o Num(3) \o Map(2) \o Text(KeyId) \o Bytes(q.user) \o Text(KeyName) \o Text(Str(1)) >>

ClientPinMembers(q) ==
    << Num(1) \o Num(2), Num(2) \o Num(9), Num(3) \o Key(-25, q.hash, q.hash),
       Num(6) \o Bytes(q.hash), Num(9) \o Num(q.permissions), Num(10) \o Text(q.rp) >>

\* u2f_extended_apdu, and the short form
Apdu(ins, data) ==
    <<0, ins, 0, 0, 0>> \o BigEndian(Len(data), 2) \o data \o <<0, 0>>
ShortApdu(ins, data) == <<0, ins, 0, 0, Len(data)>> \o data

-----------------------------------------------------------------------------
(* Understood: a parser of the firmware gets out of every spelling what the *)
(* host meant if it keeps the sizes, refuses it if it does not, and refuses *)
(* what breaks off.                                                         *)

RefusedIfCut(Parse(_), members) ==
    \A b \in {Wire(members)} : \A n \in 0 .. Len(b) : Parse(SubSeq(b, 1, n)).ok <=> n = Len(b)

Ids1 == {Str(1), Str(2)}
Lists == {<<>>} \cup {<<a>> : a \in Ids1} \cup {<<Str(2), Str(1), Str(30)>>}
FirstOf(ids) == IF ids = <<>> THEN <<>> ELSE ids[1]
\* What the code means by a list that is too long (the comment at Ctap2.cpp:705):
\* entries behind the limit are read and dropped.
Capped(ids) == SubSeq(ids, 1, IF Len(ids) < kMaxAllowListEntries THEN Len(ids) ELSE kMaxAllowListEntries)
TextFits(s) == Len(s) \in 1 .. TextSize - 1
HashFits(s) == Len(s) = HashLen
UserFits(s) == Len(s) \in 1 .. UserHandleSize

MakesCredential(q) ==
    LET fits == TextFits(q.rp) /\ HashFits(q.hash) /\ UserFits(q.user) /\ Es256 \in ToSet(q.algs)
    IN  \A r \in {ParseMakeCredential(b) : b \in Spellings(MakeCredentialMembers(q))} :
            /\ r.ok <=> fits
            /\ fits => /\ r.out.rp = q.rp /\ r.out.hash = q.hash /\ r.out.user = q.user
                       /\ r.out.rk = q.rk /\ ~r.out.uv /\ r.out.id = FirstOf(q.exclude)

GetsAssertion(q) ==
    LET fits == TextFits(q.rp) /\ HashFits(q.hash)
    IN  \A r \in {ParseGetAssertion(b) : b \in Spellings(GetAssertionMembers(q))} :
            /\ r.ok <=> fits
            /\ fits => /\ r.out.rp = q.rp /\ r.out.hash = q.hash /\ r.out.allow = Capped(q.allow)
                       /\ r.out.up = (q.up = <<>> \/ q.up = <<TRUE>>) /\ r.out.uv
                       /\ r.out.param = {q.hash} /\ r.out.protocol = 2

Manages(q) ==
    LET fits == HashFits(q.hash) /\ UserFits(q.user)
    IN  \A r \in {ParseCredentialManagement(b) : b \in Spellings(ManagementMembers(q))} :
            /\ r.ok <=> fits
            /\ fits => r.out = [subCommand |-> 6, hash |-> q.hash, id |-> q.id, user |-> q.user]

AsksForToken(q) ==
    LET fits == HashFits(q.hash) /\ Len(q.rp) < TextSize
    IN  \A r \in {ParseClientPin(b) : b \in Spellings(ClientPinMembers(q))} :
            /\ r.ok <=> fits
            /\ fits => /\ r.out.protocol = 2 /\ r.out.subCommand = 9 /\ r.out.x = q.hash
                       /\ r.out.pinHashEnc = {q.hash} /\ r.out.newPinEnc = {}
                       /\ r.out.permissions = {q.permissions} /\ r.out.rp = q.rp

Hashes2 == {Str(HashLen), Str(HashLen + 1)}
RpTexts == {<<>>, Str(1), Str(TextSize - 1), Str(TextSize)}
Users == {Str(1), Str(UserHandleSize), Str(UserHandleSize + 1)}

RequestsUnderstood ==
    /\ \A rp \in RpTexts, hash \in Hashes2 :
          GetsAssertion([rp |-> rp, hash |-> hash, up |-> <<FALSE>>, allow |-> <<Str(2)>>])
    /\ \A up \in {<<>>, <<TRUE>>, <<FALSE>>}, allow \in Lists :
          GetsAssertion([rp |-> Str(1), hash |-> Str(HashLen), up |-> up, allow |-> allow])
    /\ \A rp \in RpTexts, user \in Users :
          MakesCredential([rp |-> rp, hash |-> Str(HashLen), user |-> user, algs |-> <<Es256>>,
                           exclude |-> <<Str(2)>>, rk |-> TRUE])
    /\ \A algs \in {<<-257>>, <<-257, Es256>>}, exclude \in Lists, rk \in BOOLEAN :
          MakesCredential([rp |-> Str(1), hash |-> Str(HashLen), user |-> Str(1), algs |-> algs,
                           exclude |-> exclude, rk |-> rk])
    /\ \A hash \in Hashes2, user \in Users, id \in Ids1 : Manages([hash |-> hash, user |-> user, id |-> id])
    /\ \A hash \in Hashes2, rp \in RpTexts, permissions \in {0, 1, 255, 65536} :
          AsksForToken([hash |-> hash, rp |-> rp, permissions |-> permissions])
    /\ \A v \in UnknownValues :
          LET q == [rp |-> Str(1), hash |-> Str(HashLen), user |-> Str(1), algs |-> <<Es256>>, rk |-> TRUE,
                    exclude |-> <<Str(1), Str(2)>>, up |-> <<FALSE>>, allow |-> <<Str(1)>>,
                    id |-> Str(2), permissions |-> 300]
          IN  /\ RefusedIfCut(ParseMakeCredential, Append(MakeCredentialMembers(q), Unknown(v)))
              /\ RefusedIfCut(ParseGetAssertion, Append(GetAssertionMembers(q), Unknown(v)))
              /\ RefusedIfCut(ParseCredentialManagement, Append(ManagementMembers(q), Unknown(v)))
              /\ RefusedIfCut(ParseClientPin, Append(ClientPinMembers(q), Unknown(v)))
    /\ \A n \in {0, 1, 2 * HashLen, 255, 256} :
          ParseU2fApdu(Apdu(1, Str(n))) = [ok |-> TRUE, data |-> Str(n)]
    /\ \A n \in {1, 2 * HashLen, 255} :
          /\ ParseU2fApdu(ShortApdu(1, Str(n))) = [ok |-> TRUE, data |-> Str(n)]
          /\ n > 1 => ~ParseU2fApdu(SubSeq(ShortApdu(1, Str(n)), 1, n + 4)).ok
-----------------------------------------------------------------------------
(* The strict decoder of the host.  An item is canonical when every length  *)
(* and number is in its shortest form and the keys of a map come in their   *)
(* order, none twice: by type, then the shorter first, then byte by byte.   *)

Before(a, b) ==
    \/ a[1] \div 32 < b[1] \div 32
    \/ /\ a[1] \div 32 = b[1] \div 32
       /\ \/ Len(a) < Len(b)
          \/ Len(a) = Len(b) /\ \E k \in DOMAIN a : a[k] < b[k] /\ \A j \in 1 .. k - 1 : a[j] = b[j]

Shortest(h, o) == h.at - o = Len(HeadBytes(h.major, h.val))

\* A pair of a map, after one whose key had the bytes before.
Pair(before, bytes, value) ==
    [ok |-> value.ok /\ (before = <<>> \/ Before(before, bytes)), at |-> value.at, val |-> bytes]

RECURSIVE Canonical(_, _, _)
Canonical(b, o, h) ==
    LET Item(at) == Canonical(b, at, ReadHeader(b, at))
        AfterKey(s, key) ==
            IF key.ok THEN Pair(s.val, SubSeq(b, s.at + 1, key.at), Item(key.at)) ELSE No
    IN  CASE ~h.ok -> No
          [] h.ok /\ ~Shortest(h, o) -> No
          [] h.major \in {UInt, Nint, Simple} -> Yes(h.at, 0)
          [] h.major = ByteString -> ReadBytes(b, o)
          [] h.major = TextString -> ReadText(b, o)
          [] h.major = ArrayOf -> Repeat(h.val, LAMBDA s : Item(s.at), b, Yes(h.at, 0))
          [] h.major = MapOf -> Repeat(h.val, LAMBDA s : AfterKey(s, Item(s.at)), b, Yes(h.at, <<>>))
          [] OTHER -> No

\* Nothing but one canonical item.
IsWhole(r, b) == r.ok /\ r.at = Len(b)
Decodes(b) == IsWhole(Canonical(b, 0, ReadHeader(b, 0)), b)

\* An answer fits the buffer the firmware has, decodes, and in a buffer that is too
\* small becomes an error and never a piece of itself.
Answered(calls) ==
    \A whole \in {Respond(kMaxCtapMessageSize, calls)} :
        /\ whole[1] = kOk
        /\ Decodes(Tail(whole))
        /\ \A capacity \in {1, 2, Len(whole) \div 2, Len(whole) - 1, Len(whole)} :
              Respond(capacity, calls) = IF capacity < Len(whole) THEN <<kOther>> ELSE whole

\* parse_attested_credential_id
AttestedCredentialId(authData) ==
    LET n == Number(authData, 53, 2) IN SubSeq(authData, 56, 55 + n)

Hash32 == Str(32)
\* With every string as short or as long as it is stored, and without the optional ones.
StoredRecords ==
    {[id |-> Str(32), rpIdHash |-> Hash32, x |-> Hash32, y |-> Hash32, rpId |-> Str(n[1]),
      userHandle |-> Str(n[2]), userName |-> Str(n[3]), rpName |-> name, userDisplayName |-> display] :
         n \in {<<1, 1, 4>>, <<63, 64, 47>>}, name \in {<<>>, Str(47)}, display \in {<<>>, Str(47)}}
SignatureOf == Str(72)
Totals == {<<>>, <<8>>}

AnswersDecoded ==
    /\ \A r \in StoredRecords, total \in Totals, verified \in BOOLEAN :
          /\ Answered(Assertion(r.id, AuthData(Hash32, 1, 257, <<>>), SignatureOf, <<r>>, verified, total))
          /\ Answered(ManagedRp(r, total))
          /\ Answered(ManagedCredential(r, total))
    /\ \A n \in {32, 33}, count \in {1, 65535, 65536} :
          \A data \in {AuthData(Hash32, 65, count, <<[id |-> Str(n), x |-> Hash32, y |-> Hash32]>>)} :
          /\ Answered(Registered(data))
          /\ AttestedCredentialId(data) = Str(n)
          /\ Number(data, 33, 4) = count
          /\ Answered(Assertion(Str(n), AuthData(Hash32, 0, count, <<>>), SignatureOf, <<>>, FALSE, <<>>))
    /\ \A x \in BOOLEAN : Answered(GetInfo(x))
    /\ \A n \in 0 .. 8 : Answered(PinRetries(n)) /\ Answered(Metadata(n, 8 - n))
    /\ Answered(PinToken(Str(48))) /\ Answered(KeyAgreement(Hash32, Hash32))
    /\ \A n \in {2, 32} :   \* the key handle of a U2F registration, and back in a U2F signature
          \A reply \in {U2fRespond(kMaxCtapMessageSize,
                                   U2fRegistered(Str(n), Hash32, Hash32, Str(300), SignatureOf))} :
          LET handle == SubSeq(reply, 68, 67 + reply[67])
              data == Str(2 * HashLen) \o <<Len(handle)>> \o handle
          IN  /\ handle = Str(n)
              /\ U2fKeyHandle(ParseU2fApdu(Apdu(2, data)).data) = handle
              /\ U2fKeyHandle(Append(data, 0)) = <<>>
=============================================================================

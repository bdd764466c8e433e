--------------------------- MODULE Ctap2Responses ---------------------------
(***************************************************************************)
(* The bytes src/src/Ctap2.cpp answers with.  A handler makes a sequence   *)
(* of calls of the writer, and the answer is status 0 and what they wrote, *)
(* or kOther alone when something did not fit.  How many entries a map     *)
(* announces and which calls follow are separate in the code, and here.    *)
(***************************************************************************)
EXTENDS Ctap2Requests, SequencesExt

CONSTANT kMaxCtapMessageSize    \* 1024, the size of CtapHid's txBuffer_

ASSUME MessageSizeIsNat == kMaxCtapMessageSize \in Nat

kOk == 0
kOther == 127

\* Names and values, as the bytes of their text.
KeyType == <<116, 121, 112, 101>>
PublicKey == <<112, 117, 98, 108, 105, 99, 45, 107, 101, 121>>
NoneFormat == <<110, 111, 110, 101>>
Fido20 == <<70, 73, 68, 79, 95, 50, 95, 48>>
Plat == <<112, 108, 97, 116>>
ClientPinOption == <<99, 108, 105, 101, 110, 116, 80, 105, 110>>
TokenOption == <<112, 105, 110, 85, 118, 65, 117, 116, 104, 84, 111, 107, 101, 110>>
Usb == <<117, 115, 98>>
Aaguid == <<69, 83, 80, 51, 50, 83, 51, 75, 69, 89, 76, 65, 66, 0, 0, 1>>

-----------------------------------------------------------------------------
(* Calls of the writer.                                                     *)

Map(n) == <<<<"map", n>>>>
Array(n) == <<<<"array", n>>>>
Num(n) == <<<<"int", n>>>>
Text(s) == <<<<"text", s>>>>
Bytes(s) == <<<<"bytes", s>>>>
Bool(x) == <<<<"bool", x>>>>
Nothing == <<<<"null">>>>
When(cond, calls) == IF cond THEN calls ELSE <<>>

\* What there may be one of is a sequence of at most one.
IfAny(s, Calls(_)) == FlattenSeq([i \in DOMAIN s |-> Calls(s[i])])

Make(w, call) ==
    CASE call[1] = "map"   -> WriteMap(w, call[2])
      [] call[1] = "array" -> WriteArray(w, call[2])
      [] call[1] = "int"   -> WriteInt(w, call[2])
      [] call[1] = "text"  -> WriteText(w, call[2])
      [] call[1] = "bytes" -> WriteBytes(w, call[2])
      [] call[1] = "bool"  -> WriteBool(w, call[2])
      [] OTHER             -> WriteNull(w)

Written(capacity, calls) == Loop(Len(calls), LAMBDA w, k : Make(w, calls[k]), Writer(capacity))

\* What a handler leaves in a response buffer of the given capacity.
Respond(capacity, calls) ==
    LET w == Written(capacity - 1, calls) IN IF w.ok THEN <<kOk>> \o w.buf ELSE <<kOther>>

-----------------------------------------------------------------------------
(* What the handlers write.  A record r is what is stored of a credential,  *)
(* its strings as the bytes before their end.                               *)

Key(alg, x, y) ==
    Map(5) \o Num(1) \o Num(2) \o Num(3) \o Num(alg) \o Num(-1) \o Num(1)
        \o Num(-2) \o Bytes(x) \o Num(-3) \o Bytes(y)
CoseKey(x, y) == Key(Es256, x, y)
KeyAgreement(x, y) == Map(1) \o Num(1) \o Key(-25, x, y)

\* buildAuthData; attested is the new credential, if any
AuthData(rpIdHash, flags, signCount, attested) ==
    rpIdHash \o <<flags>> \o BigEndian(signCount, 4)
        \o IfAny(attested, LAMBDA a : Aaguid \o BigEndian(Len(a.id), 2) \o a.id
                                          \o Written(kMaxCtapMessageSize, CoseKey(a.x, a.y)).buf)

GetInfo(pinSet) ==
    Map(7) \o Num(1) \o Array(1) \o Text(Fido20)
        \o Num(3) \o Bytes(Aaguid)
        \o Num(4) \o Map(6) \o Text(KeyRk) \o Bool(TRUE) \o Text(KeyUp) \o Bool(TRUE)
            \o Text(KeyUv) \o Bool(FALSE) \o Text(Plat) \o Bool(FALSE)
            \o Text(ClientPinOption) \o Bool(pinSet) \o Text(TokenOption) \o Bool(TRUE)
        \o Num(5) \o Num(kMaxCtapMessageSize)
        \o Num(6) \o Array(1) \o Num(2)
        \o Num(9) \o Array(1) \o Text(Usb)
        \o Num(10) \o Array(1) \o Map(2) \o Text(KeyAlg) \o Num(Es256) \o Text(KeyType) \o Text(PublicKey)

PinRetries(retries) == Map(1) \o Num(3) \o Num(retries)
PinToken(tokenEnc) == Map(1) \o Num(2) \o Bytes(tokenEnc)

Registered(authData) ==
    Map(3) \o Num(1) \o Text(NoneFormat) \o Num(2) \o Bytes(authData) \o Num(3) \o Map(0)

DescriptorSwapped(id) == Map(2) \o Text(KeyType) \o Text(PublicKey) \o Text(KeyId) \o Bytes(id)
DescriptorOf(id) == Map(2) \o Text(KeyId) \o Bytes(id) \o Text(KeyType) \o Text(PublicKey)

One(cond) == IF cond THEN 1 ELSE 0

\* writeAssertionFromIdentity: a stateless credential has no user, and the total is
\* there in the first of several answers
AssertionUser(r, verified) ==
    LET hasName == verified /\ r.userName # <<>>
        hasDisplay == verified /\ r.userDisplayName # <<>>
    IN  Map(1 + One(hasName) + One(hasDisplay)) \o Text(KeyId) \o Bytes(r.userHandle)
            \o When(hasName, Text(KeyName) \o Text(r.userName))
            \o When(hasDisplay, Text(KeyDisplayName) \o Text(r.userDisplayName))

Assertion(id, authData, signature, user, verified, total) ==
    Map(3 + Len(user) + Len(total))
        \o Num(1) \o DescriptorOf(id) \o Num(2) \o Bytes(authData) \o Num(3) \o Bytes(signature)
        \o IfAny(user, LAMBDA r : Num(4) \o AssertionUser(r, verified))
        \o IfAny(total, LAMBDA n : Num(5) \o Num(n))

RpEntity(r) ==
    Map(2) \o Text(KeyId) \o Text(r.rpId)
        \o Text(KeyName) \o Text(IF r.rpName # <<>> THEN r.rpName ELSE r.rpId)

UserEntity(r) ==
    LET hasDisplay == r.userDisplayName # <<>> IN
    Map(IF hasDisplay THEN 3 ELSE 2) \o Text(KeyId) \o Bytes(r.userHandle) \o Text(KeyName) \o Text(r.userName)
        \o When(hasDisplay, Text(KeyDisplayName) \o Text(r.userDisplayName))

\* writeCredentialManagementRp and ...Credential, with the total in the first answer
ManagedRp(r, total) ==
    Map(2 + Len(total)) \o Num(3) \o RpEntity(r) \o Num(4) \o Bytes(r.rpIdHash)
        \o IfAny(total, LAMBDA n : Num(5) \o Num(n))

ManagedCredential(r, total) ==
    Map(3 + Len(total)) \o Num(6) \o UserEntity(r) \o Num(7) \o DescriptorOf(r.id)
        \o Num(8) \o CoseKey(r.x, r.y)
        \o IfAny(total, LAMBDA n : Num(9) \o Num(n))

Metadata(residents, remaining) ==
    Map(2) \o Num(1) \o Num(residents) \o Num(2) \o Num(remaining)

-----------------------------------------------------------------------------
(* U2F answers are not CBOR: fields one after the other and a status word.  *)

NoError == <<144, 0>>
WrongLength == <<103, 0>>
U2fPublicKey(x, y) == <<4>> \o x \o y

U2fRespond(capacity, bytes) == IF Len(bytes) <= capacity THEN bytes ELSE WrongLength

U2fRegistered(id, x, y, cert, signature) ==
    <<5>> \o U2fPublicKey(x, y) \o <<Len(id)>> \o id \o cert \o signature \o NoError
U2fSigned(signCount, signature) == <<1>> \o BigEndian(signCount, 4) \o signature \o NoError

\* The key handle in the data of an authenticate command: after the challenge and the
\* application, with its length before it, and nothing behind.
U2fKeyHandle(data) ==
    LET at == 2 * HashLen + 1 IN
    IF Len(data) >= at /\ Len(data) = at + data[at] THEN SubSeq(data, at + 1, Len(data)) ELSE <<>>
=============================================================================

--------------------------- MODULE Ctap2Requests ---------------------------
(***************************************************************************)
(* The parsers of src/src/Ctap2.cpp: what a handler gets to see of the     *)
(* bytes of a request.  A parser carries a state s: ok, the offset at, and *)
(* the request struct out as it is filled.  A flag has... of the code is   *)
(* the presence of the value; an absent string is <<>>.  Names shown to    *)
(* the user are read and checked but not kept.                             *)
(***************************************************************************)
EXTENDS CborCodec, FiniteSets

CONSTANTS
    HashLen,            \* 32, a hash or a coordinate
    TextSize,           \* 64, sizeof(rpId): the text and its end
    UserHandleSize,     \* 64
    kMaxAllowListEntries

ASSUME SizesAreNat == {HashLen, TextSize, UserHandleSize, kMaxAllowListEntries} \subseteq Nat

\* Member names, as the bytes of their text.
KeyId == <<105, 100>>
KeyName == <<110, 97, 109, 101>>
KeyDisplayName == <<100, 105, 115, 112, 108, 97, 121, 78, 97, 109, 101>>
KeyAlg == <<97, 108, 103>>
KeyRk == <<114, 107>>
KeyUv == <<117, 118>>
KeyUp == <<117, 112>>
Es256 == -7

-----------------------------------------------------------------------------
Refused(s) == [s EXCEPT !.ok = FALSE]
Start(out) == [ok |-> TRUE, at |-> 0, out |-> out]
Anything(v) == TRUE

\* s after the read r, if it worked and gave something good.
Got(s, r, Good(_), Out(_)) ==
    IF r.ok /\ Good(r.val) THEN [s EXCEPT !.at = r.at, !.out = Out(r.val)] ELSE Refused(s)

Ignored(b, s) == Got(s, Skip(b, s.at), Anything, LAMBDA v : s.out)

\* What a request or a member must have when its bytes were read.
Complete(s, Has(_)) == IF s.ok /\ Has(s.out) THEN s ELSE Refused(s)

\* A container of n entries, or none.
Entries(b, s, n, Entry(_)) ==
    IF n.ok THEN Repeat(n.val, Entry, b, [s EXCEPT !.at = n.at]) ELSE Refused(s)

\* A map: each key is read with ReadKey and handled, with its value, by Member.
Keyed(s, key, Member(_, _)) == IF key.ok THEN Member(key.val, [s EXCEPT !.at = key.at]) ELSE Refused(s)
Members(b, s, ReadKey(_, _), Member(_, _)) ==
    Entries(b, s, ReadMap(b, s.at), LAMBDA t : Keyed(t, ReadKey(b, t.at), Member))

\* Values of members: a byte read as an unsigned number, a hash, and a text or bytes
\* that are read and not kept.
GotByte(b, s, Out(_)) == Got(s, ReadUInt(b, s.at), LAMBDA v : v <= 255, Out)
Hash(b, s, Out(_)) == Got(s, ReadBytes(b, s.at), LAMBDA v : Len(v) = HashLen, Out)
UnusedText(b, s) == Got(s, ReadText(b, s.at), Anything, LAMBDA v : s.out)

\* pinUvAuthParam, present or not: a set of at most one
Param(b, s) == Got(s, ReadBytes(b, s.at), Anything, LAMBDA v : [s.out EXCEPT !.param = {v}])

RpId(b, s, least) ==
    Got(s, ReadText(b, s.at), LAMBDA v : Len(v) \in least .. TextSize - 1, LAMBDA v : [s.out EXCEPT !.rp = v])

-----------------------------------------------------------------------------
\* parseRpMap
RpMap(b, s) ==
    LET Member(key, t) ==
            CASE key = KeyId   -> RpId(b, t, 1)
              [] key = KeyName -> UnusedText(b, t)
              [] OTHER         -> Ignored(b, t)
    IN  Complete(Members(b, s, ReadText, Member), LAMBDA out : out.rp # <<>>)

\* parseUserMap, and parseCredentialManagementUser, which is the same code
UserMap(b, s) ==
    LET Member(key, t) ==
            CASE key = KeyId -> Got(t, ReadBytes(b, t.at), LAMBDA v : Len(v) \in 1 .. UserHandleSize,
                                    LAMBDA v : [t.out EXCEPT !.user = v])
              [] key \in {KeyName, KeyDisplayName} -> UnusedText(b, t)
              [] OTHER -> Ignored(b, t)
    IN  Complete(Members(b, s, ReadText, Member), LAMBDA out : out.user # <<>>)

\* parsePubKeyCredParams
PubKeyCredParams(b, s) ==
    LET Member(key, t) ==
            IF key = KeyAlg
                THEN Got(t, ReadInt(b, t.at), Anything, LAMBDA v : [t.out EXCEPT !.es256 = @ \/ v = Es256])
                ELSE Ignored(b, t)
    IN  Entries(b, s, ReadArray(b, s.at), LAMBDA t : Members(b, t, ReadText, Member))

\* parseOptions: every option is a Boolean; the ones not known are ignored.
Options(b, s) ==
    LET Member(key, t) ==
            Got(t, ReadBool(b, t.at), Anything,
                LAMBDA v : CASE key = KeyRk -> [t.out EXCEPT !.rk = v]
                             [] key = KeyUv -> [t.out EXCEPT !.uv = v]
                             [] key = KeyUp -> [t.out EXCEPT !.up = v]
                             [] OTHER -> t.out)
    IN  Members(b, s, ReadText, Member)

\* parseCredentialDescriptor: the id is in out.id, which a caller may have filled before.
Descriptor(b, s) ==
    LET Member(key, t) ==
            IF key = KeyId
                THEN Got(t, ReadBytes(b, t.at), Anything, LAMBDA v : [t.out EXCEPT !.id = v])
                ELSE Ignored(b, t)
    IN  Complete(Members(b, s, ReadText, Member), LAMBDA out : out.id # <<>>)

\* An allow list: the entries beyond the cap are read and dropped.
KeepAll(list, id) == Append(list, id)
Kept(list, id) == IF Len(list) < kMaxAllowListEntries THEN Append(list, id) ELSE list
Listed(d) == IF d.ok THEN [d EXCEPT !.out.allow = Kept(@, d.out.id)] ELSE d
AllowList(b, s) ==
    Entries(b, s, ReadArray(b, s.at), LAMBDA t : Listed(Descriptor(b, [t EXCEPT !.out.id = <<>>])))

\* An exclude list: the first entry is a descriptor, whose id is kept in out.id; the
\* others are ignored.
Exclusions(b, s, n) ==
    CASE ~n.ok -> Refused(s)
      [] n.ok /\ n.val = 0 -> [s EXCEPT !.at = n.at]
      [] OTHER -> Repeat(n.val - 1, LAMBDA t : Ignored(b, t), b, Descriptor(b, [s EXCEPT !.at = n.at]))
ExcludeList(b, s) == Exclusions(b, s, ReadArray(b, s.at))

-----------------------------------------------------------------------------
NewMakeCredential ==
    [hash |-> <<>>, rp |-> <<>>, user |-> <<>>, es256 |-> FALSE, id |-> <<>>,
     rk |-> FALSE, uv |-> FALSE, up |-> TRUE, param |-> {}, protocol |-> 0]

\* The members of parseMakeCredential; up is not looked at here.
MakeCredentialMember(b, key, s) ==
    CASE key = 1 -> Hash(b, s, LAMBDA v : [s.out EXCEPT !.hash = v])
      [] key = 2 -> RpMap(b, s)
      [] key = 3 -> UserMap(b, s)
      [] key = 4 -> PubKeyCredParams(b, s)
      [] key = 5 -> ExcludeList(b, s)
      [] key = 7 -> Options(b, s)
      [] key = 8 -> Param(b, s)
      [] key = 9 -> GotByte(b, s, LAMBDA v : [s.out EXCEPT !.protocol = v])
      [] OTHER -> Ignored(b, s)

ParseMakeCredential(b) ==
    Complete(Members(b, Start(NewMakeCredential), ReadInt, LAMBDA key, s : MakeCredentialMember(b, key, s)),
             LAMBDA out : out.hash # <<>> /\ out.rp # <<>> /\ out.user # <<>> /\ out.es256)

NewGetAssertion ==
    [rp |-> <<>>, hash |-> <<>>, allow |-> <<>>, id |-> <<>>, rk |-> FALSE, uv |-> FALSE,
     up |-> TRUE, param |-> {}, protocol |-> 0]

GetAssertionMember(b, key, s) ==
    CASE key = 1 -> RpId(b, s, 1)
      [] key = 2 -> Hash(b, s, LAMBDA v : [s.out EXCEPT !.hash = v])
      [] key = 3 -> AllowList(b, s)
      [] key = 5 -> Options(b, s)
      [] key = 6 -> Param(b, s)
      [] key = 7 -> GotByte(b, s, LAMBDA v : [s.out EXCEPT !.protocol = v])
      [] OTHER -> Ignored(b, s)

ParseGetAssertion(b) ==
    Complete(Members(b, Start(NewGetAssertion), ReadInt, LAMBDA key, s : GetAssertionMember(b, key, s)),
             LAMBDA out : out.rp # <<>> /\ out.hash # <<>>)

-----------------------------------------------------------------------------
NewCredentialManagement ==
    [subCommand |-> 0, hash |-> <<>>, id |-> <<>>, user |-> <<>>]

\* parseCredentialManagementParams
CredentialManagementParams(b, s) ==
    Members(b, s, ReadInt,
            LAMBDA key, t :
                CASE key = 1 -> Hash(b, t, LAMBDA v : [t.out EXCEPT !.hash = v])
                  [] key = 2 -> Descriptor(b, t)
                  [] key = 3 -> UserMap(b, t)
                  [] OTHER -> Ignored(b, t))

CredentialManagementMember(b, key, s) ==
    CASE key = 1 -> GotByte(b, s, LAMBDA v : [s.out EXCEPT !.subCommand = v])
      [] key = 2 -> CredentialManagementParams(b, s)
      [] OTHER -> Ignored(b, s)

ParseCredentialManagement(b) ==
    Complete(Members(b, Start(NewCredentialManagement), ReadInt,
                     LAMBDA key, s : CredentialManagementMember(b, key, s)),
             LAMBDA out : out.subCommand # 0)

NewClientPin ==
    [protocol |-> 0, subCommand |-> 0, x |-> <<>>, y |-> <<>>, param |-> {}, newPinEnc |-> {},
     pinHashEnc |-> {}, permissions |-> {}, rp |-> <<>>]

\* parseCoseP256: the coordinates, both needed, and only those of this key
NoKey(s) == [s EXCEPT !.out.x = <<>>, !.out.y = <<>>]
CoseP256(b, s) ==
    LET Member(key, t) ==
            CASE key = -2 -> Hash(b, t, LAMBDA v : [t.out EXCEPT !.x = v])
              [] key = -3 -> Hash(b, t, LAMBDA v : [t.out EXCEPT !.y = v])
              [] OTHER -> Ignored(b, t)
    IN  Complete(Members(b, NoKey(s), ReadInt, Member),
                 LAMBDA out : out.x # <<>> /\ out.y # <<>>)

ClientPinMember(b, key, s) ==
    CASE key = 1 -> GotByte(b, s, LAMBDA v : [s.out EXCEPT !.protocol = v])
      [] key = 2 -> GotByte(b, s, LAMBDA v : [s.out EXCEPT !.subCommand = v])
      [] key = 3 -> CoseP256(b, s)
      [] key = 4 -> Param(b, s)
      [] key = 5 -> Got(s, ReadBytes(b, s.at), Anything, LAMBDA v : [s.out EXCEPT !.newPinEnc = {v}])
      [] key = 6 -> Got(s, ReadBytes(b, s.at), Anything, LAMBDA v : [s.out EXCEPT !.pinHashEnc = {v}])
      [] key = 9 -> Got(s, ReadUInt(b, s.at), Anything, LAMBDA v : [s.out EXCEPT !.permissions = {v}])
      [] key = 10 -> RpId(b, s, 0)
      [] OTHER -> Ignored(b, s)

ParseClientPin(b) ==
    Complete(Members(b, Start(NewClientPin), ReadInt, LAMBDA key, s : ClientPinMember(b, key, s)),
             LAMBDA out : out.subCommand # 0)

-----------------------------------------------------------------------------
(* parseU2fApdu: four header bytes, then nothing, or Lc in one byte or, led *)
(* by a zero byte, in two, and that much data.  What follows (Le) is not    *)
(* looked at; five bytes are taken as a request without data.               *)
NoApdu == [ok |-> FALSE, data |-> <<>>]
ApduData(b, from, lc) ==
    IF Len(b) < from + lc THEN NoApdu ELSE [ok |-> TRUE, data |-> SubSeq(b, from + 1, from + lc)]

ParseU2fApdu(b) ==
    CASE Len(b) < 4 -> NoApdu
      [] Len(b) \in {4, 5} -> ApduData(b, 0, 0)
      [] Len(b) > 5 /\ b[5] # 0 -> ApduData(b, 5, b[5])
      [] Len(b) = 6 /\ b[5] = 0 -> NoApdu
      [] OTHER -> ApduData(b, 7, b[6] * 256 + b[7])
=============================================================================

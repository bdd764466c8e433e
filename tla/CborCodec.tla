----------------------------- MODULE CborCodec -----------------------------
(***************************************************************************)
(* CborWriter and CborReader of src/src/CborCodec.cpp, byte by byte.  A    *)
(* writer is a record of the bytes written, the capacity of its buffer and *)
(* ok_.  A reader is a buffer b with the number o of bytes consumed; a     *)
(* read gives ok, the offset after it (at) and what was read (val).        *)
(* Nobody reads on after a failed read, so its offset does not matter.     *)
(*                                                                         *)
(* Numbers of 64 bits are neither written nor read by the code.  TLC's own *)
(* numbers end at 2^31 - 1, so instances keep below that.                  *)
(***************************************************************************)
EXTENDS Integers, Sequences

UInt == 0
Nint == 1
ByteString == 2
TextString == 3
ArrayOf == 4
MapOf == 5
Simple == 7

False == 244
True == 245
Null == 246

-----------------------------------------------------------------------------
\* n steps one after the other, as far as they go well.
Onward(t, k, Step(_, _)) == IF t.ok THEN Step(t, k) ELSE t
Loop(n, Step(_, _), s) ==
    LET after[k \in 0 .. n] == IF k = 0 THEN s ELSE Onward(after[k - 1], k, Step)
    IN  after[n]

-----------------------------------------------------------------------------
(* CborWriter.  ok_ stays false once something did not fit.                 *)

Writer(capacity) == [buf |-> <<>>, capacity |-> capacity, ok |-> TRUE]

WriteRaw(w, data) ==
    IF w.ok /\ Len(data) <= w.capacity - Len(w.buf)
        THEN [w EXCEPT !.buf = @ \o data]
        ELSE [w EXCEPT !.ok = FALSE]

WriteByte(w, byte) == WriteRaw(w, <<byte>>)

\* The bytes of value, the most significant first, in the shortest of the
\* lengths 1, 2 and 4; values below 24 are in the first byte.
Scale == <<1, 256, 256 * 256, 256 * 256 * 256>>
BigEndian(value, n) == [i \in 1 .. n |-> (value \div Scale[n + 1 - i]) % 256]
Initial(major, addl) == major * 32 + addl
HeadBytes(major, value) ==
    IF value < 24 THEN <<Initial(major, value)>>
    ELSE IF value < 256 THEN <<Initial(major, 24)>> \o BigEndian(value, 1)
    ELSE IF value < 256 * 256 THEN <<Initial(major, 25)>> \o BigEndian(value, 2)
    ELSE <<Initial(major, 26)>> \o BigEndian(value, 4)

WriteType(w, major, value) ==
    LET head == HeadBytes(major, value) IN Loop(Len(head), LAMBDA v, k : WriteByte(v, head[k]), w)

WriteInt(w, value) ==
    IF value >= 0 THEN WriteType(w, UInt, value) ELSE WriteType(w, Nint, -1 - value)
WriteBytes(w, data) == WriteRaw(WriteType(w, ByteString, Len(data)), data)
WriteText(w, text) == WriteRaw(WriteType(w, TextString, Len(text)), text)
WriteArray(w, count) == WriteType(w, ArrayOf, count)
WriteMap(w, count) == WriteType(w, MapOf, count)
WriteBool(w, value) == WriteByte(w, IF value THEN True ELSE False)
WriteNull(w) == WriteByte(w, Null)

-----------------------------------------------------------------------------
(* CborReader.                                                              *)

No == [ok |-> FALSE, at |-> 0, val |-> 0, major |-> 0]
Yes(at, val) == [ok |-> TRUE, at |-> at, val |-> val]

Remaining(b, o) == Len(b) - o

\* The bytes that follow the first one; 31 - addl of them does not exist.
LengthBytes(addl) == CASE addl < 24 -> 0 [] addl = 24 -> 1 [] addl = 25 -> 2 [] OTHER -> 4
Number(b, o, n) ==
    CASE n = 1 -> b[o + 1]
      [] n = 2 -> b[o + 1] * 256 + b[o + 2]
      [] OTHER -> ((b[o + 1] * 256 + b[o + 2]) * 256 + b[o + 3]) * 256 + b[o + 4]

Header(b, o, major, addl, n) ==
    IF addl > 26 \/ Remaining(b, o) < n THEN No
    ELSE [ok |-> TRUE, at |-> o + n, major |-> major,
          val |-> IF n = 0 THEN addl ELSE Number(b, o, n)]

ReadHeader(b, o) ==
    IF Remaining(b, o) < 1 THEN No
    ELSE Header(b, o + 1, b[o + 1] \div 32, b[o + 1] % 32, LengthBytes(b[o + 1] % 32))

OfType(h, major) == IF h.ok /\ h.major = major THEN Yes(h.at, h.val) ELSE No
ReadOf(major, b, o) == OfType(ReadHeader(b, o), major)

MaxCount == 64
AtMost(h, most) == IF h.ok /\ h.val <= most THEN h ELSE No
ReadCount(major, b, o) == AtMost(ReadOf(major, b, o), MaxCount)

ReadMap(b, o) == ReadCount(MapOf, b, o)
ReadArray(b, o) == ReadCount(ArrayOf, b, o)
ReadUInt(b, o) == ReadOf(UInt, b, o)

Signed(h) ==
    CASE h.ok /\ h.major = UInt -> Yes(h.at, h.val)
      [] h.ok /\ h.major = Nint -> Yes(h.at, -1 - h.val)
      [] OTHER -> No
ReadInt(b, o) == Signed(ReadHeader(b, o))

\* readBytes and readTextView: the data lies in the buffer.
Contained(b, h) ==
    IF h.ok /\ h.val <= Remaining(b, h.at)
        THEN Yes(h.at + h.val, SubSeq(b, h.at + 1, h.at + h.val))
        ELSE No
ReadString(major, b, o) == Contained(b, ReadOf(major, b, o))
ReadBytes(b, o) == ReadString(ByteString, b, o)
ReadText(b, o) == ReadString(TextString, b, o)

ReadBool(b, o) ==
    IF Remaining(b, o) >= 1 /\ b[o + 1] \in {False, True} THEN Yes(o + 1, b[o + 1] = True) ELSE No

\* No step of a reader leaves the offset where it is, so a loop ends with the buffer.
Rounds(b, n) == IF n <= Len(b) THEN n ELSE Len(b) + 1
Repeat(n, Step(_), b, s) == Loop(Rounds(b, n), LAMBDA t, k : Step(t), s)

(* skip(): an item of any type, with everything inside it.  The simple      *)
(* values false, true and null have a valid header, so the code that looks  *)
(* at them after a failed one never finds them: a failed header fails.      *)
Skip(b, o) ==
    LET skip[p \in 0 .. Len(b)] ==
            LET h == ReadHeader(b, p)
                Items(n) == Repeat(n, LAMBDA s : skip[s.at], b, Yes(h.at, 0))
            IN  CASE ~h.ok -> No
                  [] h.ok /\ h.major \in {UInt, Nint, Simple} -> Yes(h.at, 0)
                  [] h.ok /\ h.major \in {ByteString, TextString} -> Contained(b, h)
                  [] h.ok /\ h.major \in {ArrayOf, MapOf} -> Items(IF h.major = MapOf THEN 2 * h.val ELSE h.val)
                  [] OTHER -> No
    IN  skip[o]
=============================================================================

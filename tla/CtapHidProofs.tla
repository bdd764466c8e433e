--------------------------- MODULE CtapHidProofs ---------------------------
(***************************************************************************)
(* What the run "hid" checks, for every size of packets and messages, any  *)
(* number of processes, messages and lost packets.  The properties about a *)
(* message as a whole hold when no two processes send on one channel.      *)
(***************************************************************************)
EXTENDS CtapHid, SequenceTheorems, TLAPS

\* A message on channel 0 is refused, so that any process may send one.
OwnChannels == \A c, d \in Clients : c # d => Cids(c) \cap Cids(d) \subseteq {NoCid}

(* Where packet j of a message, counted from 0, ends.                       *)
Offset(j) == InitData + j * ContData

(* Reassembly is at the end of a packet, before the end of the message.     *)
Framed ==
    rxBuffer # <<>> => rxCid # NoCid /\ Len(rxBuffer) = Offset(nextSeq) /\ Len(rxBuffer) < rxExpected

(* What is being received, and what was dispatched, is in its place.        *)
Placed == InPlace(rxBuffer, rxCid)
Passed == \A d \in dispatched : InPlace(d.body, d.cid)

(* A process sends on a channel of its own.                                 *)
OnOwnCid == \A c \in Clients : host[c].n > 0 => host[c].cid \in Cids(c)

TypeInv == TypeOK /\ Framed /\ Placed /\ OnOwnCid /\ Passed

(* What is being received is what c has sent so far, but for what was lost. *)
Mine(c) ==
    /\ rxCid = host[c].cid /\ rxCmd = host[c].cmd /\ rxExpected = host[c].len
    /\ \A i \in DOMAIN rxBuffer : rxBuffer[i] = Byte(c, i)

(* When the first packet of the message a process is sending arrived, its   *)
(* channel carries no rest of an older message.                             *)
Current ==
    \A c \in Clients :
        (host[c].n > 0 /\ host[c].k > 0 /\ c \notin headless) =>
            rxBuffer = <<>> \/ rxCid # host[c].cid \/ Mine(c)

(* A process without a reaction has packets left, the next of which will be *)
(* put behind those received or draw an error.                              *)
Waiting ==
    \A c \in Clients :
        (host[c].n > 0 /\ host[c].k > 0 /\ c \notin lossy \cup cutOff \cup told) =>
            host[c].k < PacketCount(c)

\* A process without its first packet lost one.
Headless == headless \subseteq lossy

IInv == TypeInv /\ Headless /\ Current /\ Waiting

-----------------------------------------------------------------------------
(* Sizes.                                                                   *)

LEMMA OffsetIs ==
    ASSUME NEW j \in Nat
    PROVE  /\ Offset(j) \in Nat /\ j <= Offset(j) /\ Offset(j + 1) = Offset(j) + ContData
           /\ Offset(0) = InitData
<1>1. j * ContData \in Nat /\ (j + 1) * ContData = j * ContData + ContData /\ 0 * ContData = 0
  BY SizesArePositive
<1>2. j <= j * ContData
  <2>1. ContData - 1 \in Nat /\ j * (ContData - 1) \in Nat /\ j * (ContData - 1) = j * ContData - j
    BY SizesArePositive
  <2> QED
    BY <1>1, <2>1
<1> QED
  BY <1>1, <1>2, SizesArePositive DEF Offset

LEMMA OffsetsGrow ==
    ASSUME NEW i \in Nat, NEW j \in Nat, Offset(i) < Offset(j)
    PROVE  i < j
<1>1. i * ContData \in Nat /\ j * ContData \in Nat /\ i * ContData < j * ContData
  BY SizesArePositive DEF Offset
<1>2. ASSUME j <= i PROVE j * ContData <= i * ContData
  <2>1. i - j \in Nat /\ (i - j) * ContData \in Nat /\ (i - j) * ContData = i * ContData - j * ContData
    BY <1>2, SizesArePositive
  <2> QED
    BY <1>1, <2>1
<1> QED
  BY <1>1, <1>2

(* A message that does not fit its first packet has as many packets as are  *)
(* needed and no more.                                                      *)
LEMMA Rounded ==
    ASSUME NEW n \in Nat, InitData < n
    PROVE  LET q == (n - InitData + ContData - 1) \div ContData IN
              q \in Nat \ {0} /\ n <= Offset(q) /\ Offset(q - 1) < n
<1> DEFINE a == n - InitData
           q == (a + ContData - 1) \div ContData
           r == (a + ContData - 1) % ContData
<1>1. a \in Nat \ {0} /\ q \in Nat /\ r \in 0 .. ContData - 1 /\ a + ContData - 1 = ContData * q + r
  BY SizesArePositive
<1>2. n = InitData + a
  BY SizesArePositive
<1> HIDE DEF a, q, r
<1>3. q * ContData = ContData * q /\ (q - 1) * ContData = ContData * q - ContData
  BY <1>1, SizesArePositive
<1>4. q # 0
  BY <1>1, <1>3, SizesArePositive
<1>5. n <= Offset(q) /\ Offset(q - 1) < n
  BY <1>1, <1>2, <1>3, SizesArePositive DEF Offset
<1> QED
  BY <1>1, <1>4, <1>5 DEF q, a

LEMMA PacketCountIs ==
    ASSUME NEW c \in Clients, host[c].len \in Nat
    PROVE  /\ PacketCount(c) \in Nat \ {0}
           /\ host[c].len <= Offset(PacketCount(c) - 1)
           /\ host[c].len > InitData => PacketCount(c) > 1
           /\ \A j \in Nat : Offset(j) < host[c].len => j + 1 < PacketCount(c)
<1>1. CASE host[c].len <= InitData
  <2>1. PacketCount(c) = 1
    BY <1>1 DEF PacketCount
  <2>2. \A j \in Nat : ~ (Offset(j) < host[c].len)
    BY <1>1, OffsetIs, SizesArePositive DEF Offset
  <2> QED
    BY <1>1, <2>1, <2>2, OffsetIs, SizesArePositive
<1>2. CASE InitData < host[c].len
  <2> DEFINE q == (host[c].len - InitData + ContData - 1) \div ContData
  <2>1. q \in Nat \ {0} /\ host[c].len <= Offset(q)
    BY <1>2, Rounded
  <2>2. PacketCount(c) = 1 + q
    BY <1>2, SizesArePositive DEF PacketCount
  <2> HIDE DEF q
  <2>3. PacketCount(c) - 1 = q /\ PacketCount(c) \in Nat \ {0} /\ PacketCount(c) > 1
    BY <2>1, <2>2
  <2>4. ASSUME NEW j \in Nat, Offset(j) < host[c].len PROVE j + 1 < PacketCount(c)
    <3>1. Offset(j) < Offset(q)
      BY <2>1, <2>4, OffsetIs
    <3>2. j < q
      BY <2>1, <3>1, OffsetsGrow
    <3> QED
      BY <2>1, <2>2, <3>2
  <2> QED
    BY <2>1, <2>3, <2>4
<1> QED
  BY <1>1, <1>2, SizesArePositive

-----------------------------------------------------------------------------
(* The packets of a process.                                                *)

LEMMA HostIs ==
    ASSUME TypeOK, NEW c \in Clients
    PROVE  /\ host[c].n \in 0 .. MaxMessages /\ host[c].cid \in AllCids /\ host[c].cmd \in Commands
           /\ host[c].len \in Nat /\ host[c].k \in Nat
BY DEF TypeOK, HostStates

LEMMA FirstPacketIs ==
    ASSUME NEW c \in Clients, host[c].len \in Nat
    PROVE  LET p == HostPacket(c, 1)
               body == SubSeq(p.data, 1, Smaller(p.len, InitData))
           IN  /\ p.cid = host[c].cid /\ p.cmd = host[c].cmd /\ p.len = host[c].len
               /\ Len(body) = Smaller(host[c].len, InitData)
               /\ \A i \in 1 .. Smaller(host[c].len, InitData) : body[i] = Byte(c, i)
               /\ body \in Seq({Byte(c, i) : i \in 1 .. InitData})
<1> DEFINE p == HostPacket(c, 1)
           data == [i \in 1 .. InitData |-> Byte(c, i)]
           n == Smaller(host[c].len, InitData)
           S == {Byte(c, i) : i \in 1 .. InitData}
<1>1. p.cid = host[c].cid /\ p.cmd = host[c].cmd /\ p.len = host[c].len /\ p.data = data
  BY DEF HostPacket
<1>2. n \in Nat /\ n <= InitData
  BY SizesArePositive DEF Smaller
<1>3. \A i \in 1 .. InitData : data[i] = Byte(c, i) /\ data[i] \in S
  OBVIOUS
<1> HIDE DEF n, data, S, p
<1>4. 1 \in Int /\ n \in Int /\ \A i \in 1 .. n : data[i] \in S
  BY <1>2, <1>3, SizesArePositive
<1>5. /\ SubSeq(data, 1, n) \in Seq(S)
      /\ Len(SubSeq(data, 1, n)) = IF 1 <= n THEN n - 1 + 1 ELSE 0
      /\ \A i \in 1 .. n - 1 + 1 : SubSeq(data, 1, n)[i] = data[1 + i - 1]
  BY <1>4, SubSeqProperties
<1>6. Len(SubSeq(data, 1, n)) = n /\ \A i \in 1 .. n : SubSeq(data, 1, n)[i] = Byte(c, i)
  BY <1>2, <1>3, <1>5, SizesArePositive
<1> QED
  BY <1>1, <1>5, <1>6 DEF n, S, p

LEMMA NextPacketIs ==
    ASSUME NEW c \in Clients, NEW k \in Nat \ {0}, NEW n \in 0 .. ContData
    PROVE  LET p == HostPacket(c, k + 1)
               rest == SubSeq(p.data, 1, n)
           IN  /\ p.cid = host[c].cid /\ p.seq = k - 1
               /\ Len(rest) = n
               /\ \A i \in 1 .. n : rest[i] = Byte(c, Offset(k - 1) + i)
               /\ rest \in Seq({Byte(c, Offset(k - 1) + i) : i \in 1 .. ContData})
<1> DEFINE p == HostPacket(c, k + 1)
           data == [i \in 1 .. ContData |-> Byte(c, Offset(k - 1) + i)]
           S == {Byte(c, Offset(k - 1) + i) : i \in 1 .. ContData}
<1>1. p.cid = host[c].cid /\ p.seq = k - 1 /\ p.data = data
  <2>1. k + 1 # 1 /\ k + 1 - 2 = k - 1
    OBVIOUS
  <2> QED
    BY <2>1 DEF HostPacket, Offset
<1>2. \A i \in 1 .. ContData : data[i] = Byte(c, Offset(k - 1) + i) /\ data[i] \in S
  OBVIOUS
<1> HIDE DEF data, S, p
<1>3. 1 \in Int /\ n \in Int /\ \A i \in 1 .. n : data[i] \in S
  BY <1>2, SizesArePositive
<1>4. /\ SubSeq(data, 1, n) \in Seq(S)
      /\ Len(SubSeq(data, 1, n)) = IF 1 <= n THEN n - 1 + 1 ELSE 0
      /\ \A i \in 1 .. n - 1 + 1 : SubSeq(data, 1, n)[i] = data[1 + i - 1]
  BY <1>3, SubSeqProperties
<1>5. Len(SubSeq(data, 1, n)) = n /\ \A i \in 1 .. n : SubSeq(data, 1, n)[i] = Byte(c, Offset(k - 1) + i)
  BY <1>2, <1>4, SizesArePositive
<1> QED
  BY <1>1, <1>4, <1>5 DEF S, p

(* A sequence is one of bytes when its elements are.                        *)
LEMMA SeqOfBytes ==
    ASSUME NEW S, NEW T, NEW s \in Seq(S), \A i \in 1 .. Len(s) : s[i] \in T
    PROVE  s \in Seq(T)
<1>1. s \in [1 .. Len(s) -> S] /\ Len(s) \in Nat
  BY LenProperties
<1>2. s \in [1 .. Len(s) -> T]
  BY <1>1
<1> QED
  BY <1>1, <1>2

(* What reassembly holds after an expected packet of c.                     *)
LEMMA JoinedIs ==
    ASSUME TypeOK, Framed, NEW c \in Clients, host[c].k \in Nat \ {0},
           Expected(HostPacket(c, host[c].k + 1))
    PROVE  LET p == HostPacket(c, host[c].k + 1)
               body == rxBuffer \o SubSeq(p.data, 1, Smaller(rxExpected - Len(rxBuffer), ContData))
           IN  /\ rxCid = host[c].cid /\ nextSeq = host[c].k - 1 /\ rxBuffer # <<>>
               /\ rxBuffer \in Seq(Bytes \cup {Byte(c, i) : i \in Nat})
               /\ body \in Seq(Bytes \cup {Byte(c, i) : i \in Nat})
               /\ Len(body) = IF Offset(nextSeq + 1) <= rxExpected THEN Offset(nextSeq + 1) ELSE rxExpected
               /\ \A i \in 1 .. Len(body) :
                     body[i] = IF i <= Len(rxBuffer) THEN rxBuffer[i] ELSE Byte(c, i)
<1> DEFINE k == host[c].k
           n == Smaller(rxExpected - Len(rxBuffer), ContData)
           p == HostPacket(c, k + 1)
           rest == SubSeq(p.data, 1, n)
           S == Bytes \cup {Byte(c, i) : i \in Nat}
           R == {Byte(c, Offset(k - 1) + i) : i \in 1 .. ContData}
<1>1. k \in Nat \ {0} /\ k - 1 \in Nat
  OBVIOUS
<1>2. rxBuffer # <<>> /\ p.cid = rxCid /\ p.seq = nextSeq
  BY DEF Expected
<1>3. Len(rxBuffer) = Offset(nextSeq) /\ Len(rxBuffer) < rxExpected /\ rxExpected \in Nat
  BY <1>2 DEF Framed, TypeOK
<1>4. Len(rxBuffer) \in Nat /\ nextSeq \in Nat
  BY LenProperties DEF TypeOK
<1>5. n \in 0 .. ContData /\ Len(rxBuffer) + n =
         IF Offset(nextSeq + 1) <= rxExpected THEN Offset(nextSeq + 1) ELSE rxExpected
  <2>1. Offset(nextSeq + 1) = Len(rxBuffer) + ContData
    BY <1>3, <1>4, OffsetIs
  <2>2. n = IF rxExpected - Len(rxBuffer) < ContData THEN rxExpected - Len(rxBuffer) ELSE ContData
    BY DEF Smaller
  <2> HIDE DEF n
  <2> QED
    BY <1>3, <1>4, <2>1, <2>2, SizesArePositive
<1>6. /\ p.cid = host[c].cid /\ p.seq = k - 1
      /\ Len(rest) = n
      /\ \A i \in 1 .. n : rest[i] = Byte(c, Offset(k - 1) + i)
      /\ rest \in Seq(R)
  <2> HIDE DEF k, n
  <2> QED
    BY <1>1, <1>5, NextPacketIs DEF p, rest, R
<1> HIDE DEF k, n, p, rest, R
<1>7. nextSeq = k - 1 /\ rxCid = host[c].cid
  BY <1>2, <1>6
<1>8. Offset(k - 1) = Len(rxBuffer)
  BY <1>3, <1>7
<1>9. rxBuffer \in Seq(S)
  <2>1. \A i \in 1 .. Len(rxBuffer) : rxBuffer[i] \in S
    BY ElementOfSeq DEF TypeOK
  <2> QED
    BY <2>1, SeqOfBytes DEF TypeOK
<1>10. rest \in Seq(S)
  <2>1. \A i \in 1 .. n : Offset(k - 1) + i \in Nat
    BY <1>4, <1>5, <1>8
  <2>2. \A i \in 1 .. Len(rest) : rest[i] \in S
    BY <1>6, <2>1
  <2> HIDE DEF S
  <2> QED
    BY <1>6, <2>2, SeqOfBytes
<1> HIDE DEF S
<1>11. /\ rxBuffer \o rest \in Seq(S)
       /\ Len(rxBuffer \o rest) = Len(rxBuffer) + Len(rest)
       /\ \A i \in 1 .. Len(rxBuffer) + Len(rest) :
             (rxBuffer \o rest)[i] = IF i <= Len(rxBuffer) THEN rxBuffer[i] ELSE rest[i - Len(rxBuffer)]
  BY <1>9, <1>10, ConcatProperties
<1>12. ASSUME NEW i \in 1 .. Len(rxBuffer) + n, ~ (i <= Len(rxBuffer))
       PROVE  rest[i - Len(rxBuffer)] = Byte(c, i)
  <2>1. i - Len(rxBuffer) \in 1 .. n /\ Offset(k - 1) + (i - Len(rxBuffer)) = i
    BY <1>4, <1>5, <1>8, <1>12
  <2> QED
    BY <1>6, <2>1
<1> QED
  BY <1>2, <1>5, <1>6, <1>7, <1>9, <1>11, <1>12 DEF k, n, p, rest, S

-----------------------------------------------------------------------------
(* What is sent.                                                            *)

LEMMA ChunksIs ==
    ASSUME NEW S, NEW body \in Seq(S)
    PROVE  Chunks(body) \in Nat
BY Rounded, LenProperties, SizesArePositive DEF Chunks

LEMMA MessageIs ==
    ASSUME NEW S, NEW body \in Seq(S), NEW cid, NEW cmd
    PROVE  /\ \E T : Message(cid, cmd, body) \in Seq(T)
           /\ Len(Message(cid, cmd, body)) = 1 + Chunks(body)
           /\ Message(cid, cmd, body)[1] =
                 [cid |-> cid, cmd |-> cmd, len |-> Len(body), data |-> Padded(body, 0, InitData)]
           /\ \A j \in 1 .. Chunks(body) : Message(cid, cmd, body)[1 + j] =
                 [cid |-> cid, seq |-> j - 1, data |-> Padded(body, ChunkStart(j - 1), ContData)]
<1> DEFINE first == [cid |-> cid, cmd |-> cmd, len |-> Len(body), data |-> Padded(body, 0, InitData)]
           next(j) == [cid |-> cid, seq |-> j - 1, data |-> Padded(body, ChunkStart(j - 1), ContData)]
           n == Chunks(body)
           T == {first} \cup {next(j) : j \in 1 .. n}
           f == [j \in 1 .. n |-> next(j)]
<1>1. n \in Nat
  BY ChunksIs
<1>2. Message(cid, cmd, body) = <<first>> \o f
  BY DEF Message
<1> HIDE DEF n, first, next
<1>3. <<first>> \in Seq(T) /\ Len(<<first>>) = 1 /\ <<first>>[1] = first
  OBVIOUS
<1>4. f \in Seq(T) /\ Len(f) = n /\ \A j \in 1 .. n : f[j] = next(j)
  <2>1. \A j \in 1 .. n : f[j] = next(j) /\ next(j) \in T
    OBVIOUS
  <2>2. f \in [1 .. n -> T]
    BY <2>1
  <2> QED
    BY <1>1, <2>1, <2>2
<1> HIDE DEF T, f
<1>5. /\ <<first>> \o f \in Seq(T)
      /\ Len(<<first>> \o f) = 1 + n
      /\ \A i \in 1 .. 1 + n : (<<first>> \o f)[i] = IF i <= 1 THEN <<first>>[i] ELSE f[i - 1]
  BY <1>3, <1>4, ConcatProperties
<1>6. (<<first>> \o f)[1] = first
  BY <1>1, <1>3, <1>5
<1>7. \A j \in 1 .. n : (<<first>> \o f)[1 + j] = next(j)
  <2> TAKE j \in 1 .. n
  <2>1. 1 + j \in 1 .. 1 + n /\ ~ (1 + j <= 1) /\ 1 + j - 1 = j
    BY <1>1
  <2> QED
    BY <1>4, <1>5, <2>1
<1>8. /\ \E U : Message(cid, cmd, body) \in Seq(U)
      /\ Len(Message(cid, cmd, body)) = 1 + n
      /\ Message(cid, cmd, body)[1] = first
      /\ \A j \in 1 .. n : Message(cid, cmd, body)[1 + j] = next(j)
  BY <1>2, <1>5, <1>6, <1>7
<1> QED
  BY <1>8, Zenon DEF n, first, next

(* An error is a packet.                                                    *)
LEMMA ErrorIs == \A cid : <<>> \o Error(cid) # <<>>
<1> TAKE cid
<1> DEFINE body == <<NoByte>>
<1>1. body \in Seq({NoByte})
  OBVIOUS
<1> HIDE DEF body
<1>2. PICK T : Message(cid, "error", body) \in Seq(T)
  BY <1>1, MessageIs
<1>3. Len(Message(cid, "error", body)) = 1 + Chunks(body)
  BY <1>1, MessageIs
<1>4. Chunks(body) \in Nat
  BY <1>1, ChunksIs
<1>5. <<>> \o Message(cid, "error", body) = Message(cid, "error", body)
  BY <1>2, ConcatEmptySeq
<1>6. Message(cid, "error", body) # <<>>
  BY <1>2, <1>3, <1>4, EmptySeq
<1> QED
  BY <1>5, <1>6 DEF Error, body

LEMMA SendIs ==
    ASSUME TypeOK, NEW c \in Clients, NEW keepalives, NEW packets, Send(c, keepalives, packets)
    PROVE  /\ cutOff' \in SUBSET Clients /\ refused' \in 0 .. MaxRefused
           /\ cutOff' = cutOff \/ cutOff' = cutOff \cup {c}
           /\ reply' = keepalives \o packets \/ c \in cutOff'
<1>1. refused \in 0 .. MaxRefused /\ cutOff \in SUBSET Clients
  BY DEF TypeOK
<1>2. CASE UNCHANGED sends /\ reply' = keepalives \o packets
  BY <1>1, <1>2 DEF sends
<1>3. CASE refused < MaxRefused /\ refused' = refused + 1 /\ cutOff' = cutOff \cup {c}
  BY <1>1, <1>3, LimitsAreNat
<1> QED
  BY <1>2, <1>3 DEF Send

-----------------------------------------------------------------------------
(* What a packet does, in the terms the invariant needs.                    *)

(* Its process was told of it, or did not take what it was told.            *)
Reacted(c) == reply' # <<>> \/ dispatched' # {} \/ c \in cutOff'

(* Reassembly is left alone, and is not one of the channel of c.            *)
Kept(c) == UNCHANGED rx /\ (rxBuffer = <<>> \/ rxCid # host[c].cid)

(* Reassembly began with the first packet of c.                             *)
Began(c) ==
    /\ host[c].k = 0 /\ host[c].cid # NoCid
    /\ InitData < host[c].len /\ host[c].len <= kMaxCtapMessageSize
    /\ rxCid' = host[c].cid /\ rxCmd' = host[c].cmd /\ rxExpected' = host[c].len /\ nextSeq' = 0
    /\ Len(rxBuffer') = InitData /\ \A i \in 1 .. InitData : rxBuffer'[i] = Byte(c, i)
    /\ rxBuffer' \in Seq({Byte(c, i) : i \in 1 .. InitData})

(* Reassembly went on with a packet of c.                                   *)
Grew(c) ==
    /\ host[c].k > 0 /\ rxBuffer # <<>> /\ rxCid = host[c].cid /\ nextSeq = host[c].k - 1
    /\ UNCHANGED <<rxCid, rxCmd, rxExpected>> /\ nextSeq' = nextSeq + 1
    /\ Len(rxBuffer') = Offset(nextSeq + 1) /\ Len(rxBuffer') < rxExpected
    /\ rxBuffer' \in Seq(Bytes \cup {Byte(c, i) : i \in Nat})
    /\ \A i \in 1 .. Len(rxBuffer') :
          rxBuffer'[i] = IF i <= Len(rxBuffer) THEN rxBuffer[i] ELSE Byte(c, i)

(* A message was completed.                                                 *)
Finished(c) ==
    \E body :
        /\ Dispatch(c, host[c].cid, IF host[c].k = 0 THEN host[c].cmd ELSE rxCmd, body)
        /\ body \in Seq(Bytes \cup {Byte(c, i) : i \in Nat})
        /\ \/ /\ host[c].k = 0 /\ Len(body) = host[c].len
              /\ \A i \in 1 .. Len(body) : body[i] = Byte(c, i)
           \/ /\ host[c].k > 0 /\ Len(body) = rxExpected /\ rxBuffer # <<>> /\ rxCid = host[c].cid
              /\ \A i \in 1 .. Len(body) :
                    body[i] = IF i <= Len(rxBuffer) THEN rxBuffer[i] ELSE Byte(c, i)

LEMMA RefuseIs ==
    ASSUME TypeOK, NEW c \in Clients, NEW packets, Refuse(c, packets)
    PROVE  /\ cutOff' \in SUBSET Clients /\ refused' \in 0 .. MaxRefused
           /\ cutOff' = cutOff \/ cutOff' = cutOff \cup {c}
           /\ reply' = <<>> \o packets \/ c \in cutOff'
           /\ dispatched' = {} /\ activeCid' = activeCid /\ canceled' = canceled
BY SendIs DEF Refuse

LEMMA DispatchIs ==
    ASSUME TypeOK, NEW c \in Clients, NEW cid, NEW cmd, NEW body, Dispatch(c, cid, cmd, body)
    PROVE  /\ cutOff' \in SUBSET Clients /\ refused' \in 0 .. MaxRefused
           /\ cutOff' = cutOff \/ cutOff' = cutOff \cup {c}
           /\ dispatched' = {[from |-> c, cid |-> cid, cmd |-> cmd, body |-> body]} /\ ResetRx
           /\ activeCid' = activeCid \/ activeCid' = kActiveCid
           /\ canceled' \in BOOLEAN
<1>1. PICK k \in Keepalives(cid, cmd) : Send(c, k, Answer(cid, cmd, body))
  BY DEF Dispatch
<1>2. canceled' \in BOOLEAN
  BY DEF Dispatch, TypeOK
<1> QED
  BY <1>1, <1>2, SendIs DEF Dispatch

(* The first packet of a message.                                           *)
LEMMA InitPacketIs ==
    ASSUME TypeOK, Framed, NEW c \in Clients, host[c].k = 0, InitPacket(c, HostPacket(c, 1))
    PROVE  /\ cutOff' \in SUBSET Clients /\ refused' \in 0 .. MaxRefused
           /\ cutOff' = cutOff \/ cutOff' = cutOff \cup {c}
           /\ activeCid' = activeCid \/ activeCid' = kActiveCid
           /\ canceled' \in BOOLEAN
           /\ \/ (Kept(c) \/ ResetRx) /\ Reacted(c) /\ dispatched' = {}
              \/ Began(c) /\ dispatched' = {}
              \/ Finished(c)
<1> DEFINE p == HostPacket(c, 1)
           body == SubSeq(p.data, 1, Smaller(p.len, InitData))
<1>0. host[c].len \in Nat /\ canceled \in BOOLEAN
  BY HostIs DEF TypeOK
<1>1. /\ p.cid = host[c].cid /\ p.cmd = host[c].cmd /\ p.len = host[c].len
      /\ Len(body) = Smaller(host[c].len, InitData)
      /\ \A i \in 1 .. Smaller(host[c].len, InitData) : body[i] = Byte(c, i)
      /\ body \in Seq({Byte(c, i) : i \in 1 .. InitData})
  BY <1>0, FirstPacketIs
<1>2. \/ \E cid : Refuse(c, Error(cid)) /\ (Kept(c) \/ ResetRx)
      \/ /\ p.cid # NoCid /\ ~TooLong(p.len)
         /\ IF Len(body) >= p.len
                 THEN Dispatch(c, p.cid, p.cmd, body)
                 ELSE /\ rxCid' = p.cid /\ rxCmd' = p.cmd /\ rxExpected' = p.len
                      /\ nextSeq' = 0 /\ rxBuffer' = body
                      /\ Refuse(c, <<>>)
  <2>1. /\ p.cid = NoCid => rxBuffer = <<>> \/ rxCid # host[c].cid
        /\ Receiving /\ p.cid # rxCid => rxBuffer = <<>> \/ rxCid # host[c].cid
    BY <1>1 DEF Framed
  <2> QED
    BY <2>1 DEF InitPacket, Busy, Kept
<1> HIDE DEF p, body
<1>3. ASSUME NEW cid, Refuse(c, Error(cid))
      PROVE  /\ cutOff' \in SUBSET Clients /\ refused' \in 0 .. MaxRefused
             /\ cutOff' = cutOff \/ cutOff' = cutOff \cup {c}
             /\ activeCid' = activeCid /\ canceled' = canceled
             /\ Reacted(c) /\ dispatched' = {}
  BY <1>3, RefuseIs, ErrorIs DEF Reacted
<1>4. CASE p.cid # NoCid /\ ~TooLong(p.len) /\ Len(body) >= p.len /\ Dispatch(c, p.cid, p.cmd, body)
  <2>1. Len(body) = host[c].len
    BY <1>0, <1>1, <1>4, SizesArePositive DEF Smaller
  <2>2. body \in Seq(Bytes \cup {Byte(c, i) : i \in Nat})
    <3>1. \A i \in 1 .. Len(body) : body[i] \in Bytes \cup {Byte(c, j) : j \in Nat}
      BY <1>0, <1>1, <2>1
    <3> QED
      BY <1>1, <3>1, SeqOfBytes
  <2>3. Finished(c)
    BY <1>1, <1>4, <2>1, <2>2 DEF Finished
  <2> QED
    BY <1>4, <2>3, DispatchIs
<1>5. CASE /\ p.cid # NoCid /\ ~TooLong(p.len) /\ ~ (Len(body) >= p.len)
           /\ rxCid' = p.cid /\ rxCmd' = p.cmd /\ rxExpected' = p.len
           /\ nextSeq' = 0 /\ rxBuffer' = body /\ Refuse(c, <<>>)
  <2>1. InitData < host[c].len /\ Len(body) = InitData
    BY <1>0, <1>1, <1>5, SizesArePositive DEF Smaller
  <2>2. host[c].len <= kMaxCtapMessageSize
    BY <1>0, <1>1, <1>5, LimitsAreNat DEF TooLong
  <2>3. Began(c)
    BY <1>1, <1>5, <2>1, <2>2 DEF Began
  <2> QED
    BY <1>0, <1>5, <2>3, RefuseIs
<1> QED
  BY <1>0, <1>2, <1>3, <1>4, <1>5

(* A packet after the first.                                                *)
LEMMA ContinuationPacketIs ==
    ASSUME TypeOK, Framed, NEW c \in Clients, host[c].k \in Nat \ {0},
           ContinuationPacket(c, HostPacket(c, host[c].k + 1))
    PROVE  /\ cutOff' \in SUBSET Clients /\ refused' \in 0 .. MaxRefused
           /\ cutOff' = cutOff \/ cutOff' = cutOff \cup {c}
           /\ activeCid' = activeCid \/ activeCid' = kActiveCid
           /\ canceled' \in BOOLEAN
           /\ \/ ResetRx /\ Reacted(c) /\ dispatched' = {}
              \/ Grew(c) /\ dispatched' = {}
              \/ Finished(c)
<1> DEFINE p == HostPacket(c, host[c].k + 1)
           body == rxBuffer \o SubSeq(p.data, 1, Smaller(rxExpected - Len(rxBuffer), ContData))
<1>0. canceled \in BOOLEAN /\ host[c].k > 0 /\ host[c].k # 0 /\ rxExpected \in Nat
  BY DEF TypeOK
<1>1. CASE ~Expected(p)
  <2>1. Refuse(c, Error(p.cid)) /\ ResetRx
    BY <1>1 DEF ContinuationPacket
  <2> HIDE DEF p
  <2>2. Reacted(c)
    BY <2>1, RefuseIs, ErrorIs DEF Reacted
  <2> QED
    BY <1>0, <2>1, <2>2, RefuseIs
<1>2. CASE Expected(p)
  <2>1. /\ rxCid = host[c].cid /\ nextSeq = host[c].k - 1 /\ rxBuffer # <<>>
        /\ rxBuffer \in Seq(Bytes \cup {Byte(c, i) : i \in Nat})
        /\ body \in Seq(Bytes \cup {Byte(c, i) : i \in Nat})
        /\ Len(body) = IF Offset(nextSeq + 1) <= rxExpected THEN Offset(nextSeq + 1) ELSE rxExpected
        /\ \A i \in 1 .. Len(body) : body[i] = IF i <= Len(rxBuffer) THEN rxBuffer[i] ELSE Byte(c, i)
    BY <1>2, JoinedIs
  <2>2. IF Len(body) >= rxExpected
            THEN Dispatch(c, rxCid, rxCmd, body)
            ELSE /\ rxBuffer' = body /\ nextSeq' = nextSeq + 1
                 /\ Refuse(c, <<>>)
                 /\ UNCHANGED <<rxCid, rxCmd, rxExpected>>
    BY <1>2 DEF ContinuationPacket
  <2>3. nextSeq + 1 \in Nat /\ Offset(nextSeq + 1) \in Nat
    BY OffsetIs DEF TypeOK
  <2> HIDE DEF body, p
  <2>4. CASE Len(body) >= rxExpected
    <3>1. Len(body) = rxExpected
      BY <1>0, <2>1, <2>3, <2>4
    <3>2. Finished(c)
      BY <1>0, <2>1, <2>2, <2>4, <3>1 DEF Finished
    <3> QED
      BY <2>2, <2>4, <3>2, DispatchIs
  <2>5. CASE ~ (Len(body) >= rxExpected)
    <3>1. Len(body) = Offset(nextSeq + 1) /\ Len(body) < rxExpected
      BY <1>0, <2>1, <2>3, <2>5
    <3>2. Grew(c)
      BY <1>0, <2>1, <2>2, <2>5, <3>1 DEF Grew
    <3> QED
      BY <1>0, <2>2, <2>5, <3>2, RefuseIs
  <2> QED
    BY <2>4, <2>5
<1> QED
  BY <1>1, <1>2

(* receivePacket()                                                          *)
LEMMA DeliverIs ==
    ASSUME TypeOK, Framed, NEW c \in Clients, Deliver(c)
    PROVE  /\ cutOff' \in SUBSET Clients /\ refused' \in 0 .. MaxRefused
           /\ cutOff' = cutOff \/ cutOff' = cutOff \cup {c}
           /\ activeCid' = activeCid \/ activeCid' = kActiveCid
           /\ canceled' \in BOOLEAN
           /\ \/ (Kept(c) \/ ResetRx) /\ Reacted(c) /\ dispatched' = {}
              \/ Began(c) /\ dispatched' = {}
              \/ Grew(c) /\ dispatched' = {}
              \/ Finished(c)
<1>1. host[c].k \in Nat
  BY HostIs
<1>2. CASE host[c].k = 0
  <2>1. InitPacket(c, HostPacket(c, 1))
    BY <1>2 DEF Deliver
  <2> QED
    BY <1>2, <2>1, InitPacketIs
<1>3. CASE host[c].k # 0
  <2>1. ContinuationPacket(c, HostPacket(c, host[c].k + 1))
    BY <1>3 DEF Deliver
  <2> QED
    BY <1>1, <1>3, <2>1, ContinuationPacketIs
<1> QED
  BY <1>2, <1>3

-----------------------------------------------------------------------------
(* The host's steps.                                                        *)

(* Sending a packet moves the process on and leaves its message alone.      *)
LEMMA SentIs ==
    ASSUME TypeOK, NEW c \in Clients, Sending(c), Sent(c)
    PROVE  /\ host' \in [Clients -> HostStates]
           /\ host'[c].k = host[c].k + 1
           /\ \A d \in Clients : d # c => host'[d] = host[d]
           /\ \A d \in Clients : /\ host'[d].n = host[d].n /\ host'[d].cid = host[d].cid
                                 /\ host'[d].cmd = host[d].cmd /\ host'[d].len = host[d].len
                                 /\ PacketCount(d)' = PacketCount(d)
                                 /\ host'[d].k <= PacketCount(d)
                                 /\ Body(d)' = Body(d) /\ HostPackets(d)' = HostPackets(d)
           /\ \A d \in Clients : \A i : Byte(d, i)' = Byte(d, i)
<1> DEFINE r == [n |-> host[c].n, cid |-> host[c].cid, cmd |-> host[c].cmd,
                 len |-> host[c].len, k |-> host[c].k + 1]
<1>1. host \in [Clients -> HostStates] /\ host[c] \in HostStates
  BY DEF TypeOK
<1>2. host' = [host EXCEPT ![c] = r] /\ r \in HostStates
  <2>1. [host[c] EXCEPT !.k = host[c].k + 1] = r
    BY <1>1 DEF HostStates
  <2>2. host' = [host EXCEPT ![c] = [host[c] EXCEPT !.k = host[c].k + 1]]
    BY DEF Sent
  <2>3. r \in HostStates
    BY <1>1 DEF HostStates
  <2> QED
    BY <2>1, <2>2, <2>3
<1>3. host'[c] = r /\ \A d \in Clients : d # c => host'[d] = host[d]
  BY <1>1, <1>2
<1>4. \A d \in Clients : /\ host'[d].n = host[d].n /\ host'[d].cid = host[d].cid
                         /\ host'[d].cmd = host[d].cmd /\ host'[d].len = host[d].len
  BY <1>3
<1>5. \A d \in Clients : \A i : Byte(d, i)' = Byte(d, i)
  BY <1>4 DEF Byte
<1>6. \A d \in Clients : PacketCount(d)' = PacketCount(d)
  BY <1>4 DEF PacketCount
<1>7. \A d \in Clients : Body(d)' = Body(d)
  BY <1>4, <1>5 DEF Body
<1>8. \A d \in Clients : \A k : HostPacket(d, k)' = HostPacket(d, k)
  BY <1>4, <1>5 DEF HostPacket
<1>9. \A d \in Clients : HostPackets(d)' = HostPackets(d)
  BY <1>6, <1>8 DEF HostPackets
<1>10. \A d \in Clients : host'[d].k <= PacketCount(d)
  <2> TAKE d \in Clients
  <2>1. host[d].k \in Nat /\ host[d].k <= PacketCount(d) /\ host[d].len \in Nat
    BY HostIs DEF TypeOK
  <2>2. PacketCount(d) \in Nat
    BY <2>1, PacketCountIs
  <2>3. CASE d = c
    BY <1>3, <2>1, <2>2, <2>3 DEF Sending
  <2>4. CASE d # c
    BY <1>3, <2>1, <2>4
  <2> QED
    BY <2>3, <2>4
<1> HIDE DEF r
<1>11. host'[c].k = host[c].k + 1
  BY <1>3 DEF r
<1> QED
  BY <1>1, <1>2, <1>3, <1>4, <1>5, <1>6, <1>7, <1>9, <1>10, <1>11

(* Another process' message is not touched by the start of one.             *)
LEMMA StartIs ==
    ASSUME TypeOK, NEW c \in Clients, NEW cid \in Cids(c), NEW req \in Requests, Start(c, cid, req)
    PROVE  /\ host' \in [Clients -> HostStates]
           /\ host'[c].n > 0 /\ host'[c].cid \in Cids(c) /\ host'[c].k = 0
           /\ \A d \in Clients : d # c => host'[d] = host[d]
           /\ \A d \in Clients : host'[d].k <= PacketCount(d)'
<1> DEFINE r == [n |-> host[c].n + 1, cid |-> cid, cmd |-> req.cmd, len |-> req.len, k |-> 0]
<1>1. host \in [Clients -> HostStates] /\ host[c].n \in 0 .. MaxMessages
  BY HostIs DEF TypeOK
<1>2. req.cmd \in Commands /\ req.len \in Nat
  BY RequestsAreMessages
<1>3. r \in HostStates
  <2>1. cid \in AllCids
    BY DEF AllCids
  <2>2. host[c].n + 1 \in 0 .. MaxMessages
    BY <1>1, LimitsAreNat DEF Start
  <2> QED
    BY <1>2, <2>1, <2>2 DEF HostStates
<1>4. host' = [host EXCEPT ![c] = r]
  BY DEF Start
<1>5. host'[c] = r /\ \A d \in Clients : d # c => host'[d] = host[d]
  BY <1>1, <1>4
<1>6. ASSUME NEW d \in Clients PROVE host'[d].k <= PacketCount(d)'
  <2>1. CASE d = c
    <3>1. host'[d].k = 0 /\ host'[d].len \in Nat
      BY <1>2, <1>5, <2>1
    <3>2. PacketCount(d)' \in Nat
      <4>1. CASE host'[d].len <= InitData
        BY <4>1 DEF PacketCount
      <4>2. CASE ~ (host'[d].len <= InitData)
        BY <3>1, <4>2, Rounded, SizesArePositive DEF PacketCount
      <4> QED
        BY <4>1, <4>2
    <3> QED
      BY <3>1, <3>2
  <2>2. CASE d # c
    <3>1. PacketCount(d)' = PacketCount(d)
      BY <1>5, <2>2 DEF PacketCount
    <3> QED
      BY <1>5, <2>2, <3>1 DEF TypeOK
  <2> QED
    BY <2>1, <2>2
<1> QED
  BY <1>1, <1>3, <1>4, <1>5, <1>6

-----------------------------------------------------------------------------
(* Types, and the place and the channel of every byte.                      *)

\* The part of TypeInv that is about reassembly.
Reassembly ==
    /\ rxCid \in AllCids /\ rxCmd \in Commands
    /\ rxExpected \in 0 .. kMaxCtapMessageSize
    /\ rxBuffer \in Seq(Bytes) /\ Len(rxBuffer) <= rxExpected
    /\ nextSeq \in 0 .. kMaxCtapMessageSize
    /\ Framed /\ Placed

LEMMA ByteAt ==
    ASSUME NEW c \in Clients, NEW i, Byte(c, i) # NoByte
    PROVE  Byte(c, i)[1] = c /\ Byte(c, i)[3] = i
BY DEF Byte

LEMMA ByteIs ==
    ASSUME TypeOK, NEW c \in Clients, host[c].n > 0, NEW i \in 1 .. kMaxCtapMessageSize
    PROVE  /\ Byte(c, i) \in Bytes
           /\ Byte(c, i) # NoByte => Byte(c, i)[1] = c /\ Byte(c, i)[3] = i
<1>1. host[c].n \in 1 .. MaxMessages
  BY HostIs, LimitsAreNat
<1>2. <<c, host[c].n, i>> \in Clients \X (1 .. MaxMessages) \X (1 .. kMaxCtapMessageSize)
  BY <1>1
<1>3. <<c, host[c].n, i>>[1] = c /\ <<c, host[c].n, i>>[3] = i
  OBVIOUS
<1> QED
  BY <1>2, <1>3 DEF Byte, Bytes

LEMMA FixedCids == NoCid \in AllCids /\ kActiveCid \in AllCids
BY DEF AllCids

LEMMA NothingReassembled ==
    ASSUME ResetRx
    PROVE  Reassembly'
<1>1. /\ rxCid' \in AllCids /\ rxCmd' \in Commands /\ rxExpected' = 0 /\ nextSeq' = 0
      /\ rxBuffer' = <<>>
  BY FixedCids DEF ResetRx, Commands
<1>2. rxBuffer' \in Seq(Bytes) /\ Len(rxBuffer') = 0 /\ DOMAIN rxBuffer' = {}
  BY <1>1
<1>3. Framed' /\ Placed'
  BY <1>1, <1>2 DEF Framed, Placed, InPlace
<1> QED
  BY <1>1, <1>2, <1>3, LimitsAreNat DEF Reassembly

LEMMA BeganReassembly ==
    ASSUME TypeInv, NEW c \in Clients, host[c].n > 0, Began(c)
    PROVE  Reassembly'
<1>1. TypeOK /\ host[c].cid \in Cids(c) /\ host[c].cid \in AllCids /\ host[c].cmd \in Commands
  BY HostIs DEF TypeInv, OnOwnCid
<1>2. host[c].len \in Nat
  BY <1>1, HostIs
<1>3. rxExpected' \in 0 .. kMaxCtapMessageSize /\ InitData < rxExpected' /\ nextSeq' = 0
  BY <1>2, LimitsAreNat DEF Began
<1>4. /\ \A i \in 1 .. InitData : Byte(c, i) \in Bytes
      /\ \A i \in 1 .. InitData : Byte(c, i) # NoByte => Byte(c, i)[1] = c /\ Byte(c, i)[3] = i
  <2> SUFFICES ASSUME NEW i \in 1 .. InitData
               PROVE  /\ Byte(c, i) \in Bytes
                      /\ Byte(c, i) # NoByte => Byte(c, i)[1] = c /\ Byte(c, i)[3] = i
    OBVIOUS
  <2>1. i \in 1 .. kMaxCtapMessageSize
    BY <1>3, SizesArePositive, LimitsAreNat
  <2> QED
    BY <1>1, <2>1, ByteIs
<1>5. Len(rxBuffer') = InitData /\ \A i \in 1 .. InitData : rxBuffer'[i] = Byte(c, i)
  BY DEF Began
<1>6. rxBuffer' \in Seq(Bytes)
  BY <1>4, <1>5, SeqOfBytes DEF Began
<1>7. DOMAIN rxBuffer' = 1 .. InitData
  BY <1>5, <1>6
<1>8. Framed'
  BY <1>3, <1>5, OffsetIs DEF Framed, Began, Offset
<1>9. Placed'
  BY <1>1, <1>4, <1>5, <1>7 DEF Placed, InPlace, Began
<1> QED
  BY <1>1, <1>3, <1>5, <1>6, <1>8, <1>9, SizesArePositive, LimitsAreNat DEF Reassembly, Began

LEMMA GrewReassembly ==
    ASSUME TypeInv, NEW c \in Clients, host[c].n > 0, Grew(c)
    PROVE  Reassembly'
<1>1. TypeOK /\ host[c].cid \in Cids(c) /\ rxCid' = host[c].cid
  BY DEF TypeInv, OnOwnCid, Grew
<1>2. rxExpected' = rxExpected /\ rxExpected \in 0 .. kMaxCtapMessageSize /\ nextSeq \in Nat
  BY <1>1 DEF TypeOK, Grew
<1>3. Len(rxBuffer') = Offset(nextSeq') /\ Len(rxBuffer') < rxExpected' /\ nextSeq' = nextSeq + 1
  BY DEF Grew
<1>4. Len(rxBuffer') \in Nat /\ nextSeq' <= Len(rxBuffer')
  <2>1. nextSeq' \in Nat
    BY <1>2, <1>3
  <2> QED
    BY <1>3, <2>1, OffsetIs
<1>5. \A i \in 1 .. Len(rxBuffer) : i \in DOMAIN rxBuffer /\ rxBuffer[i] \in Bytes
  BY <1>1, ElementOfSeq DEF TypeOK
<1>6. \A i \in 1 .. Len(rxBuffer') :
         /\ rxBuffer'[i] \in Bytes
         /\ rxBuffer'[i] # NoByte => rxBuffer'[i][3] = i /\ rxCid' \in Cids(rxBuffer'[i][1])
  <2> SUFFICES ASSUME NEW i \in 1 .. Len(rxBuffer')
               PROVE  /\ rxBuffer'[i] \in Bytes
                      /\ rxBuffer'[i] # NoByte => rxBuffer'[i][3] = i /\ rxCid' \in Cids(rxBuffer'[i][1])
    OBVIOUS
  <2>1. rxBuffer'[i] = IF i <= Len(rxBuffer) THEN rxBuffer[i] ELSE Byte(c, i)
    BY DEF Grew
  <2>2. i \in 1 .. kMaxCtapMessageSize
    BY <1>2, <1>3, <1>4, LimitsAreNat
  <2>3. CASE i <= Len(rxBuffer)
    <3>1. i \in 1 .. Len(rxBuffer) /\ rxBuffer'[i] = rxBuffer[i]
      BY <2>1, <2>3, <1>4
    <3>2. rxBuffer[i] \in Bytes /\ i \in DOMAIN rxBuffer
      BY <1>5, <3>1
    <3> QED
      BY <3>1, <3>2 DEF TypeInv, Placed, InPlace, Grew
  <2>4. CASE ~ (i <= Len(rxBuffer))
    BY <1>1, <2>1, <2>2, <2>4, ByteIs
  <2> QED
    BY <2>3, <2>4
<1>7. rxBuffer' \in Seq(Bytes)
  BY <1>6, SeqOfBytes DEF Grew
<1>8. DOMAIN rxBuffer' = 1 .. Len(rxBuffer')
  BY <1>7
<1>9. Placed'
  BY <1>6, <1>8 DEF Placed, InPlace
<1>10. Framed'
  BY <1>3 DEF TypeInv, Framed, Grew, Offset
<1>11. rxCid' \in AllCids /\ rxCmd' \in Commands /\ nextSeq' \in 0 .. kMaxCtapMessageSize /\ Len(rxBuffer') <= rxExpected'
  BY <1>1, <1>2, <1>3, <1>4, LimitsAreNat DEF Grew, TypeOK
<1> QED
  BY <1>2, <1>7, <1>9, <1>10, <1>11 DEF Reassembly

LEMMA SameReassembly ==
    ASSUME TypeInv, UNCHANGED rx
    PROVE  Reassembly'
BY DEF TypeInv, TypeOK, rx, Reassembly, Framed, Placed, InPlace, Offset

(* What is dispatched was received, or is in the packet that completed it.  *)
LEMMA FinishedInPlace ==
    ASSUME TypeInv, NEW c \in Clients, host[c].n > 0, Finished(c)
    PROVE  Passed'
<1> DEFINE S == Bytes \cup {Byte(c, i) : i \in Nat}
           cmd == IF host[c].k = 0 THEN host[c].cmd ELSE rxCmd
<1>1. TypeOK /\ host[c].cid \in Cids(c) /\ Len(rxBuffer) \in Nat /\ DOMAIN rxBuffer = 1 .. Len(rxBuffer)
  BY LenProperties DEF TypeInv, TypeOK, OnOwnCid
<1>2. PICK body \in Seq(S) :
        /\ dispatched' = {[from |-> c, cid |-> host[c].cid, cmd |-> cmd, body |-> body]}
        /\ \/ \A i \in 1 .. Len(body) : body[i] = Byte(c, i)
           \/ /\ rxCid = host[c].cid
              /\ \A i \in 1 .. Len(body) :
                    body[i] = IF i <= Len(rxBuffer) THEN rxBuffer[i] ELSE Byte(c, i)
  BY DEF Finished, Dispatch
<1> HIDE DEF S, cmd
<1>3. DOMAIN body = 1 .. Len(body)
  BY LenProperties
<1>4. ASSUME NEW i \in 1 .. Len(body), body[i] # NoByte
      PROVE  body[i][3] = i /\ host[c].cid \in Cids(body[i][1])
  <2>1. CASE body[i] = Byte(c, i)
    BY <1>1, <1>4, <2>1, ByteAt
  <2>2. CASE rxCid = host[c].cid /\ i <= Len(rxBuffer) /\ body[i] = rxBuffer[i]
    <3>1. i \in DOMAIN rxBuffer
      BY <1>1, <2>2
    <3> QED
      BY <1>4, <2>2, <3>1 DEF TypeInv, Placed, InPlace
  <2> QED
    BY <1>2, <2>1, <2>2
<1>5. InPlace(body, host[c].cid)
  BY <1>3, <1>4 DEF InPlace
<1> QED
  BY <1>2, <1>5 DEF Passed

LEMMA InitTypeInv == Init => TypeInv
<1> SUFFICES ASSUME Init PROVE TypeInv
  OBVIOUS
<1>1. rxBuffer = <<>> /\ rxBuffer \in Seq(Bytes) /\ Len(rxBuffer) = 0 /\ DOMAIN rxBuffer = {}
  BY DEF Init
<1>2. host \in [Clients -> HostStates]
  BY FixedCids, LimitsAreNat DEF Init, HostStates, Commands
<1>3. \A c \in Clients : host[c].k = 0 /\ host[c].n = 0 /\ host[c].len = 0
  BY DEF Init
<1>4. \A c \in Clients : host[c].k <= PacketCount(c)
  BY <1>3, SizesArePositive DEF PacketCount
<1>5. TypeOK
  <2>1. rxCid \in AllCids /\ activeCid \in AllCids /\ rxCmd \in Commands
    BY FixedCids DEF Init, Commands
  <2>2. rxExpected = 0 /\ nextSeq = 0 /\ lost = 0 /\ refused = 0 /\ canceled \in BOOLEAN
    BY DEF Init
  <2>3. lossy \in SUBSET Clients /\ headless \in SUBSET Clients /\ told \in SUBSET Clients /\ cutOff \in SUBSET Clients
    BY DEF Init
  <2> QED
    BY <1>1, <1>2, <1>4, <2>1, <2>2, <2>3, LimitsAreNat DEF TypeOK
<1> QED
  BY <1>1, <1>3, <1>5 DEF Init, TypeInv, Framed, Placed, InPlace, OnOwnCid, Passed

LEMMA DeliverTypeInv ==
    ASSUME TypeInv, NEW c \in Clients, Deliver(c)
    PROVE  TypeInv'
<1>1. TypeOK /\ Framed /\ OnOwnCid /\ Sending(c) /\ Sent(c) /\ host[c].n > 0
  BY DEF TypeInv, Deliver, Sending
<1>2. /\ cutOff' \in SUBSET Clients /\ refused' \in 0 .. MaxRefused
      /\ activeCid' = activeCid \/ activeCid' = kActiveCid
      /\ canceled' \in BOOLEAN
      /\ UNCHANGED rx \/ ResetRx \/ Began(c) \/ Grew(c) \/ Finished(c)
      /\ dispatched' = {} \/ Finished(c)
  BY <1>1, DeliverIs DEF Kept
<1>3. Finished(c) => ResetRx
  BY DEF Finished, Dispatch
<1>4. Reassembly'
  BY <1>1, <1>2, <1>3, NothingReassembled, BeganReassembly, GrewReassembly, SameReassembly
<1>5. /\ host' \in [Clients -> HostStates]
      /\ \A d \in Clients : /\ host'[d].n = host[d].n /\ host'[d].cid = host[d].cid
                            /\ PacketCount(d)' = PacketCount(d) /\ host'[d].k <= PacketCount(d)
  BY <1>1, SentIs
<1>6. OnOwnCid'
  BY <1>1, <1>5 DEF OnOwnCid
<1>7. told' \in SUBSET Clients /\ lossy' \in SUBSET Clients /\ headless' \in SUBSET Clients /\ lost' \in 0 .. MaxLost
  BY <1>1 DEF Deliver, TypeOK
<1>8. activeCid' \in AllCids
  BY <1>1, <1>2, FixedCids DEF TypeOK
<1>9. TypeOK'
  BY <1>2, <1>4, <1>5, <1>7, <1>8 DEF TypeOK, Reassembly
<1>10. Passed'
  BY <1>1, <1>2, FinishedInPlace DEF Passed
<1> QED
  BY <1>4, <1>6, <1>9, <1>10 DEF TypeInv, Reassembly

LEMMA StepTypeInv == TypeInv /\ [Next]_vars => TypeInv'
<1> SUFFICES ASSUME TypeInv, [Next]_vars PROVE TypeInv'
  OBVIOUS
<1>0. TypeOK /\ OnOwnCid
  BY DEF TypeInv
<1>1. ASSUME NEW c \in Clients, NEW cid \in Cids(c), NEW req \in Requests, Start(c, cid, req)
      PROVE  TypeInv'
  <2>1. /\ host' \in [Clients -> HostStates]
        /\ host'[c].n > 0 /\ host'[c].cid \in Cids(c) /\ host'[c].k = 0
        /\ \A d \in Clients : d # c => host'[d] = host[d]
        /\ \A d \in Clients : host'[d].k <= PacketCount(d)'
    BY <1>0, <1>1, StartIs
  <2>2. /\ UNCHANGED <<rx, activeCid, canceled, lost, refused>>
        /\ lossy' \in SUBSET Clients /\ headless' \in SUBSET Clients
        /\ told' \in SUBSET Clients /\ cutOff' \in SUBSET Clients /\ Passed'
    BY <1>0, <1>1 DEF Start, TypeOK, Passed
  <2>3. Reassembly'
    BY <2>2, SameReassembly
  <2>4. OnOwnCid'
    BY <1>0, <2>1 DEF OnOwnCid
  <2>5. TypeOK'
    BY <1>0, <2>1, <2>2, <2>3 DEF TypeOK, Reassembly
  <2> QED
    BY <2>2, <2>3, <2>4, <2>5 DEF TypeInv, Reassembly
<1>2. ASSUME NEW c \in Clients, Lose(c)
      PROVE  TypeInv'
  <2>1. /\ host' \in [Clients -> HostStates]
        /\ \A d \in Clients : /\ host'[d].n = host[d].n /\ host'[d].cid = host[d].cid
                              /\ PacketCount(d)' = PacketCount(d) /\ host'[d].k <= PacketCount(d)
    BY <1>0, <1>2, SentIs DEF Lose
  <2>2. /\ UNCHANGED <<rx, activeCid, canceled, told, cutOff, refused>>
        /\ lossy' \in SUBSET Clients /\ headless' \in SUBSET Clients /\ lost' \in 0 .. MaxLost /\ Passed'
    BY <1>0, <1>2, LimitsAreNat DEF Lose, TypeOK, sends, Passed
  <2>3. Reassembly'
    BY <2>2, SameReassembly
  <2>4. OnOwnCid'
    BY <1>0, <2>1 DEF OnOwnCid
  <2>5. TypeOK'
    BY <1>0, <2>1, <2>2, <2>3 DEF TypeOK, Reassembly
  <2> QED
    BY <2>2, <2>3, <2>4, <2>5 DEF TypeInv, Reassembly
<1>3. CASE UNCHANGED vars
  BY <1>3 DEF vars, TypeInv, TypeOK, Framed, Placed, InPlace, OnOwnCid, Passed, Offset, PacketCount
<1> QED
  BY <1>1, <1>2, <1>3, DeliverTypeInv DEF Next

LEMMA AlwaysTypeInv == Spec => []TypeInv
BY InitTypeInv, StepTypeInv, PTL DEF Spec

(* Types, and the limits that keep every copy inside rxBuffer_: what is     *)
(* received never exceeds what was announced, nor that the buffer.          *)
THEOREM HidTypeOK == Spec => []TypeOK
<1>1. TypeInv => TypeOK
  BY DEF TypeInv
<1> QED
  BY <1>1, AlwaysTypeInv, PTL

(* Whoever shares a channel, and whatever is lost or given up, no byte of   *)
(* one channel gets into a message of another, and each stays at the        *)
(* position it had in its message.                                          *)
THEOREM HidBytesStayInPlace == Spec => []BytesStayInPlace
<1>1. TypeInv => BytesStayInPlace
  BY DEF TypeInv, Placed, Passed, BytesStayInPlace
<1> QED
  BY <1>1, AlwaysTypeInv, PTL

-----------------------------------------------------------------------------
(* With channels of its own, nobody else's packets get into the message of  *)
(* a process.                                                               *)

LEMMA OthersKeepOff ==
    ASSUME OwnChannels, OnOwnCid, NEW c \in Clients, NEW d \in Clients, c # d,
           host[c].n > 0, host[d].n > 0, host[c].cid # NoCid
    PROVE  host[c].cid # host[d].cid
<1>1. host[c].cid \in Cids(c) /\ host[d].cid \in Cids(d)
  BY DEF OnOwnCid
<1> QED
  BY <1>1 DEF OwnChannels

(* Mine(c) says the same of c before and after a step of the others.        *)
LEMMA MineStays ==
    ASSUME UNCHANGED rx, NEW c, host'[c] = host[c]
    PROVE  Mine(c)' <=> Mine(c)
BY DEF rx, Mine, Byte

LEMMA DeliverCurrent ==
    ASSUME OwnChannels, IInv, NEW c \in Clients, Deliver(c)
    PROVE  Current'
<1>1. TypeInv /\ TypeOK /\ Framed /\ OnOwnCid /\ Sending(c) /\ Sent(c) /\ host[c].n > 0 /\ headless' = headless
  BY DEF IInv, TypeInv, Deliver, Sending
<1>2. /\ host'[c].k = host[c].k + 1 /\ host[c].k \in Nat
      /\ \A d \in Clients : d # c => host'[d] = host[d]
      /\ \A d \in Clients : /\ host'[d].n = host[d].n /\ host'[d].cid = host[d].cid
                            /\ host'[d].cmd = host[d].cmd /\ host'[d].len = host[d].len
      /\ \A d \in Clients : \A i : Byte(d, i)' = Byte(d, i)
  BY <1>1, SentIs, HostIs
<1>3. Kept(c) \/ ResetRx \/ Began(c) \/ Grew(c)
  BY <1>1, DeliverIs DEF Finished, Dispatch
<1>4. TypeInv'
  BY <1>1, DeliverTypeInv
<1> SUFFICES ASSUME NEW d \in Clients, host'[d].n > 0, host'[d].k > 0, d \notin headless'
             PROVE  rxBuffer' = <<>> \/ rxCid' # host'[d].cid \/ Mine(d)'
  BY DEF Current
<1>5. CASE ResetRx
  BY <1>5 DEF ResetRx
<1>6. CASE Kept(c)
  <2>1. CASE d = c
    BY <1>2, <1>6, <2>1 DEF Kept, rx
  <2>2. CASE d # c
    <3>1. host'[d] = host[d] /\ UNCHANGED rx
      BY <1>2, <1>6, <2>2 DEF Kept
    <3>2. rxBuffer = <<>> \/ rxCid # host[d].cid \/ Mine(d)
      BY <1>1, <3>1 DEF IInv, Current
    <3> QED
      BY <3>1, <3>2, MineStays DEF rx
  <2> QED
    BY <2>1, <2>2
<1>7. ASSUME d # c, Began(c) \/ Grew(c)
      PROVE  rxBuffer' = <<>> \/ rxCid' # host'[d].cid
  <2>1. rxCid' = host[c].cid
    BY <1>7 DEF Began, Grew
  <2>2. rxBuffer' # <<>> => host[c].cid # NoCid
    BY <1>4, <2>1 DEF TypeInv, Framed
  <2> QED
    BY <1>1, <1>2, <1>7, <2>1, <2>2, OthersKeepOff
<1>8. CASE d = c /\ Began(c)
  <2>1. rxBuffer' \in Seq(Bytes) /\ DOMAIN rxBuffer' = 1 .. InitData
    BY <1>4, <1>8 DEF TypeInv, TypeOK, Began
  <2>2. \A i \in DOMAIN rxBuffer' : rxBuffer'[i] = Byte(c, i)'
    BY <1>2, <1>8, <2>1 DEF Began
  <2>3. rxCid' = host'[c].cid /\ rxCmd' = host'[c].cmd /\ rxExpected' = host'[c].len
    BY <1>2, <1>8 DEF Began
  <2> QED
    BY <1>8, <2>2, <2>3 DEF Mine
<1>9. CASE d = c /\ Grew(c)
  <2>1. Mine(c)
    BY <1>1, <1>2, <1>9 DEF Grew, IInv, Current
  <2>2. rxBuffer' \in Seq(Bytes) /\ DOMAIN rxBuffer' = 1 .. Len(rxBuffer')
    BY <1>4 DEF TypeInv, TypeOK
  <2>3. rxBuffer \in Seq(Bytes) /\ DOMAIN rxBuffer = 1 .. Len(rxBuffer)
    BY <1>1 DEF TypeOK
  <2>4. Len(rxBuffer) \in Nat /\ Len(rxBuffer') \in Nat
    BY <2>2, <2>3, LenProperties
  <2>5. \A i \in DOMAIN rxBuffer' : rxBuffer'[i] = Byte(c, i)
    <3> TAKE i \in DOMAIN rxBuffer'
    <3>1. rxBuffer'[i] = IF i <= Len(rxBuffer) THEN rxBuffer[i] ELSE Byte(c, i)
      BY <1>9, <2>2 DEF Grew
    <3>2. i <= Len(rxBuffer) => i \in DOMAIN rxBuffer
      BY <2>2, <2>3, <2>4
    <3> QED
      BY <2>1, <3>1, <3>2 DEF Mine
  <2>6. \A i \in DOMAIN rxBuffer' : rxBuffer'[i] = Byte(c, i)'
    BY <1>2, <2>5
  <2>7. rxCid' = host'[c].cid /\ rxCmd' = host'[c].cmd /\ rxExpected' = host'[c].len
    BY <1>2, <1>9, <2>1 DEF Grew, Mine
  <2> QED
    BY <1>9, <2>6, <2>7 DEF Mine
<1> QED
  BY <1>3, <1>5, <1>6, <1>7, <1>8, <1>9

LEMMA DeliverWaiting ==
    ASSUME IInv, NEW c \in Clients, Deliver(c)
    PROVE  Waiting'
<1>1. TypeInv /\ TypeOK /\ Framed /\ Sending(c) /\ Sent(c) /\ host[c].n > 0 /\ lossy' = lossy
  BY DEF IInv, TypeInv, Deliver, Sending
<1>2. /\ host'[c].k = host[c].k + 1 /\ host[c].k \in Nat /\ host[c].len \in Nat
      /\ \A d \in Clients : d # c => host'[d] = host[d]
      /\ \A d \in Clients : PacketCount(d)' = PacketCount(d)
  BY <1>1, SentIs, HostIs
<1>3. /\ cutOff' = cutOff \/ cutOff' = cutOff \cup {c}
      /\ \/ Reacted(c)
         \/ Began(c)
         \/ Grew(c)
         \/ Finished(c)
  BY <1>1, DeliverIs
<1>4. told' = IF reply' # <<>> \/ dispatched' # {} THEN told \cup {c} ELSE told
  BY DEF Deliver
<1>5. Finished(c) => Reacted(c)
  BY DEF Finished, Dispatch, Reacted
<1>6. Reacted(c) => c \in told' \cup cutOff'
  BY <1>4 DEF Reacted
<1> SUFFICES ASSUME NEW d \in Clients, host'[d].n > 0, host'[d].k > 0, d \notin lossy' \cup cutOff' \cup told'
             PROVE  host'[d].k < PacketCount(d)'
  BY DEF Waiting
<1>7. CASE d # c
  <2>1. d \notin lossy \cup cutOff \cup told
    BY <1>1, <1>3, <1>4, <1>7
  <2> QED
    BY <1>2, <1>7, <2>1 DEF IInv, Waiting
<1>8. CASE d = c /\ Began(c)
  BY <1>2, <1>8, PacketCountIs DEF Began
<1>9. CASE d = c /\ Grew(c)
  <2>1. Mine(c)
    BY <1>1, <1>2, <1>9 DEF Grew, IInv, Headless, Current
  <2>2. nextSeq + 1 \in Nat /\ Offset(nextSeq + 1) < host[c].len /\ nextSeq + 1 = host[c].k
    BY <1>1, <1>2, <1>9, <2>1 DEF Grew, Mine, TypeOK
  <2>3. host[c].k + 1 < PacketCount(c)
    BY <1>2, <2>2, PacketCountIs
  <2> QED
    BY <1>2, <1>9, <2>3
<1> QED
  BY <1>3, <1>5, <1>6, <1>7, <1>8, <1>9

LEMMA InitIInv == Init => IInv
<1> SUFFICES ASSUME Init PROVE IInv
  OBVIOUS
<1>1. TypeInv
  BY InitTypeInv
<1>2. \A c \in Clients : host[c].n = 0
  BY DEF Init
<1> QED
  BY <1>1, <1>2 DEF Init, IInv, Headless, Current, Waiting

LEMMA StepIInv == ASSUME OwnChannels PROVE IInv /\ [Next]_vars => IInv'
<1> SUFFICES ASSUME IInv, [Next]_vars PROVE Current' /\ Waiting'
  <2>1. IInv /\ [Next]_vars => Headless'
    BY DEF IInv, Headless, Next, Start, Deliver, Lose, vars
  <2> QED
    BY <2>1, StepTypeInv DEF IInv
<1>0. TypeInv /\ TypeOK
  BY DEF IInv, TypeInv
<1>1. ASSUME NEW c \in Clients, NEW cid \in Cids(c), NEW req \in Requests, Start(c, cid, req)
      PROVE  Current' /\ Waiting'
  <2>1. /\ host'[c].k = 0
        /\ \A d \in Clients : d # c => host'[d] = host[d]
    BY <1>0, <1>1, StartIs
  <2>2. UNCHANGED rx /\ lossy' = lossy \ {c} /\ headless' = headless \ {c} /\ told' = told \ {c} /\ cutOff' = cutOff \ {c}
    BY <1>1 DEF Start
  <2> SUFFICES ASSUME NEW d \in Clients, host'[d].n > 0, host'[d].k > 0
               PROVE  /\ d \notin headless' => rxBuffer' = <<>> \/ rxCid' # host'[d].cid \/ Mine(d)'
                      /\ d \notin lossy' \cup cutOff' \cup told' => host'[d].k < PacketCount(d)'
    BY DEF Current, Waiting
  <2>3. d # c /\ host'[d] = host[d]
    BY <2>1
  <2>4. PacketCount(d)' = PacketCount(d) /\ (Mine(d)' <=> Mine(d)) /\ rxBuffer' = rxBuffer /\ rxCid' = rxCid
    BY <2>2, <2>3, MineStays DEF PacketCount, rx
  <2> QED
    BY <2>2, <2>3, <2>4 DEF IInv, Current, Waiting
<1>2. ASSUME NEW c \in Clients, Lose(c)
      PROVE  Current' /\ Waiting'
  <2>1. \A d \in Clients : d # c => host'[d] = host[d]
    BY <1>0, <1>2, SentIs DEF Lose
  <2>2. /\ UNCHANGED rx /\ lossy' = lossy \cup {c} /\ told' = told /\ cutOff' = cutOff
        /\ headless' = IF host[c].k = 0 THEN headless \cup {c} ELSE headless
    BY <1>2 DEF Lose, sends
  <2> SUFFICES ASSUME NEW d \in Clients, host'[d].n > 0, host'[d].k > 0
               PROVE  /\ d \notin headless' => rxBuffer' = <<>> \/ rxCid' # host'[d].cid \/ Mine(d)'
                      /\ d \notin lossy' \cup cutOff' \cup told' => host'[d].k < PacketCount(d)'
    BY DEF Current, Waiting
  <2>3. CASE d = c
    <3>1. /\ host'[c].n = host[c].n /\ host'[c].cid = host[c].cid /\ host'[c].cmd = host[c].cmd
          /\ host'[c].len = host[c].len /\ host[c].k \in Nat /\ \A i : Byte(c, i)' = Byte(c, i)
      BY <1>0, <1>2, SentIs, HostIs DEF Lose
    <3>2. Mine(c)' <=> Mine(c)
      BY <2>2, <3>1 DEF Mine, rx
    <3>3. c \notin headless' => host[c].k > 0 /\ c \notin headless
      BY <2>2, <3>1
    <3> QED
      BY <2>2, <2>3, <3>1, <3>2, <3>3 DEF IInv, Current, rx
  <2>4. CASE d # c
    <3>1. host'[d] = host[d]
      BY <2>1, <2>4
    <3>2. PacketCount(d)' = PacketCount(d) /\ (Mine(d)' <=> Mine(d)) /\ rxBuffer' = rxBuffer /\ rxCid' = rxCid
      BY <2>2, <3>1, MineStays DEF PacketCount, rx
    <3> QED
      BY <2>2, <2>4, <3>1, <3>2 DEF IInv, Current, Waiting
  <2> QED
    BY <2>3, <2>4
<1>3. CASE UNCHANGED vars
  <2>1. \A d \in Clients : Mine(d)' <=> Mine(d)
    BY <1>3, MineStays DEF vars, rx
  <2> QED
    BY <1>3, <2>1 DEF vars, IInv, Current, Waiting, PacketCount
<1> QED
  BY <1>1, <1>2, <1>3, DeliverCurrent, DeliverWaiting DEF Next

(* A process that has sent a whole message is never left without a          *)
(* reaction, unless a packet of it was lost or the host did not take what   *)
(* was sent.                                                                *)
THEOREM HidNoSilence == ASSUME OwnChannels PROVE Spec => []NoSilence
<1>1. IInv => NoSilence
  <2> SUFFICES ASSUME IInv, NEW c \in Clients, host[c].n > 0, ~Sending(c), c \notin lossy \cup cutOff
               PROVE  c \in told
    BY DEF NoSilence
  <2>1. host[c].k \in Nat /\ host[c].len \in Nat
    BY HostIs DEF IInv, TypeInv
  <2>2. PacketCount(c) \in Nat \ {0} /\ ~ (host[c].k < PacketCount(c))
    BY <2>1, PacketCountIs DEF Sending
  <2>3. host[c].k > 0
    BY <2>1, <2>2
  <2> QED
    BY <2>2, <2>3 DEF IInv, Waiting
<1>2. IInv /\ [Next]_vars => IInv'
  BY StepIInv
<1> QED
  BY <1>1, <1>2, InitIInv, PTL DEF Spec

-----------------------------------------------------------------------------
(* The message that is completed, and its echo.                             *)

(* Cutting a body into packets gives back the packets it came in.           *)
LEMMA EchoIs ==
    ASSUME NEW c \in Clients, host[c].len \in Nat
    PROVE  /\ Message(host[c].cid, host[c].cmd, Body(c)) = HostPackets(c)
           /\ \E T : HostPackets(c) \in Seq(T)
<1> DEFINE body == Body(c)
           first == [cid |-> host[c].cid, cmd |-> host[c].cmd, len |-> Len(body),
                     data |-> Padded(body, 0, InitData)]
           next(j) == [cid |-> host[c].cid, seq |-> j - 1,
                       data |-> Padded(body, ChunkStart(j - 1), ContData)]
           n == Chunks(body)
           message == Message(host[c].cid, host[c].cmd, body)
           S == {Byte(c, i) : i \in 1 .. host[c].len}
<1>1. body \in Seq(S) /\ Len(body) = host[c].len /\ \A i \in 1 .. host[c].len : body[i] = Byte(c, i)
  <2>1. body \in [1 .. host[c].len -> S]
    BY DEF Body
  <2>2. \A i \in 1 .. host[c].len : body[i] = Byte(c, i)
    BY DEF Body
  <2> HIDE DEF body, S
  <2> QED
    BY <2>1, <2>2
<1>2. ASSUME NEW from \in Nat, NEW i \in Nat \ {0}
      PROVE  (IF from + i <= Len(body) THEN body[from + i] ELSE NoByte) = Byte(c, from + i)
  <2>1. CASE from + i <= host[c].len
    <3>1. from + i \in 1 .. host[c].len
      BY <2>1
    <3> HIDE DEF body
    <3> QED
      BY <1>1, <2>1, <3>1
  <2>2. CASE ~ (from + i <= host[c].len)
    <3> HIDE DEF body
    <3> QED
      BY <1>1, <2>2 DEF Byte
  <2> QED
    BY <2>1, <2>2
<1>3. n \in Nat
  <2> HIDE DEF body, S
  <2> QED
    BY <1>1, ChunksIs
<1>4. PacketCount(c) = 1 + n
  <2> HIDE DEF body, S
  <2>1. CASE host[c].len <= InitData
    BY <1>1, <2>1 DEF PacketCount, Chunks
  <2>2. CASE ~ (host[c].len <= InitData)
    BY <1>1, <2>2 DEF PacketCount, Chunks
  <2> QED
    BY <2>1, <2>2
<1>5. PICK T : /\ message \in Seq(T) /\ Len(message) = 1 + n
               /\ message[1] = first /\ \A j \in 1 .. n : message[1 + j] = next(j)
  <2> HIDE DEF body, S
  <2>1. \E T : message \in Seq(T)
    BY <1>1, MessageIs
  <2>2. /\ Len(message) = 1 + n /\ message[1] = first
        /\ \A j \in 1 .. n : message[1 + j] = next(j)
    BY <1>1, MessageIs
  <2> HIDE DEF message, n, first, next
  <2> QED
    BY <2>1, <2>2
<1> HIDE DEF body, n, message
<1>6. first = HostPacket(c, 1)
  <2>1. ASSUME NEW i \in 1 .. InitData
        PROVE  (IF 0 + i <= Len(body) THEN body[0 + i] ELSE NoByte) = Byte(c, i)
    <3>1. i \in Nat \ {0} /\ 0 + i = i
      BY SizesArePositive
    <3> QED
      BY <1>2, <3>1
  <2>2. Padded(body, 0, InitData) = [i \in 1 .. InitData |-> Byte(c, i)]
    BY <2>1 DEF Padded
  <2> QED
    BY <1>1, <2>2 DEF HostPacket
<1>7. \A j \in 1 .. n : next(j) = HostPacket(c, 1 + j)
  <2> TAKE j \in 1 .. n
  <2>1. 1 + j # 1 /\ 1 + j - 2 = j - 1 /\ j - 1 \in Nat
    BY <1>3
  <2>2. (j - 1) * ContData \in Nat /\ InitData + (j - 1) * ContData \in Nat
    BY <2>1, SizesArePositive
  <2>3. Padded(body, ChunkStart(j - 1), ContData)
           = [i \in 1 .. ContData |-> Byte(c, InitData + (j - 1) * ContData + i)]
    <3>1. ASSUME NEW i \in 1 .. ContData
          PROVE  (IF ChunkStart(j - 1) + i <= Len(body) THEN body[ChunkStart(j - 1) + i] ELSE NoByte)
                    = Byte(c, InitData + (j - 1) * ContData + i)
      <4>1. i \in Nat \ {0}
        BY SizesArePositive
      <4> QED
        BY <1>2, <2>2, <4>1 DEF ChunkStart
    <3> QED
      BY <3>1 DEF Padded
  <2> DEFINE data(m) == [i \in 1 .. ContData |-> Byte(c, InitData + m * ContData + i)]
  <2>4. HostPacket(c, 1 + j) = [cid |-> host[c].cid, seq |-> 1 + j - 2, data |-> data(1 + j - 2)]
    <3>1. \A k : k # 1 => HostPacket(c, k) = [cid |-> host[c].cid, seq |-> k - 2, data |-> data(k - 2)]
      BY DEF HostPacket
    <3> HIDE DEF data
    <3> QED
      BY <2>1, <3>1
  <2>5. next(j) = [cid |-> host[c].cid, seq |-> j - 1, data |-> data(j - 1)]
    BY <2>3
  <2> HIDE DEF data, next
  <2> QED
    BY <2>1, <2>4, <2>5
<1> HIDE DEF first, next
<1>8. message = HostPackets(c)
  <2>1. message \in [1 .. 1 + n -> T]
    BY <1>5
  <2>2. \A k \in 1 .. 1 + n : message[k] = HostPacket(c, k)
    <3> TAKE k \in 1 .. 1 + n
    <3>1. CASE k = 1
      BY <1>5, <1>6, <3>1
    <3>2. CASE k # 1
      <4>1. k - 1 \in 1 .. n /\ 1 + (k - 1) = k
        BY <1>3, <3>2
      <4> QED
        BY <1>5, <1>7, <4>1
    <3> QED
      BY <3>1, <3>2
  <2> QED
    BY <1>4, <2>1, <2>2 DEF HostPackets
<1> QED
  BY <1>5, <1>8 DEF message, body

(* What is sent before the host stops taking packets is the beginning.      *)
LEMMA GiveUpIs ==
    ASSUME NEW T, NEW packets \in Seq(T), NEW k \in 0 .. Len(packets) - 1
    PROVE  <<>> \o GiveUp(packets, k) = GiveUp(packets, k) /\ IsStrictPrefix(GiveUp(packets, k), packets)
<1> DEFINE s == SubSeq(packets, 1, k)
<1>1. Len(packets) \in Nat /\ 1 \in Int /\ k \in Int /\ k \in Nat /\ k < Len(packets)
  BY LenProperties
<1>2. \A i \in 1 .. k : packets[i] \in T
  <2>1. \A i \in 1 .. k : i \in 1 .. Len(packets)
    BY <1>1
  <2> QED
    BY <2>1, ElementOfSeq
<1>3. /\ s \in Seq(T) /\ Len(s) = IF 1 <= k THEN k - 1 + 1 ELSE 0
      /\ \A i \in 1 .. k - 1 + 1 : s[i] = packets[1 + i - 1]
  BY <1>1, <1>2, SubSeqProperties
<1> HIDE DEF s
<1>4. Len(s) = k
  BY <1>1, <1>3
<1>5. SubSeq(s, 1, k) = s
  <2>1. \A i \in 1 .. k : s[i] \in T
    BY <1>3, <1>4, ElementOfSeq
  <2>2. /\ SubSeq(s, 1, k) \in Seq(T) /\ Len(SubSeq(s, 1, k)) = IF 1 <= k THEN k - 1 + 1 ELSE 0
        /\ \A i \in 1 .. k - 1 + 1 : SubSeq(s, 1, k)[i] = s[1 + i - 1]
    BY <1>1, <2>1, SubSeqProperties
  <2>3. Len(SubSeq(s, 1, k)) = Len(s) /\ \A i \in 1 .. Len(SubSeq(s, 1, k)) : SubSeq(s, 1, k)[i] = s[i]
    BY <1>1, <1>4, <2>2
  <2> QED
    BY <1>3, <2>2, <2>3, SeqEqual
<1>6. IsPrefix(s, packets)
  BY <1>1, <1>4, <1>5 DEF IsPrefix, s
<1>7. s # packets
  BY <1>1, <1>4
<1>8. <<>> \o s = s
  BY <1>3, ConcatEmptySeq
<1> QED
  BY <1>6, <1>7, <1>8 DEF s, GiveUp, IsStrictPrefix

LEMMA FinishedIs ==
    ASSUME IInv, NEW c \in Clients, Deliver(c), Finished(c), c \notin headless
    PROVE  Dispatch(c, host[c].cid, host[c].cmd, Body(c))
<1>1. TypeOK /\ host[c].len \in Nat /\ host[c].k \in Nat /\ host[c].n > 0
  BY HostIs DEF IInv, TypeInv, Deliver, Sending
<1> DEFINE S == Bytes \cup {Byte(c, i) : i \in Nat}
<1>2. PICK body \in Seq(S) :
        /\ Dispatch(c, host[c].cid, IF host[c].k = 0 THEN host[c].cmd ELSE rxCmd, body)
        /\ \/ /\ host[c].k = 0 /\ Len(body) = host[c].len
              /\ \A i \in 1 .. Len(body) : body[i] = Byte(c, i)
           \/ /\ host[c].k > 0 /\ Len(body) = rxExpected /\ rxBuffer # <<>> /\ rxCid = host[c].cid
              /\ \A i \in 1 .. Len(body) :
                    body[i] = IF i <= Len(rxBuffer) THEN rxBuffer[i] ELSE Byte(c, i)
  BY DEF Finished
<1> HIDE DEF S
<1>3. ASSUME host[c].k > 0, rxBuffer # <<>>, rxCid = host[c].cid PROVE Mine(c)
  BY <1>1, <1>3 DEF IInv, Current
<1>4. Len(body) = host[c].len /\ \A i \in 1 .. Len(body) : body[i] = Byte(c, i)
  <2>1. CASE host[c].k > 0 /\ Len(body) = rxExpected /\ rxBuffer # <<>> /\ rxCid = host[c].cid
             /\ \A i \in 1 .. Len(body) :
                    body[i] = IF i <= Len(rxBuffer) THEN rxBuffer[i] ELSE Byte(c, i)
    <3>1. Mine(c) /\ Len(body) = host[c].len
      BY <1>3, <2>1 DEF Mine
    <3>2. Len(rxBuffer) \in Nat /\ DOMAIN rxBuffer = 1 .. Len(rxBuffer)
      BY <1>1, LenProperties DEF TypeOK
    <3>3. \A i \in 1 .. Len(body) : i <= Len(rxBuffer) => i \in DOMAIN rxBuffer
      BY <1>1, <3>1, <3>2
    <3> QED
      BY <2>1, <3>1, <3>3 DEF Mine
  <2> QED
    BY <1>2, <2>1
<1>5. (IF host[c].k = 0 THEN host[c].cmd ELSE rxCmd) = host[c].cmd
  BY <1>1, <1>2, <1>3 DEF Mine
<1>6. body = Body(c)
  <2>1. body \in [1 .. host[c].len -> S]
    BY <1>4
  <2> QED
    BY <1>4, <2>1 DEF Body
<1> QED
  BY <1>2, <1>5, <1>6

FullInv == IInv /\ DispatchedIsIntact /\ EchoIsExact

LEMMA DeliverExact ==
    ASSUME IInv, NEW c \in Clients, Deliver(c)
    PROVE  DispatchedIsIntact' /\ EchoIsExact'
<1>1. TypeOK /\ Framed /\ Sending(c) /\ Sent(c) /\ headless' = headless
  BY DEF IInv, TypeInv, Deliver
<1>2. host[c].len \in Nat /\ host'[c].cmd = host[c].cmd /\ Body(c)' = Body(c) /\ HostPackets(c)' = HostPackets(c)
  BY <1>1, SentIs, HostIs
<1>3. dispatched' = {} \/ Finished(c)
  BY <1>1, DeliverIs
<1>4. CASE dispatched' = {}
  BY <1>4 DEF DispatchedIsIntact, EchoIsExact
<1>5. CASE Finished(c)
  <2> DEFINE rec(cmd, body) == [from |-> c, cid |-> host[c].cid, cmd |-> cmd, body |-> body]
  <2>1. \E cmd, body : dispatched' = {rec(cmd, body)}
    BY <1>5 DEF Finished, Dispatch
  <2>2. \A d \in dispatched' : d.from = c
    BY <2>1
  <2>3. CASE c \in headless
    BY <1>1, <2>2, <2>3 DEF DispatchedIsIntact, EchoIsExact
  <2>4. CASE c \notin headless
    <3>1. Dispatch(c, host[c].cid, host[c].cmd, Body(c))
      BY <1>5, <2>4, FinishedIs
    <3>2. dispatched' = {rec(host[c].cmd, Body(c))}
      BY <3>1 DEF Dispatch
    <3>3. DispatchedIsIntact'
      BY <1>2, <3>2 DEF DispatchedIsIntact
    <3>4. ASSUME host[c].cmd = "ping"
          PROVE  \/ reply' = HostPackets(c)
                 \/ c \in cutOff' /\ IsStrictPrefix(reply', HostPackets(c))
      <4>1. PICK T : HostPackets(c) \in Seq(T)
        BY <1>2, EchoIs
      <4>2. Keepalives(host[c].cid, host[c].cmd) = {<<>>}
        BY <3>4 DEF Keepalives
      <4>3. Answer(host[c].cid, host[c].cmd, Body(c)) = HostPackets(c)
        BY <1>2, <3>4, EchoIs DEF Answer
      <4>4. Send(c, <<>>, HostPackets(c))
        BY <3>1, <4>2, <4>3 DEF Dispatch
      <4>5. <<>> \o HostPackets(c) = HostPackets(c)
        BY <4>1, ConcatEmptySeq
      <4> QED
        BY <4>1, <4>4, <4>5, GiveUpIs DEF Send
    <3>5. EchoIsExact'
      BY <1>2, <3>2, <3>4 DEF EchoIsExact
    <3> QED
      BY <3>3, <3>5
  <2> QED
    BY <2>3, <2>4
<1> QED
  BY <1>3, <1>4, <1>5

LEMMA AlwaysFullInv == ASSUME OwnChannels PROVE Spec => []FullInv
<1>1. Init => FullInv
  <2>1. Init => DispatchedIsIntact /\ EchoIsExact
    BY DEF Init, DispatchedIsIntact, EchoIsExact
  <2> QED
    BY <2>1, InitIInv DEF FullInv
<1>2. FullInv /\ [Next]_vars => FullInv'
  <2> SUFFICES ASSUME FullInv, [Next]_vars PROVE DispatchedIsIntact' /\ EchoIsExact'
    BY StepIInv DEF FullInv
  <2>1. ASSUME dispatched' = {} PROVE DispatchedIsIntact' /\ EchoIsExact'
    BY <2>1 DEF DispatchedIsIntact, EchoIsExact
  <2>2. CASE UNCHANGED vars
    <3>1. \A d \in Clients : HostPackets(d)' = HostPackets(d) /\ Body(d)' = Body(d)
      BY <2>2 DEF vars, HostPackets, HostPacket, PacketCount, Body, Byte
    <3> QED
      BY <2>2, <3>1 DEF vars, FullInv, DispatchedIsIntact, EchoIsExact, HostPackets, HostPacket,
                        PacketCount, Body, Byte
  <2> QED
    BY <2>1, <2>2, DeliverExact DEF Next, Start, Lose, FullInv
<1> QED
  BY <1>1, <1>2, PTL DEF Spec

(* What is dispatched is, byte for byte, the message its process is         *)
(* sending, whatever the others send meanwhile and however many messages    *)
(* were given up half-way before, unless its first packet was lost.         *)
THEOREM HidDispatchedIsIntact == ASSUME OwnChannels PROVE Spec => []DispatchedIsIntact
<1>1. FullInv => DispatchedIsIntact
  BY DEF FullInv
<1> QED
  BY <1>1, AlwaysFullInv, PTL

(* What PING sends back, cut into packets again, is packet for packet what  *)
(* the process sent, or the beginning of it when the host stops taking it.  *)
THEOREM HidEchoIsExact == ASSUME OwnChannels PROVE Spec => []EchoIsExact
<1>1. FullInv => EchoIsExact
  BY DEF FullInv
<1> QED
  BY <1>1, AlwaysFullInv, PTL
=============================================================================

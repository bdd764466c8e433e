------------------------------ MODULE CtapHid ------------------------------
(***************************************************************************)
(* The framing layer of src/src/CtapHid.cpp between the report queue and   *)
(* the commands: one message is reassembled at a time, from the packets of *)
(* host processes whose packets interleave freely on the bus.              *)
(*                                                                         *)
(* A packet is handled by the loop task in one go.  A process sends the    *)
(* packets of a message in order and may give one up for another; a packet *)
(* can be lost on the way (UsbQueue drops what does not fit), and a packet *)
(* of an answer may find nobody to take it.  A byte is named by the        *)
(* process, message and position it comes from.                            *)
(***************************************************************************)
EXTENDS Naturals, Sequences, SequencesExt

CONSTANTS
    Clients,            \* host processes
    Cids(_),            \* the channels a process sends on
    Requests,           \* the messages they send: records of cmd and len
    kBroadcastCid,
    kActiveCid,         \* 0xface0001, what every INIT is answered with
    kMaxCtapMessageSize,
    InitData,           \* 57, bytes of a message in its first packet
    ContData,           \* 59, bytes in each continuation packet
    NonceLen,           \* 8, the length of an INIT request
    ChannelLen,         \* 9, what the answer to it has after the nonce
    MaxMessages,        \* bound: messages a process starts
    MaxLost,            \* bound: packets lost
    MaxRefused          \* bound: answers the host does not take to their end

ASSUME SizesArePositive == InitData \in Nat \ {0} /\ ContData \in Nat \ {0}
ASSUME NonceFits == NonceLen <= InitData /\ ChannelLen \in Nat

NoCid == 0
NoByte == <<>>
Commands == {"none", "init", "ping", "wink", "msg", "cbor", "cancel", "error", "keepalive"}

ASSUME RequestsAreMessages == Requests \subseteq [cmd : Commands, len : Nat]
ASSUME LimitsAreNat ==
    kMaxCtapMessageSize \in Nat /\ MaxMessages \in Nat /\ MaxLost \in Nat /\ MaxRefused \in Nat

VARIABLES
    rxCid, rxCmd, rxExpected, nextSeq,
    rxBuffer,       \* rxBuffer_[0 .. rxLen_ - 1]
    activeCid,      \* activeCid_
    canceled,       \* Ctap2's canceled_
    host,           \* host[c]: the message process c is sending
    lossy,          \* processes that lost a packet of that message
    headless,       \* those that lost the first packet of it
    lost,
    told,           \* processes whose packets of that message drew a reaction
    dispatched,     \* the message the last packet completed, if any
    reply,          \* packets sent on account of the last packet
    cutOff,         \* processes an answer to which was not taken to its end
    refused         \* how many times that has happened

rx == <<rxCid, rxCmd, rxExpected, nextSeq, rxBuffer>>
sends == <<cutOff, refused>>
vars == <<rxCid, rxCmd, rxExpected, nextSeq, rxBuffer, activeCid, canceled,
          host, lossy, headless, lost, told, dispatched, reply, cutOff, refused>>

Smaller(a, b) == IF a < b THEN a ELSE b

-----------------------------------------------------------------------------
(* Packets, as the host makes them: every packet is full, padded with       *)
(* NoByte after the end of the message.                                     *)

Byte(c, i) == IF i <= host[c].len THEN <<c, host[c].n, i>> ELSE NoByte
Body(c) == [i \in 1 .. host[c].len |-> Byte(c, i)]

PacketCount(c) ==
    IF host[c].len <= InitData THEN 1
    ELSE 1 + (host[c].len - InitData + ContData - 1) \div ContData

HostPacket(c, k) ==
    IF k = 1
    THEN [cid |-> host[c].cid, cmd |-> host[c].cmd, len |-> host[c].len,
          data |-> [i \in 1 .. InitData |-> Byte(c, i)]]
    ELSE [cid |-> host[c].cid, seq |-> k - 2,
          data |-> [i \in 1 .. ContData |-> Byte(c, InitData + (k - 2) * ContData + i)]]

HostPackets(c) == [k \in 1 .. PacketCount(c) |-> HostPacket(c, k)]

-----------------------------------------------------------------------------
(* sendMessage().                                                           *)

Padded(body, from, size) ==
    [i \in 1 .. size |-> IF from + i <= Len(body) THEN body[from + i] ELSE NoByte]

ChunkStart(j) == InitData + j * ContData
Chunks(body) == IF Len(body) <= InitData THEN 0
                ELSE (Len(body) - InitData + ContData - 1) \div ContData

Message(cid, cmd, body) ==
    <<[cid |-> cid, cmd |-> cmd, len |-> Len(body), data |-> Padded(body, 0, InitData)]>>
    \o [j \in 1 .. Chunks(body) |->
           [cid |-> cid, seq |-> j - 1, data |-> Padded(body, ChunkStart(j - 1), ContData)]]

\* The status byte of an error or a keepalive does not come from a process.
Error(cid) == Message(cid, "error", <<NoByte>>)
Keepalive(cid) == Message(cid, "keepalive", <<NoByte>>)

\* The packets that are left when the host does not take one of them within
\* 100 ms.
GoOn(packets, k) == SubSeq(packets, 1, k) \o SubSeq(packets, k + 2, Len(packets))
GiveUp(packets, k) == SubSeq(packets, 1, k)

Send(c, keepalives, packets) ==
    \/ reply' = keepalives \o packets /\ UNCHANGED sends
    \/ /\ refused < MaxRefused /\ refused' = refused + 1 /\ cutOff' = cutOff \cup {c}
       /\ \E k \in 0 .. Len(packets) - 1 : reply' = keepalives \o GiveUp(packets, k)

-----------------------------------------------------------------------------
Init ==
    /\ rxCid = NoCid /\ rxCmd = "none" /\ rxExpected = 0 /\ nextSeq = 0 /\ rxBuffer = <<>>
    /\ activeCid = NoCid /\ canceled = FALSE
    /\ host = [c \in Clients |-> [n |-> 0, cid |-> NoCid, cmd |-> "none", len |-> 0, k |-> 0]]
    /\ lossy = {} /\ headless = {} /\ lost = 0 /\ told = {} /\ dispatched = {} /\ reply = <<>>
    /\ cutOff = {} /\ refused = 0

ResetRx ==
    /\ rxCid' = NoCid /\ rxCmd' = "none" /\ rxExpected' = 0 /\ nextSeq' = 0 /\ rxBuffer' = <<>>

\* An answer and nothing else.
Refuse(c, packets) ==
    /\ Send(c, <<>>, packets) /\ dispatched' = {}
    /\ UNCHANGED <<activeCid, canceled>>

(* dispatchMessage(): what is sent, and what the command does.  The answers *)
(* of Ctap2 (to "cbor" and "msg") are stood for by an empty message.        *)
Answer(cid, cmd, body) ==
    CASE cmd = "init" -> IF Len(body) # NonceLen THEN Error(cid)
                         ELSE Message(cid, "init", body \o [i \in 1 .. ChannelLen |-> NoByte])
      [] cmd = "ping" -> Message(cid, "ping", body)
      [] cmd \in {"msg", "wink"} -> Message(cid, cmd, <<>>)
      [] cmd = "cbor" -> IF cid # activeCid THEN Error(cid) ELSE Message(cid, "cbor", <<>>)
      [] cmd = "cancel" -> <<>>
      [] OTHER -> Error(cid)

\* A CTAP2 command that waits for BOOT sends keepalives; one that the host does
\* not take makes no difference to the answer.
Keepalives(cid, cmd) ==
    IF cmd = "cbor" /\ cid = activeCid THEN {<<>>, Keepalive(activeCid)} ELSE {<<>>}

Dispatch(c, cid, cmd, body) ==
    /\ \E k \in Keepalives(cid, cmd) : Send(c, k, Answer(cid, cmd, body))
    /\ dispatched' = {[from |-> c, cid |-> cid, cmd |-> cmd, body |-> body]}
    /\ activeCid' = IF cmd = "init" /\ Len(body) = NonceLen THEN kActiveCid ELSE activeCid
    \* handle() starts with canceled_ = false; CTAP1 commands leave it
    /\ canceled' = IF cmd = "cancel" THEN TRUE
                   ELSE IF cmd = "cbor" /\ cid = activeCid THEN FALSE ELSE canceled
    /\ ResetRx

Receiving == rxBuffer # <<>> /\ Len(rxBuffer) < rxExpected

BusySilently(cid) == <<>>
Busy(cid) == Error(cid)
TooLongNever(len) == FALSE
TooLong(len) == len > kMaxCtapMessageSize

\* handleInitPacket(): c is the process that sent it
InitPacket(c, p) ==
    \/ /\ p.cid = NoCid
       /\ Refuse(c, Error(kBroadcastCid)) /\ UNCHANGED rx
    \/ /\ p.cid # NoCid /\ Receiving /\ p.cid # rxCid
       /\ Refuse(c, Busy(p.cid)) /\ UNCHANGED rx
    \/ /\ p.cid # NoCid /\ (Receiving => p.cid = rxCid) /\ TooLong(p.len)
       /\ Refuse(c, Error(p.cid)) /\ ResetRx
    \/ /\ p.cid # NoCid /\ (Receiving => p.cid = rxCid) /\ ~TooLong(p.len)
       /\ LET body == SubSeq(p.data, 1, Smaller(p.len, InitData)) IN
             IF Len(body) >= p.len
                 THEN Dispatch(c, p.cid, p.cmd, body)
                 ELSE /\ rxCid' = p.cid /\ rxCmd' = p.cmd /\ rxExpected' = p.len
                      /\ nextSeq' = 0 /\ rxBuffer' = body
                      /\ Refuse(c, <<>>)

ExpectedOnAnyCid(p) == rxBuffer # <<>> /\ p.seq = nextSeq
ExpectedInAnyOrder(p) == rxBuffer # <<>> /\ p.cid = rxCid
Expected(p) == rxBuffer # <<>> /\ p.cid = rxCid /\ p.seq = nextSeq

\* handleContinuationPacket()
ContinuationPacket(c, p) ==
    \/ /\ ~Expected(p)
       /\ Refuse(c, Error(p.cid)) /\ ResetRx
    \/ /\ Expected(p)
       /\ LET body == rxBuffer \o SubSeq(p.data, 1, Smaller(rxExpected - Len(rxBuffer), ContData)) IN
             IF Len(body) >= rxExpected
                 THEN Dispatch(c, rxCid, rxCmd, body)
                 ELSE /\ rxBuffer' = body /\ nextSeq' = nextSeq + 1
                      /\ Refuse(c, <<>>)
                      /\ UNCHANGED <<rxCid, rxCmd, rxExpected>>

-----------------------------------------------------------------------------
(* The host.                                                                *)

\* Process c starts a message, whether or not it has sent all of the last one.
Start(c, cid, req) ==
    /\ host[c].n < MaxMessages
    /\ host' = [host EXCEPT ![c] = [n |-> host[c].n + 1, cid |-> cid, cmd |-> req.cmd,
                                    len |-> req.len, k |-> 0]]
    /\ lossy' = lossy \ {c} /\ headless' = headless \ {c} /\ told' = told \ {c} /\ cutOff' = cutOff \ {c}
    /\ dispatched' = {} /\ reply' = <<>>
    /\ UNCHANGED <<rx, activeCid, canceled, lost, refused>>

Sending(c) == host[c].n > 0 /\ host[c].k < PacketCount(c)
Sent(c) == host' = [host EXCEPT ![c].k = @ + 1]

\* receivePacket() on the next packet of c
Deliver(c) ==
    /\ Sending(c)
    /\ LET p == HostPacket(c, host[c].k + 1) IN
          IF host[c].k = 0 THEN InitPacket(c, p) ELSE ContinuationPacket(c, p)
    /\ Sent(c)
    /\ told' = IF reply' # <<>> \/ dispatched' # {} THEN told \cup {c} ELSE told
    /\ UNCHANGED <<lossy, headless, lost>>

Lose(c) ==
    /\ Sending(c) /\ lost < MaxLost
    /\ lost' = lost + 1 /\ lossy' = lossy \cup {c}
    /\ headless' = IF host[c].k = 0 THEN headless \cup {c} ELSE headless
    /\ Sent(c)
    /\ dispatched' = {} /\ reply' = <<>>
    /\ UNCHANGED <<rx, activeCid, canceled, told, sends>>

Next ==
    \E c \in Clients :
        \/ \E cid \in Cids(c), req \in Requests : Start(c, cid, req)
        \/ Deliver(c)
        \/ Lose(c)

Spec == Init /\ [][Next]_vars

-----------------------------------------------------------------------------
AllCids == (UNION {Cids(c) : c \in Clients}) \cup {NoCid, kBroadcastCid, kActiveCid}
Bytes == {NoByte} \cup (Clients \X (1 .. MaxMessages) \X (1 .. kMaxCtapMessageSize))
HostStates == [n : 0 .. MaxMessages, cid : AllCids, cmd : Commands, len : Nat, k : Nat]

(* Types, and the limits that keep the copies inside rxBuffer_: what is     *)
(* received never exceeds what was announced, nor that the buffer.          *)
TypeOK ==
    /\ rxCid \in AllCids /\ activeCid \in AllCids /\ rxCmd \in Commands
    /\ rxExpected \in 0 .. kMaxCtapMessageSize
    /\ rxBuffer \in Seq(Bytes) /\ Len(rxBuffer) <= rxExpected
    /\ nextSeq \in 0 .. kMaxCtapMessageSize
    /\ canceled \in BOOLEAN
    /\ host \in [Clients -> HostStates] /\ \A c \in Clients : host[c].k <= PacketCount(c)
    /\ lossy \in SUBSET Clients /\ headless \in SUBSET Clients /\ told \in SUBSET Clients /\ lost \in 0 .. MaxLost
    /\ cutOff \in SUBSET Clients /\ refused \in 0 .. MaxRefused

(* A message that is dispatched is, byte for byte, the one its sender is    *)
(* sending, whatever the other processes send meanwhile, however many       *)
(* messages were given up half-way before and whichever packets behind the  *)
(* first were lost.  (When the first is lost the second can go on with a    *)
(* message that was given up.)  A process must have its channels to itself: *)
(* with two on the channel every INIT hands out (CtapHid.cpp:155) it does   *)
(* not hold.                                                                *)
DispatchedIsIntact ==
    \A d \in dispatched : d.from \notin headless =>
        d.cmd = host[d.from].cmd /\ d.body = Body(d.from)

(* Whatever is lost, given up or shared, no byte of one channel gets into a *)
(* message of another, and each is at the position it had in its message:   *)
(* no packet fills the gap of one that is missing.                          *)
InPlace(body, cid) ==
    \A i \in DOMAIN body : body[i] # NoByte => body[i][3] = i /\ cid \in Cids(body[i][1])

BytesStayInPlace ==
    InPlace(rxBuffer, rxCid) /\ \A d \in dispatched : InPlace(d.body, d.cid)

(* A process that has sent a whole message is never left without a          *)
(* reaction: the message was dispatched or an error was sent, also when the *)
(* reassembly was cut short by somebody else's packet, or the host did not  *)
(* take what was sent.                                                      *)
NoSilence ==
    \A c \in Clients :
        (host[c].n > 0 /\ ~Sending(c) /\ c \notin lossy \cup cutOff) => c \in told

(* What PING sends back, cut into packets again, is packet for packet what  *)
(* the host sent.  When the host does not take one of them the answer ends  *)
(* there: it never goes on with a hole in it.                               *)
EchoIsExact ==
    \A d \in dispatched : (d.cmd = "ping" /\ d.from \notin headless) =>
        \/ reply = HostPackets(d.from)
        \/ d.from \in cutOff /\ IsStrictPrefix(reply, HostPackets(d.from))
=============================================================================

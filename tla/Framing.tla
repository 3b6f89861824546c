------------------------------- MODULE Framing -------------------------------
(***************************************************************************)
(* How packets travel over one connection: ZinxPacket and ZinxPacket_LTD   *)
(* write them as bytes, TCP delivers the bytes in pieces, and the server's *)
(* HandleOnMessage cuts them into packets again with ZinxDecoder or        *)
(* ZinxDecoder_LTD and hands each to ZinxRouter.  The AI client reads its  *)
(* packets in the same way with ZinxDecoder_LTD.                           *)
(*                                                                         *)
(* A byte has Radix values (256 in the code) and a uint32_t is four bytes, *)
(* so arithmetic on uint32_t is modulo the fourth power of Radix.          *)
(***************************************************************************)
EXTENDS Integers, Sequences

CONSTANTS
  Radix,        \* values of a byte
  Ids,          \* packet ids in use
  Payloads,     \* payloads in use
  Registered,   \* keys of ZinxRouter::mapper_
  MaxPackets    \* bound: packets sent

Word   == Radix * (Radix * (Radix * Radix))
UInt32 == 0 .. Word - 1
Bytes  == 0 .. Radix - 1

kHeaderLength == 8

ASSUME FormatAssumption ==
  /\ Radix \in Nat \ {0, 1}
  /\ Ids \subseteq UInt32
  /\ Registered \subseteq UInt32
  /\ MaxPackets \in Nat

\* "FIXME: check payload boundary": nothing checks that a packet's length fits
\* the field, so the peers have to see to it.
ASSUME PayloadAssumption ==
  \A d \in Payloads : d \in Seq(Bytes) /\ kHeaderLength + Len(d) \in UInt32

Packets == [id : Ids, payload : Payloads]

VARIABLES
  format,    \* the decoder's: "TLD" (ZinxPacket) or "LTD" (ZinxPacket_LTD)
  wire,      \* bytes sent and not read yet
  buf,       \* the connection's input buffer
  pc,        \* "poll" in the event loop, "decode" in HandleOnMessage
  up,        \* whether the connection is up
  handled,   \* packets handlers were called with
  unhandled, \* number of packets without a handler
  sent,      \* history: the packets sent
  start      \* history: where in the stream of all bytes they start, and where
             \* the next one will

vars == <<format, wire, buf, pc, up, handled, unhandled, sent, start>>

-----------------------------------------------------------------------------
(***************************************************************************)
(* Encoding.                                                               *)
(***************************************************************************)

LittleEndian(v) ==
  LET v1 == v \div Radix
      v2 == v1 \div Radix
      v3 == v2 \div Radix
  IN  <<v % Radix, v1 % Radix, v2 % Radix, v3 % Radix>>
BigEndian(v) == LET b == LittleEndian(v) IN <<b[4], b[3], b[2], b[1]>>

\* The number with these digits, the least significant one first, ...
Value(b0, b1, b2, b3) == b0 + Radix * (b1 + Radix * (b2 + Radix * b3))

\* ... and the uint32_t in the four bytes of b from position i on.
FromLittle(b, i) == Value(b[i], b[i + 1], b[i + 2], b[i + 3])
FromBig(b, i)    == Value(b[i + 3], b[i + 2], b[i + 1], b[i])

\* The constructors of ZinxPacket_LTD and of ZinxPacket: data_ of a packet.
EncodeLTD(p) ==
  LittleEndian(Len(p.payload) % Word) \o LittleEndian(p.id) \o p.payload
EncodeTLD(p) ==
  BigEndian(p.id) \o BigEndian(Len(p.payload) % Word) \o p.payload

\* Encoding p in format f.
Encode(f, p) == IF f = "LTD" THEN EncodeLTD(p) ELSE EncodeTLD(p)

\* Mutant: only the least significant byte of the length is read.
LowByteLength(b) == IF format = "LTD" THEN b[1] ELSE b[8]

\* The length field of bytes that begin with a header, and the id.
GetPayloadLength(b) == IF format = "LTD" THEN FromLittle(b, 1) ELSE FromBig(b, 5)
GetId(b)            == IF format = "LTD" THEN FromLittle(b, 5) ELSE FromBig(b, 1)

\* Mutant: the header is not skipped.
PayloadWithHeader(b) == b

GetPayload(b) == SubSeq(b, kHeaderLength + 1, Len(b))

\* The bytes the decoder takes for the first packet of b, in uint32_t.
PacketLength(b) == (kHeaderLength + GetPayloadLength(b)) % Word

\* Decode finds a packet: neither of its early returns is taken.
Complete(b) == Len(b) >= kHeaderLength /\ Len(b) >= PacketLength(b)

-----------------------------------------------------------------------------
\* Packets taken off the buffer so far.
routed == Len(handled) + unhandled

TypeOK ==
  /\ format \in {"TLD", "LTD"}
  /\ wire \in Seq(Bytes)
  /\ buf \in Seq(Bytes)
  /\ pc \in {"poll", "decode"}
  /\ up \in BOOLEAN
  /\ handled \in Seq(Packets)
  /\ unhandled \in 0 .. MaxPackets
  /\ sent \in Seq(Packets)
  /\ start \in Seq(Nat)

\* The server has the decoder of the constructor, or the one of SetDecoder.
Init ==
  /\ format \in {"TLD", "LTD"}
  /\ wire = <<>>
  /\ buf = <<>>
  /\ pc = "poll"
  /\ up = TRUE
  /\ handled = <<>>
  /\ unhandled = 0
  /\ sent = <<>>
  /\ start = <<0>>

\* The peer sends a packet: conn->Send(packet.GetData()).
Send(p) ==
  /\ up
  /\ Len(sent) < MaxPackets
  /\ wire' = wire \o Encode(format, p)
  /\ sent' = Append(sent, p)
  /\ start' = Append(start, start[Len(start)] + Len(Encode(format, p)))
  /\ UNCHANGED <<format, buf, pc, up, handled, unhandled>>

\* A read event: the first n bytes arrive and HandleOnMessage is called.
Read(n) ==
  /\ up
  /\ pc = "poll"
  /\ buf' = buf \o SubSeq(wire, 1, n)
  /\ wire' = SubSeq(wire, n + 1, Len(wire))
  /\ pc' = "decode"
  /\ UNCHANGED <<format, up, handled, unhandled, sent, start>>

\* ZinxRouter::RouteAndHandle
RouteAndHandle(p) ==
  IF p.id \in Registered
  THEN handled' = Append(handled, p) /\ UNCHANGED unhandled
  ELSE unhandled' = unhandled + 1 /\ UNCHANGED handled

\* Mutant: HandleOnMessage returns after one packet.
HandleOnePacket ==
  /\ pc = "decode"
  /\ Complete(buf)
  /\ LET msg == SubSeq(buf, 1, PacketLength(buf)) IN
       /\ buf' = SubSeq(buf, PacketLength(buf) + 1, Len(buf))
       /\ RouteAndHandle([id |-> GetId(msg), payload |-> GetPayload(msg)])
  /\ pc' = "poll"
  /\ UNCHANGED <<format, wire, up, sent, start>>

\* One turn of the loop in HandleOnMessage: Decode takes a packet off the buffer.
HandlePacket ==
  /\ pc = "decode"
  /\ Complete(buf)
  /\ LET msg == SubSeq(buf, 1, PacketLength(buf)) IN
       /\ buf' = SubSeq(buf, PacketLength(buf) + 1, Len(buf))
       /\ RouteAndHandle([id |-> GetId(msg), payload |-> GetPayload(msg)])
  /\ UNCHANGED <<format, wire, pc, up, sent, start>>

\* Decode returns nullptr: wait for the next read event.
WaitForMore ==
  /\ pc = "decode"
  /\ ~Complete(buf)
  /\ pc' = "poll"
  /\ UNCHANGED <<format, wire, buf, up, handled, unhandled, sent, start>>

\* The connection goes down between two read events; what it still holds is
\* never looked at again.
Close ==
  /\ up
  /\ pc = "poll"
  /\ up' = FALSE
  /\ wire' = <<>>
  /\ buf' = <<>>
  /\ UNCHANGED <<format, pc, handled, unhandled, sent, start>>

Next ==
  \/ \E p \in Packets : Send(p)
  \/ \E n \in 1 .. Len(wire) : Read(n)
  \/ HandlePacket
  \/ WaitForMore
  \/ Close

Spec == Init /\ [][Next]_vars

\* The loop keeps polling the connection and running its callback.
Fairness ==
  /\ WF_vars(\E n \in 1 .. Len(wire) : Read(n))
  /\ WF_vars(HandlePacket \/ WaitForMore)

FairSpec == Spec /\ Fairness

-----------------------------------------------------------------------------
(***************************************************************************)
(* Properties.                                                             *)
(***************************************************************************)

\* The packets sent that are still to be routed.
Awaited == IF up THEN SubSeq(sent, routed + 1, Len(sent)) ELSE <<>>

\* Where packet i starts in what is left of the stream.
Offset(i) == start[i] - start[routed + 1]

\* The stream never gets out of step: the bytes in the buffer and on the wire
\* are, from the first one on, the encodings of the packets not routed yet, so
\* the decoder always finds a header where it looks for one.
InStep ==
  up => /\ Len(buf \o wire) = Offset(Len(sent) + 1)
        /\ \A i \in routed + 1 .. Len(sent) :
             SubSeq(buf \o wire, Offset(i) + 1, Offset(i + 1))
               = Encode(format, sent[i])

\* A packet that has arrived completely is never left in the buffer until more
\* bytes come: HandleOnMessage "resolves all the incoming data"
\* (Server.cpp:58) before it returns.
NothingLeftWaiting ==
  pc = "poll" /\ Awaited # <<>> => Len(buf) < Len(Encode(format, Awaited[1]))

\* The byte stream implements the packet channel: every packet that is routed is
\* the next one that was sent, once and unchanged, however TCP cuts the bytes.
Channel == INSTANCE PacketChannel WITH queue <- Awaited
ImplementsChannel == Channel!Spec

\* Every packet sent on a connection that stays up is routed: the peer need not
\* send another one to push it through.
RoutesEverything == Channel!Fairness
=============================================================================

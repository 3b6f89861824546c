-------------------------- MODULE FramingInvariant --------------------------
(***************************************************************************)
(* The inductive invariant of Framing: where in the stream each packet     *)
(* starts, and what the connection holds of the packets not routed yet.    *)
(***************************************************************************)
EXTENDS Framing

\* Packets follow each other in the stream without a gap.
Consecutive ==
  /\ Len(start) = Len(sent) + 1
  /\ \A i \in 1 .. Len(sent) : start[i + 1] = start[i] + Len(Encode(format, sent[i]))
  /\ \A i \in 1 .. Len(start) : \A j \in i .. Len(start) : start[i] <= start[j]

\* Only packets that were sent are routed.
RoutedSent ==
  /\ routed <= Len(sent)
  /\ Len(sent) <= MaxPackets

\* A connection goes down between two read events.
DownAtRest == ~up => pc = "poll"

\* Back in the event loop, the buffer holds less than a packet.
LessThanAPacket ==
  up /\ pc = "poll" /\ routed < Len(sent) =>
    Len(buf) < Len(Encode(format, sent[routed + 1]))

\* The inductive invariant: the decoder and the peer agree on where packets
\* start, which takes that the decoder was right about every packet before.
FramingInv ==
  Consecutive /\ RoutedSent /\ DownAtRest /\ InStep /\ LessThanAPacket
=============================================================================

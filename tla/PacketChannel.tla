---------------------------- MODULE PacketChannel ----------------------------
(***************************************************************************)
(* What a connection promises to the application: the packets sent on it   *)
(* are routed in the order in which they were sent, each of them once and  *)
(* unchanged; a packet nobody registered a handler for is skipped; what    *)
(* was not routed when the connection goes down is lost.                   *)
(***************************************************************************)
EXTENDS Sequences

CONSTANTS
  Packets,      \* packets a peer may send
  Registered    \* ids that have a handler

VARIABLES
  queue,     \* packets sent and not routed yet
  handled,   \* packets handlers were called with
  up         \* whether the connection is up

vars == <<queue, handled, up>>

Init ==
  /\ queue = <<>>
  /\ handled = <<>>
  /\ up = TRUE

Send(p) ==
  /\ up
  /\ queue' = Append(queue, p)
  /\ UNCHANGED <<handled, up>>

Route ==
  /\ up
  /\ queue # <<>>
  /\ queue' = Tail(queue)
  /\ handled' = IF Head(queue).id \in Registered
                THEN Append(handled, Head(queue)) ELSE handled
  /\ UNCHANGED up

Close ==
  /\ up
  /\ up' = FALSE
  /\ queue' = <<>>
  /\ UNCHANGED handled

Next == (\E p \in Packets : Send(p)) \/ Route \/ Close

Spec == Init /\ [][Next]_vars

Fairness == WF_vars(Route)

FairSpec == Spec /\ Fairness
=============================================================================

------------------------- MODULE AiClientInvariant -------------------------
(***************************************************************************)
(* The inductive invariant of AiClient: how far a client has come decides  *)
(* which packets about itself still wait for it, and the robot is started  *)
(* once.                                                                   *)
(***************************************************************************)
EXTENDS AiClient

\* The thread of a client, its Player, its connection and its promise.
Life(c) ==
  /\ alive[c] <=> thread[c] \in {"Join", "WaitPlayExit", "fetch_add", "destroy"}
  /\ conn[c] = "none" <=> thread[c] \in {"NewClient", "Join"}
  /\ promise_[c] <=> conn[c] = "down"
  /\ thread[c] \in {"fetch_add", "destroy", "done"} => promise_[c]

\* From place i on, the packets that wait are about other players.
AboutOthers(c, i) ==
  \A j \in i .. Len(inbox[c]) : inbox[c][j].type = "POS" /\ inbox[c][j].pid # c

\* The packet at place i is the first position of the player.
OwnPosition(c, i) ==
  /\ i <= Len(inbox[c])
  /\ inbox[c][i] = Packet("POS", c, at[c])
  /\ at[c] \in SpawnPositions

\* The client is not connected yet, ...
Offline(c) ==
  /\ conn[c] \in {"none", "connecting"}
  /\ inbox[c] = <<>> /\ id_[c] = -1 /\ starts[c] = 0 /\ at[c] = NoPos

\* ... or waits for its pid and then for its position, ...
AwaitsPid(c) ==
  /\ c \in Reachable
  /\ id_[c] = -1 /\ starts[c] = 0
  /\ inbox[c][1].type = "SYNC_PID" /\ inbox[c][1].pid = c
  /\ OwnPosition(c, 2)
  /\ AboutOthers(c, 3)

\* ... or only for its position, ...
AwaitsPosition(c) ==
  /\ c \in Reachable
  /\ id_[c] = c /\ starts[c] = 0
  /\ OwnPosition(c, 1)
  /\ AboutOthers(c, 2)

\* ... or plays: it moves around where it started, never hears of itself again, ...
Plays(c) ==
  /\ c \in Reachable
  /\ id_[c] = c /\ starts[c] = 1
  /\ AboutOthers(c, 1)
  /\ pos_[c] \in SpawnPositions
  /\ at[c] \in Targets(pos_[c])

\* ... or has lost its connection.
Gone(c) ==
  /\ conn[c] = "down"
  /\ inbox[c] = <<>> /\ id_[c] \in {-1, c} /\ starts[c] \in {0, 1}
  /\ at[c] \in Coordinates /\ OnMap(at[c])

Progress(c) ==
  Offline(c) \/ AwaitsPid(c) \/ AwaitsPosition(c) \/ Plays(c) \/ Gone(c)

\* The timer that is started is the timer that is known, and it runs as long as
\* the client plays.
OneTimer(c) ==
  /\ timerId_[c] = IF starts[c] = 1 THEN 1 ELSE -1
  /\ timers[c] = IF starts[c] = 1 /\ c \in Reachable THEN {1} ELSE {}
  /\ shutdowns[c] \subseteq {1}

\* exited_client_num counts the threads that have passed fetch_add, and the loop
\* is told to quit when that is all of them.
Exited == {c \in Clients : thread[c] \in {"destroy", "done"}}

ExitsCounted ==
  /\ exited_client_num = Cardinality(Exited)
  /\ quit => exited_client_num = ThreadNum
  /\ main \in {"join", "done"} => quit

\* The inductive invariant: a robot is started once, as the client handles its
\* pid before its position and no move makes the server send that position
\* again, and the loop of main counts the clients that are gone.
ClientInv ==
  /\ \A c \in Clients : Life(c) /\ Progress(c) /\ OneTimer(c)
  /\ ExitsCounted
=============================================================================

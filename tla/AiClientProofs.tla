--------------------------- MODULE AiClientProofs ---------------------------
(***************************************************************************)
(* Proofs about AiClient, for every number of clients and actions, every   *)
(* stride of at most half a grid and every map on which robots that stay   *)
(* near the place where they appear stay on the map.                       *)
(***************************************************************************)
EXTENDS AiClientInvariant, AOIProofs, SequenceTheorems, FiniteSetTheorems

USE RobotAssumption

-----------------------------------------------------------------------------
(***************************************************************************)
(* Where a robot goes.                                                     *)
(***************************************************************************)

\* A target is a position at most MaxStep away along each axis.
LEMMA TargetsNear ==
  ASSUME NEW p \in Coordinates, NEW q \in Targets(p)
  PROVE  /\ q \in Coordinates
         /\ q.X - p.X \in -MaxStep .. MaxStep
         /\ q.Z - p.Z \in -MaxStep .. MaxStep
<1>1. PICK s \in {-1, 1}, x \in Distances, z \in Distances :
        q = [X |-> p.X + s * x, Z |-> p.Z + s * z]
  BY DEF Targets
<1>2. p.X \in Int /\ p.Z \in Int
  BY DEF Coordinates
<1>3. x \in 0 .. MaxStep /\ z \in 0 .. MaxStep
  BY DEF Distances
<1>4. CASE s = 1
  <2>1. q = [X |-> p.X + x, Z |-> p.Z + z]
    BY <1>1, <1>2, <1>3, <1>4
  <2> QED
    BY <1>2, <1>3, <2>1 DEF Coordinates
<1>5. CASE s = -1
  <2>1. q = [X |-> p.X - x, Z |-> p.Z - z]
    BY <1>1, <1>2, <1>3, <1>5
  <2> QED
    BY <1>2, <1>3, <2>1 DEF Coordinates
<1> QED
  BY <1>4, <1>5

\* A robot may stay where it is.
LEMMA TargetsCentre ==
  ASSUME NEW p \in Coordinates
  PROVE  p \in Targets(p)
<1>1. p = [X |-> p.X + 1 * 0, Z |-> p.Z + 1 * 0]
  BY DEF Coordinates
<1>2. 0 \in Distances /\ 1 \in {-1, 1}
  BY DEF Distances
<1> QED
  BY <1>1, <1>2 DEF Targets

\* Wherever its last move has led, the next move of a robot keeps it on the map
\* and in its own sight.
LEMMA MoveUnnoticed ==
  ASSUME NEW p \in SpawnPositions, NEW a \in Targets(p), NEW b \in Targets(p)
  PROVE  /\ a \in Coordinates /\ b \in Coordinates
         /\ OnMap(b)
         /\ GetGridByPosition(b) \notin NascentGrids(a, b)
<1>1. p \in Coordinates
  OBVIOUS
<1>2. /\ a \in Coordinates /\ b \in Coordinates
      /\ a.X - p.X \in -MaxStep .. MaxStep /\ a.Z - p.Z \in -MaxStep .. MaxStep
      /\ b.X - p.X \in -MaxStep .. MaxStep /\ b.Z - p.Z \in -MaxStep .. MaxStep
  BY <1>1, TargetsNear
<1>3. /\ a.X \in Int /\ a.Z \in Int /\ b.X \in Int /\ b.Z \in Int
      /\ p.X \in Int /\ p.Z \in Int
  BY <1>1, <1>2 DEF Coordinates
<1>4. b.X - a.X \in -CellSize .. CellSize /\ b.Z - a.Z \in -CellSize .. CellSize
  BY <1>2, <1>3, StrideAssumption, WorldAssumption
<1>5. OnMap(b)
  BY StrideAssumption
<1> QED
  BY <1>2, <1>4, <1>5, ShortMovesStayInSight

-----------------------------------------------------------------------------
(***************************************************************************)
(* One client at a time.                                                   *)
(***************************************************************************)

\* Everything the invariant says of client c.
Client(c) == Life(c) /\ Progress(c) /\ OneTimer(c)

\* What it says it about.
Own(c) == <<thread[c], alive[c], promise_[c], conn[c], inbox[c], id_[c], pos_[c],
            timerId_[c], starts[c], timers[c], shutdowns[c], at[c]>>

\* A step that leaves client c alone keeps what the invariant says of it.
LEMMA ClientKept ==
  ASSUME NEW c \in Clients, Client(c), UNCHANGED Own(c)
  PROVE  Client(c)'
<1>1. c \in Reachable' <=> c \in Reachable
  BY DEF Own, Reachable
<1>2. Life(c)'
  BY DEF Client, Own, Life
<1>3. OneTimer(c)'
  BY <1>1 DEF Client, Own, OneTimer
<1>4. Progress(c)'
  BY <1>1 DEF Client, Own, Progress, Offline, AwaitsPid, AwaitsPosition, Plays, Gone,
              OwnPosition, AboutOthers
<1> QED
  BY <1>2, <1>3, <1>4 DEF Client

\* A client that hears of another player still has the same packets about itself
\* to handle.
LEMMA HearsOfOther ==
  ASSUME TypeOK, NEW c \in Clients, Client(c), NEW m \in Packets,
         m.type = "POS", m.pid # c,
         inbox'[c] = Append(inbox[c], m), c \in Reachable,
         UNCHANGED <<thread[c], alive[c], promise_[c], conn[c], id_[c], pos_[c],
                     timerId_[c], starts[c], timers[c], shutdowns[c], at[c]>>
  PROVE  Client(c)'
<1>0. /\ inbox[c] \in Seq(Packets) /\ Len(inbox[c]) \in Nat
      /\ Len(inbox'[c]) = Len(inbox[c]) + 1
      /\ \A i \in 1 .. Len(inbox[c]) : inbox'[c][i] = inbox[c][i]
      /\ inbox'[c][Len(inbox[c]) + 1] = m
  BY AppendProperties DEF TypeOK
<1>1. c \in Reachable'
  BY DEF Reachable
<1>2. Life(c)' /\ OneTimer(c)'
  BY <1>1 DEF Client, Life, OneTimer
<1>3. ASSUME NEW i \in Nat \ {0}, AboutOthers(c, i)
      PROVE  AboutOthers(c, i)'
  BY <1>0, <1>3 DEF AboutOthers
<1>4. ASSUME NEW i \in Nat \ {0}, OwnPosition(c, i)
      PROVE  OwnPosition(c, i)'
  BY <1>0, <1>4 DEF OwnPosition
<1>5. CASE AwaitsPid(c)
  <2>1. inbox'[c][1] = inbox[c][1]
    BY <1>0, <1>5 DEF AwaitsPid, OwnPosition
  <2> QED
    BY <1>1, <1>2, <1>3, <1>4, <1>5, <2>1 DEF AwaitsPid, Client, Progress
<1>6. CASE AwaitsPosition(c)
  BY <1>1, <1>2, <1>3, <1>4, <1>6 DEF AwaitsPosition, Client, Progress
<1>7. CASE Plays(c)
  BY <1>1, <1>2, <1>3, <1>7 DEF Plays, Client, Progress
<1>8. ~Offline(c) /\ ~Gone(c)
  BY DEF Offline, Gone, Reachable
<1> QED
  BY <1>5, <1>6, <1>7, <1>8 DEF Client, Progress

\* The connection comes up and the server runs initPlayer.
LEMMA EstablishedKeeps ==
  ASSUME TypeOK, \A d \in Clients : Client(d), NEW c \in Clients,
         NEW p \in SpawnPositions, Established(c, p), NEW d \in Clients
  PROVE  Client(d)'
<1>1. /\ conn' = [conn EXCEPT ![c] = "up"] /\ at' = [at EXCEPT ![c] = p]
      /\ conn[c] = "connecting"
      /\ inbox' = [Broadcast(Packet("POS", c, p)) EXCEPT
                     ![c] = <<Packet("SYNC_PID", c, NoPos), Packet("POS", c, p)>>]
      /\ UNCHANGED <<process, promise_, robot>>
  BY DEF Established
<1>2. c \notin Reachable
  BY <1>1 DEF Reachable
<1>3. UNCHANGED <<thread[d], alive[d], promise_[d], id_[d], pos_[d], timerId_[d],
                  starts[d], timers[d], shutdowns[d]>>
  BY <1>1 DEF process, robot
<1>4. d # c => UNCHANGED <<conn[d], at[d]>>
  BY <1>1 DEF TypeOK
<1>5. CASE d = c
  <2>1. inbox'[c] = <<Packet("SYNC_PID", c, NoPos), Packet("POS", c, p)>>
    BY <1>1 DEF Broadcast
  <2>2. conn'[c] = "up" /\ at'[c] = p /\ c \in Reachable'
    BY <1>1 DEF TypeOK, Reachable
  <2>3. Offline(c)
    BY <1>1, <1>2 DEF Client, Progress, AwaitsPid, AwaitsPosition, Plays, Gone
  <2>4. /\ Len(inbox'[c]) = 2 /\ inbox'[c][1] = Packet("SYNC_PID", c, NoPos)
        /\ inbox'[c][2] = Packet("POS", c, p)
    BY <2>1
  <2>5. AwaitsPid(c)'
    BY <1>3, <1>5, <2>2, <2>3, <2>4
    DEF Offline, AwaitsPid, OwnPosition, AboutOthers, Packet
  <2>6. Life(c)'
    BY <1>1, <1>3, <1>5, <2>2 DEF Client, Life
  <2>7. OneTimer(c)'
    BY <1>2, <1>3, <1>5, <2>2, <2>3 DEF Client, OneTimer, Offline
  <2> QED
    BY <1>5, <2>5, <2>6, <2>7 DEF Client, Progress
<1>6. CASE d # c /\ d \in Reachable
  <2>1. inbox'[d] = Append(inbox[d], Packet("POS", c, p))
    BY <1>1, <1>6 DEF Broadcast
  <2>2. Packet("POS", c, p) \in Packets
    BY DEF Packet, Packets, Places
  <2>3. Packet("POS", c, p).type = "POS" /\ Packet("POS", c, p).pid # d
    BY <1>6 DEF Packet
  <2> QED
    BY <1>3, <1>4, <1>6, <2>1, <2>2, <2>3, HearsOfOther
<1>7. CASE d # c /\ d \notin Reachable
  <2>1. inbox'[d] = inbox[d]
    BY <1>1, <1>7 DEF Broadcast
  <2> QED
    BY <1>3, <1>4, <1>7, <2>1, ClientKept DEF Own
<1> QED
  BY <1>5, <1>6, <1>7

\* The connection goes down: the callback cancels the one timer there is.
LEMMA DownKeeps ==
  ASSUME TypeOK, NEW c \in Clients, Client(c), ConnectionDown(c)
  PROVE  Client(c)'
<1>1. /\ conn'[c] = "down" /\ inbox'[c] = <<>> /\ promise_'[c] = TRUE
      /\ timers'[c] = timers[c] \ {timerId_[c]}
      /\ UNCHANGED <<thread[c], alive[c], at[c], id_[c], timerId_[c], starts[c],
                     shutdowns[c]>>
  BY DEF ConnectionDown, TypeOK, process
<1>2. c \in Reachable /\ c \notin Reachable'
  BY <1>1 DEF ConnectionDown, Reachable
<1>3. ~Offline(c) /\ ~Gone(c)
  BY <1>2 DEF Offline, Gone, Reachable
<1>4. Life(c)'
  BY <1>1, <1>2 DEF Client, Life, Reachable
<1>5. OneTimer(c)'
  BY <1>1, <1>2 DEF Client, OneTimer
<1>6. at[c] \in Coordinates /\ OnMap(at[c])
  <2>1. CASE at[c] \in SpawnPositions
    BY <2>1, TargetsCentre, StrideAssumption
  <2>2. CASE Plays(c)
    BY <2>2, MoveUnnoticed DEF Plays
  <2> QED
    BY <1>3, <2>1, <2>2 DEF Client, Progress, AwaitsPid, AwaitsPosition, OwnPosition
<1>7. id_[c] \in {-1, c} /\ starts[c] \in {0, 1}
  BY <1>3 DEF Client, Progress, AwaitsPid, AwaitsPosition, Plays
<1>8. Gone(c)'
  BY <1>1, <1>6, <1>7 DEF Gone
<1> QED
  BY <1>4, <1>5, <1>8 DEF Client, Progress

\* What handling a packet does to the ones that wait behind it.
LEMMA TailShifts ==
  ASSUME TypeOK, NEW c \in Clients, Handling(c)
  PROVE  /\ Len(inbox[c]) \in Nat \ {0}
         /\ Head(inbox[c]) = inbox[c][1]
         /\ Len(inbox'[c]) = Len(inbox[c]) - 1
         /\ \A i \in 1 .. Len(inbox[c]) - 1 : inbox'[c][i] = inbox[c][i + 1]
         /\ UNCHANGED <<thread[c], alive[c], promise_[c], conn[c], at[c]>>
         /\ c \in Reachable /\ c \in Reachable'
<1>1. inbox[c] \in Seq(Packets) /\ inbox[c] # <<>> /\ inbox'[c] = Tail(inbox[c])
  BY DEF Handling, TypeOK
<1>2. Len(inbox[c]) \in Nat \ {0}
  BY <1>1, EmptySeq
<1>3. Head(inbox[c]) = inbox[c][1]
  BY <1>1
<1>4. UNCHANGED <<thread, alive, promise_, conn, at>> /\ c \in Reachable
  BY DEF Handling, process
<1>5. c \in Reachable'
  BY <1>4 DEF Reachable
<1> QED
  BY <1>1, <1>2, <1>3, <1>4, <1>5, HeadTailProperties

\* Handling its pid: then the client knows it and waits for its position.
LEMMA SyncPidKeeps ==
  ASSUME TypeOK, NEW c \in Clients, Client(c), SyncPid(c)
  PROVE  Client(c)'
<1>1. Handling(c) /\ Head(inbox[c]).type = "SYNC_PID"
      /\ id_'[c] = Head(inbox[c]).pid
      /\ UNCHANGED <<pos_[c], timerId_[c], starts[c], timers[c], shutdowns[c]>>
  BY DEF SyncPid, TypeOK
<1>2. /\ Len(inbox[c]) \in Nat \ {0} /\ Head(inbox[c]) = inbox[c][1]
      /\ Len(inbox'[c]) = Len(inbox[c]) - 1
      /\ \A i \in 1 .. Len(inbox[c]) - 1 : inbox'[c][i] = inbox[c][i + 1]
      /\ UNCHANGED <<thread[c], alive[c], promise_[c], conn[c], at[c]>>
      /\ c \in Reachable /\ c \in Reachable'
  BY <1>1, TailShifts
<1>3. Life(c)' /\ OneTimer(c)'
  BY <1>1, <1>2 DEF Client, Life, OneTimer
<1>4. ~Offline(c) /\ ~Gone(c)
  BY <1>2 DEF Offline, Gone, Reachable
<1>5. ~AwaitsPosition(c)
  BY <1>1, <1>2 DEF AwaitsPosition, OwnPosition, Packet
<1>6. ~Plays(c)
  BY <1>1, <1>2 DEF Plays, AboutOthers
<1>7. AwaitsPid(c)
  BY <1>4, <1>5, <1>6 DEF Client, Progress
<1>8. Len(inbox[c]) >= 2 /\ inbox'[c][1] = inbox[c][2] /\ Len(inbox'[c]) >= 1
  BY <1>2, <1>7 DEF AwaitsPid, OwnPosition
<1>9. AboutOthers(c, 2)'
  <2> SUFFICES ASSUME NEW j \in 2 .. Len(inbox'[c])
               PROVE  inbox'[c][j].type = "POS" /\ inbox'[c][j].pid # c
    BY DEF AboutOthers
  <2>1. j \in 1 .. Len(inbox[c]) - 1 /\ j + 1 \in 3 .. Len(inbox[c])
    BY <1>2
  <2> QED
    BY <1>2, <1>7, <2>1, SMTT(30) DEF AwaitsPid, AboutOthers
<1>10. AwaitsPosition(c)'
  BY <1>1, <1>2, <1>7, <1>8, <1>9 DEF AwaitsPid, AwaitsPosition, OwnPosition
<1> QED
  BY <1>3, <1>10 DEF Client, Progress

\* Handling a position: the own one comes once and starts the robot, those of
\* others do nothing.
LEMMA BroadcastKeeps ==
  ASSUME TypeOK, NEW c \in Clients, Client(c), HandleBroadcast(c)
  PROVE  Client(c)'
<1>1. Handling(c) /\ Head(inbox[c]).type = "POS" /\ id_'[c] = id_[c]
  BY DEF HandleBroadcast
<1>2. /\ Len(inbox[c]) \in Nat \ {0} /\ Head(inbox[c]) = inbox[c][1]
      /\ Len(inbox'[c]) = Len(inbox[c]) - 1
      /\ \A i \in 1 .. Len(inbox[c]) - 1 : inbox'[c][i] = inbox[c][i + 1]
      /\ UNCHANGED <<thread[c], alive[c], promise_[c], conn[c], at[c]>>
      /\ c \in Reachable /\ c \in Reachable'
  BY <1>1, TailShifts
<1>3. Life(c)'
  BY <1>2 DEF Client, Life
<1>4. ~Offline(c) /\ ~Gone(c)
  BY <1>2 DEF Offline, Gone, Reachable
<1>5. ~AwaitsPid(c)
  BY <1>1, <1>2 DEF AwaitsPid
<1>6. ASSUME AboutOthers(c, 2) \/ AboutOthers(c, 1)
      PROVE  AboutOthers(c, 1)'
  <2> SUFFICES ASSUME NEW j \in 1 .. Len(inbox'[c])
               PROVE  inbox'[c][j].type = "POS" /\ inbox'[c][j].pid # c
    BY DEF AboutOthers
  <2>1. /\ j \in 1 .. Len(inbox[c]) - 1 /\ j + 1 \in 2 .. Len(inbox[c])
        /\ j + 1 \in 1 .. Len(inbox[c])
    BY <1>2
  <2> QED
    BY <1>2, <1>6, <2>1 DEF AboutOthers
<1>7. CASE AwaitsPosition(c)
  <2>1. Head(inbox[c]).pid = id_[c] /\ Head(inbox[c]).p = at[c]
    BY <1>2, <1>7 DEF AwaitsPosition, OwnPosition, Packet
  <2>2. /\ pos_'[c] = at[c] /\ starts'[c] = 1 /\ timerId_'[c] = 1
        /\ timers'[c] = timers[c] \cup {1} /\ shutdowns'[c] = shutdowns[c] \cup {1}
    BY <1>7, <2>1 DEF HandleBroadcast, TypeOK, AwaitsPosition
  <2>3. at[c] \in SpawnPositions /\ at[c] \in Targets(at[c])
    BY <1>7, TargetsCentre DEF AwaitsPosition, OwnPosition
  <2>4. Plays(c)'
    BY <1>1, <1>2, <1>6, <1>7, <2>2, <2>3 DEF Plays, AwaitsPosition
  <2>5. timers[c] = {} /\ shutdowns[c] \subseteq {1}
    BY <1>7 DEF Client, OneTimer, AwaitsPosition
  <2>6. OneTimer(c)'
    BY <1>2, <2>2, <2>5 DEF OneTimer
  <2> QED
    BY <1>3, <2>4, <2>6 DEF Client, Progress
<1>8. CASE Plays(c)
  <2>1. Head(inbox[c]).pid # id_[c]
    <3>1. 1 \in 1 .. Len(inbox[c])
      BY <1>2
    <3> QED
      BY <1>2, <1>8, <3>1 DEF Plays, AboutOthers
  <2>2. UNCHANGED <<pos_[c], timerId_[c], starts[c], timers[c], shutdowns[c]>>
    BY <2>1 DEF HandleBroadcast
  <2>3. Plays(c)'
    BY <1>1, <1>2, <1>6, <1>8, <2>2 DEF Plays
  <2>4. OneTimer(c)'
    BY <1>2, <2>2 DEF Client, OneTimer
  <2> QED
    BY <1>3, <2>3, <2>4 DEF Client, Progress
<1> QED
  BY <1>4, <1>5, <1>7, <1>8 DEF Client, Progress

\* A client that handles its own position has not started its robot yet.
LEMMA StartsOnce ==
  ASSUME TypeOK, NEW c \in Clients, Client(c), HandleBroadcast(c),
         Head(inbox[c]).pid = id_[c]
  PROVE  starts[c] = 0
<1>1. Handling(c)
  BY DEF HandleBroadcast
<1>2. c \in Reachable /\ Head(inbox[c]) = inbox[c][1] /\ Len(inbox[c]) \in Nat \ {0}
  BY <1>1, TailShifts
<1>3. 1 \in 1 .. Len(inbox[c])
  BY <1>2
<1>4. ~Plays(c)
  BY <1>2, <1>3 DEF Plays, AboutOthers
<1>5. ~Offline(c) /\ ~Gone(c)
  BY <1>2 DEF Offline, Gone, Reachable
<1> QED
  BY <1>4, <1>5 DEF Client, Progress, AwaitsPid, AwaitsPosition

\* A client whose robot has a timer plays.
LEMMA TimerMeansPlay ==
  ASSUME NEW c \in Clients, Client(c), timers[c] # {}
  PROVE  Plays(c)
<1>1. starts[c] = 1 /\ c \in Reachable
  BY DEF Client, OneTimer
<1>2. ~Offline(c) /\ ~Gone(c)
  BY <1>1 DEF Offline, Gone, Reachable
<1> QED
  BY <1>1, <1>2 DEF Client, Progress, AwaitsPid, AwaitsPosition

\* A robot that acts talks, or moves to a place from which the server has nothing
\* new to tell it about itself.
LEMMA ActionKeeps ==
  ASSUME TypeOK, NEW c \in Clients, Client(c), AiRobotAction(c)
  PROVE  Client(c)'
<1>1. /\ timers[c] # {} /\ pos_' = pos_
      /\ UNCHANGED <<process, promise_, id_, timerId_, starts, timers, shutdowns>>
  BY DEF AiRobotAction, Acting
<1>2. Plays(c)
  BY <1>1, TimerMeansPlay
<1>3. starts[c] = 1 /\ c \in Reachable
  BY <1>2 DEF Plays
<1>4. CASE UNCHANGED net
  <2>1. UNCHANGED Own(c)
    BY <1>1, <1>4 DEF net, process, Own
  <2> QED
    BY <2>1, ClientKept
<1>5. ASSUME NEW p \in Targets(pos_[c]), ServeMove(c, p), ~UNCHANGED net
      PROVE  Client(c)'
  <2>1. /\ at' = [at EXCEPT ![c] = p] /\ UNCHANGED conn
        /\ GetGridByPosition(p) \notin NascentGrids(at[c], p) => inbox' = inbox
    BY <1>5 DEF ServeMove
  <2>2. GetGridByPosition(p) \notin NascentGrids(at[c], p)
    BY <1>2, MoveUnnoticed DEF Plays
  <2>3. inbox' = inbox /\ at'[c] = p
    BY <2>1, <2>2 DEF TypeOK
  <2>4. c \in Reachable'
    BY <1>3, <2>1 DEF Reachable
  <2>5. Plays(c)'
    BY <1>1, <1>2, <2>3, <2>4 DEF Plays, AboutOthers
  <2>6. Life(c)'
    BY <1>1, <2>1 DEF Client, Life, process
  <2>7. OneTimer(c)'
    BY <1>1, <1>3, <2>4 DEF Client, OneTimer
  <2> QED
    BY <2>5, <2>6, <2>7 DEF Client, Progress
<1> QED
  BY <1>4, <1>5 DEF AiRobotAction

\* The timer that ends the game leaves the connection to the connection callback.
LEMMA ShutdownKeeps ==
  ASSUME TypeOK, NEW c \in Clients, Client(c), ShutdownTimer(c)
  PROVE  Client(c)'
<1>1. /\ shutdowns'[c] \subseteq shutdowns[c]
      /\ conn'[c] = IF conn[c] = "up" THEN "shutdown" ELSE conn[c]
      /\ UNCHANGED <<process, promise_, inbox, at, id_, pos_, timerId_, starts, timers>>
  BY DEF ShutdownTimer, TypeOK
<1>2. c \in Reachable' <=> c \in Reachable
  BY <1>1 DEF Reachable
<1>3. Life(c)'
  BY <1>1 DEF Client, Life, process
<1>4. OneTimer(c)'
  BY <1>1, <1>2 DEF Client, OneTimer
<1>5. Progress(c)'
  BY <1>1, <1>2 DEF Client, Progress, Offline, AwaitsPid, AwaitsPosition, Plays, Gone,
                    OwnPosition, AboutOthers
<1> QED
  BY <1>3, <1>4, <1>5 DEF Client

\* The steps of a client's thread: they change its connection only to ask for it.
LEMMA ThreadKeeps ==
  ASSUME TypeOK, NEW c \in Clients, Client(c), Thread(c)
  PROVE  Client(c)'
<1>1. UNCHANGED <<inbox, at, robot>>
  BY DEF Thread, NewClient, Join, WaitPlayExit, CountExit, DestroyPlayer, net
<1>2. /\ UNCHANGED promise_
      /\ conn'[c] = IF thread[c] = "Join" THEN "connecting" ELSE conn[c]
  BY DEF Thread, NewClient, Join, WaitPlayExit, CountExit, DestroyPlayer, net, TypeOK
<1>3. thread[c] = "Join" => conn[c] = "none"
  BY DEF Client, Life
<1>4. c \in Reachable' <=> c \in Reachable
  BY <1>2, <1>3 DEF Reachable
<1>5. OneTimer(c)'
  BY <1>1, <1>4 DEF Client, OneTimer, robot
<1>6. Progress(c)'
  BY <1>1, <1>2, <1>3, <1>4
  DEF Client, Progress, Offline, AwaitsPid, AwaitsPosition, Plays, Gone,
      OwnPosition, AboutOthers, robot, Reachable
<1>7. Life(c)'
  <2>1. CASE NewClient(c)
    BY <1>2, <2>1 DEF NewClient, Client, Life, TypeOK
  <2>2. CASE Join(c)
    BY <1>2, <2>2 DEF Join, Client, Life, TypeOK
  <2>3. CASE WaitPlayExit(c)
    BY <1>2, <2>3 DEF WaitPlayExit, Client, Life, TypeOK
  <2>4. CASE CountExit(c)
    BY <1>2, <2>4 DEF CountExit, Client, Life, TypeOK
  <2>5. CASE DestroyPlayer(c)
    BY <1>2, <2>5 DEF DestroyPlayer, Client, Life, TypeOK
  <2> QED
    BY <2>1, <2>2, <2>3, <2>4, <2>5 DEF Thread
<1> QED
  BY <1>5, <1>6, <1>7 DEF Client

\* The steps of client c, but for Established, touch nothing of other clients.
LEMMA OthersUntouched ==
  ASSUME TypeOK, NEW c \in Clients, NEW d \in Clients, d # c,
         \/ Thread(c) \/ ConnectionDown(c) \/ SyncPid(c) \/ HandleBroadcast(c)
         \/ AiRobotAction(c) \/ ShutdownTimer(c)
  PROVE  UNCHANGED Own(d)
<1> USE DEF Own, TypeOK, process, net, robot
<1>1. CASE Thread(c)
  BY <1>1 DEF Thread, NewClient, Join, WaitPlayExit, CountExit, DestroyPlayer
<1>2. CASE ConnectionDown(c)
  BY <1>2 DEF ConnectionDown
<1>3. CASE SyncPid(c)
  BY <1>3 DEF SyncPid, Handling
<1>4. CASE HandleBroadcast(c)
  BY <1>4 DEF HandleBroadcast, Handling
<1>5. CASE AiRobotAction(c)
  BY <1>5 DEF AiRobotAction, Acting, ServeMove
<1>6. CASE ShutdownTimer(c)
  BY <1>6 DEF ShutdownTimer
<1> QED
  BY <1>1, <1>2, <1>3, <1>4, <1>5, <1>6

\* Every step keeps what the invariant says of every client.
LEMMA ClientStep ==
  ASSUME TypeOK, \A d \in Clients : Client(d), [Next]_vars
  PROVE  \A d \in Clients : Client(d)'
<1> SUFFICES ASSUME NEW d \in Clients PROVE Client(d)'
  OBVIOUS
<1>1. CASE Main \/ Over \/ Polling \/ UNCHANGED vars
  <2>1. UNCHANGED Own(d)
    BY <1>1 DEF Main, EnterLoop, LeaveLoop, JoinThreads, Over, Polling, vars,
                process, net, robot, Own
  <2> QED
    BY <2>1, ClientKept
<1>2. ASSUME NEW c \in Clients, NEW p \in SpawnPositions, Established(c, p)
      PROVE  Client(d)'
  BY <1>2, EstablishedKeeps
<1>3. ASSUME NEW c \in Clients,
             \/ Thread(c) \/ ConnectionDown(c) \/ SyncPid(c) \/ HandleBroadcast(c)
             \/ AiRobotAction(c) \/ ShutdownTimer(c)
      PROVE  Client(d)'
  <2>1. CASE d = c
    BY <1>3, <2>1, ThreadKeeps, DownKeeps, SyncPidKeeps, BroadcastKeeps,
       ActionKeeps, ShutdownKeeps
  <2>2. CASE d # c
    BY <1>3, <2>2, OthersUntouched, ClientKept
  <2> QED
    BY <2>1, <2>2
<1> QED
  BY <1>1, <1>2, <1>3 DEF Next

-----------------------------------------------------------------------------
(***************************************************************************)
(* The end of the program.                                                 *)
(***************************************************************************)

\* The threads that have exited are finitely many.
LEMMA ExitedFinite ==
  /\ IsFiniteSet(Exited)
  /\ Cardinality(Exited) \in Nat
  /\ Cardinality(Exited) <= ThreadNum
  /\ Cardinality(Exited) = ThreadNum => Exited = Clients
<1>1. IsFiniteSet(Clients) /\ Cardinality(Clients) = ThreadNum
  BY FS_Interval DEF Clients
<1>2. Exited \in SUBSET Clients
  BY DEF Exited
<1> QED
  BY <1>1, <1>2, FS_Subset, FS_CardinalityType

\* A thread that passes fetch_add is counted once, and the loop is told to quit
\* by the last one.
LEMMA CountStep ==
  ASSUME TypeOK, ExitsCounted, NEW c \in Clients, CountExit(c)
  PROVE  ExitsCounted' /\ exited_client_num' <= ThreadNum
<1>1. /\ thread' = [thread EXCEPT ![c] = "destroy"] /\ thread[c] = "fetch_add"
      /\ exited_client_num' = exited_client_num + 1
      /\ main' = main
  BY DEF CountExit
<1>2. quit' <=> quit \/ exited_client_num + 1 = ThreadNum
  BY DEF CountExit
<1>3. c \notin Exited /\ Exited' = Exited \cup {c}
  BY <1>1 DEF Exited, TypeOK
<1>4. Cardinality(Exited') = Cardinality(Exited) + 1
  BY <1>3, ExitedFinite, FS_AddElement
<1>5. Cardinality(Exited) # ThreadNum
  BY <1>3, ExitedFinite
<1>6. ~quit
  BY <1>5 DEF ExitsCounted
<1>7. exited_client_num = Cardinality(Exited) /\ exited_client_num \in Nat
  BY ExitedFinite DEF ExitsCounted
<1>8. exited_client_num' = Cardinality(Exited') /\ exited_client_num' <= ThreadNum
  BY <1>1, <1>4, <1>5, <1>7, ExitedFinite
<1>9. (quit' => exited_client_num' = ThreadNum) /\ main' \notin {"join", "done"}
  BY <1>1, <1>2, <1>6 DEF ExitsCounted
<1> QED
  BY <1>8, <1>9 DEF ExitsCounted

\* Every step keeps the count.
LEMMA ExitsStep ==
  ASSUME TypeOK, ExitsCounted, [Next]_vars
  PROVE  ExitsCounted' /\ exited_client_num' \in 0 .. ThreadNum
<1>0. exited_client_num \in 0 .. ThreadNum
  BY DEF TypeOK
<1>1. ASSUME NEW c \in Clients, CountExit(c)
      PROVE  ExitsCounted' /\ exited_client_num' \in 0 .. ThreadNum
  <2>1. exited_client_num' = exited_client_num + 1
    BY <1>1 DEF CountExit
  <2> QED
    BY <1>0, <1>1, <2>1, CountStep
<1>2. ASSUME UNCHANGED <<exited_client_num, quit>>, Exited' = Exited,
             main' \in {"join", "done"} => main \in {"join", "done"} \/ quit
      PROVE  ExitsCounted' /\ exited_client_num' \in 0 .. ThreadNum
  BY <1>0, <1>2 DEF ExitsCounted
<1>3. CASE Main
  <2>1. UNCHANGED <<exited_client_num, quit, thread>>
    BY <1>3 DEF Main, EnterLoop, LeaveLoop, JoinThreads
  <2>2. main' \in {"join", "done"} => main \in {"join", "done"} \/ quit
    BY <1>3 DEF Main, EnterLoop, LeaveLoop, JoinThreads
  <2>3. Exited' = Exited
    BY <2>1 DEF Exited
  <2> QED
    BY <1>2, <2>1, <2>2, <2>3
<1>4. ASSUME NEW c \in Clients,
             NewClient(c) \/ Join(c) \/ WaitPlayExit(c) \/ DestroyPlayer(c)
      PROVE  ExitsCounted' /\ exited_client_num' \in 0 .. ThreadNum
  <2>1. UNCHANGED <<main, exited_client_num, quit>>
    BY <1>4 DEF NewClient, Join, WaitPlayExit, DestroyPlayer
  <2>2. /\ thread'[c] \in {"destroy", "done"} <=> thread[c] \in {"destroy", "done"}
        /\ \A d \in Clients \ {c} : thread'[d] = thread[d]
    BY <1>4 DEF NewClient, Join, WaitPlayExit, DestroyPlayer, TypeOK
  <2>3. Exited' = Exited
    BY <2>2 DEF Exited
  <2> QED
    BY <1>2, <2>1, <2>3
<1>5. ASSUME UNCHANGED process
      PROVE  ExitsCounted' /\ exited_client_num' \in 0 .. ThreadNum
  BY <1>2, <1>5 DEF process, Exited
<1>6. ASSUME NEW c \in Clients,
             \/ \E p \in SpawnPositions : Established(c, p)
             \/ ConnectionDown(c) \/ SyncPid(c) \/ HandleBroadcast(c)
             \/ AiRobotAction(c) \/ ShutdownTimer(c)
      PROVE  UNCHANGED process
  BY <1>6 DEF Established, ConnectionDown, SyncPid, HandleBroadcast, Handling,
              AiRobotAction, Acting, ShutdownTimer
<1>7. CASE Over \/ Polling \/ UNCHANGED vars
  BY <1>5, <1>7 DEF Over, Polling, vars
<1> QED
  BY <1>1, <1>3, <1>4, <1>5, <1>6, <1>7 DEF Next, Thread

-----------------------------------------------------------------------------
(***************************************************************************)
(* Types.                                                                  *)
(***************************************************************************)

\* The packets the server sends are packets.
LEMMA PacketType ==
  ASSUME NEW c \in Clients, NEW p \in Places
  PROVE  Packet("POS", c, p) \in Packets /\ Packet("SYNC_PID", c, NoPos) \in Packets
BY DEF Packet, Packets, Places

\* Every step keeps the types, given that robots are started once.
LEMMA TypeStep ==
  ASSUME TypeOK, \A d \in Clients : Client(d), [Next]_vars,
         exited_client_num' \in 0 .. ThreadNum
  PROVE  TypeOK'
<1> USE DEF TypeOK, process, net, robot
<1>1. CASE Main
  BY <1>1 DEF Main, EnterLoop, LeaveLoop, JoinThreads
<1>2. ASSUME NEW c \in Clients, NewClient(c) \/ Join(c) \/ WaitPlayExit(c) \/ DestroyPlayer(c)
      PROVE  TypeOK'
  BY <1>2 DEF NewClient, Join, WaitPlayExit, DestroyPlayer
<1>3. ASSUME NEW c \in Clients, CountExit(c)
      PROVE  TypeOK'
  <2>1. quit' \in BOOLEAN
    BY <1>3, Zenon DEF CountExit
  <2> QED
    BY <1>3, <2>1 DEF CountExit
<1>4. ASSUME NEW c \in Clients, NEW p \in SpawnPositions, Established(c, p)
      PROVE  TypeOK'
  <2> DEFINE m == Packet("POS", c, p)
             n == Packet("SYNC_PID", c, NoPos)
  <2>1. m \in Packets /\ n \in Packets
    BY PacketType DEF Places
  <2>2. <<n, m>> \in Seq(Packets)
    BY <2>1
  <2>3. \A d \in Clients : Append(inbox[d], m) \in Seq(Packets)
    BY <2>1, AppendProperties
  <2> HIDE DEF m, n
  <2>4. Broadcast(m) \in [Clients -> Seq(Packets)]
    BY <2>3 DEF Broadcast
  <2>5. inbox' = [Broadcast(m) EXCEPT ![c] = <<n, m>>]
    BY <1>4 DEF Established, m, n
  <2>6. inbox' \in [Clients -> Seq(Packets)]
    BY <2>2, <2>4, <2>5
  <2> QED
    BY <1>4, <2>6 DEF Established, Places
<1>5. ASSUME NEW c \in Clients, ConnectionDown(c)
      PROVE  TypeOK'
  <2>1. inbox' \in [Clients -> Seq(Packets)]
    BY <1>5, EmptySeq DEF ConnectionDown
  <2> QED
    BY <1>5, <2>1 DEF ConnectionDown
<1>6. ASSUME NEW c \in Clients, Handling(c)
      PROVE  /\ inbox' \in [Clients -> Seq(Packets)]
             /\ Head(inbox[c]) \in Packets
  <2>1. inbox[c] \in Seq(Packets) /\ inbox[c] # <<>>
    BY <1>6 DEF Handling
  <2>2. Head(inbox[c]) \in Packets /\ Tail(inbox[c]) \in Seq(Packets)
    BY <2>1, HeadTailProperties
  <2> QED
    BY <1>6, <2>2 DEF Handling
<1>7. ASSUME NEW c \in Clients, SyncPid(c)
      PROVE  TypeOK'
  <2>1. /\ inbox' \in [Clients -> Seq(Packets)] /\ Head(inbox[c]).pid \in Clients
        /\ UNCHANGED <<process, promise_, conn, at, actions>>
    BY <1>6, <1>7 DEF SyncPid, Handling, Packets
  <2> QED
    BY <1>7, <2>1 DEF SyncPid
<1>8. ASSUME NEW c \in Clients, HandleBroadcast(c)
      PROVE  TypeOK'
  <2>1. /\ inbox' \in [Clients -> Seq(Packets)] /\ Head(inbox[c]).p \in Places
        /\ UNCHANGED <<process, promise_, conn, at, actions>>
        /\ Head(inbox[c]).type = "POS"
    BY <1>6, <1>8 DEF HandleBroadcast, Handling, Packets
  <2>2. CASE Head(inbox[c]).pid = id_[c]
    <3>1. starts[c] + 1 = 1
      BY <1>8, <2>2, StartsOnce
    <3>2. 1 \in Timers
      BY DEF Timers
    <3>3. /\ pos_' = [pos_ EXCEPT ![c] = Head(inbox[c]).p]
          /\ starts' = [starts EXCEPT ![c] = 1]
          /\ timerId_' = [timerId_ EXCEPT ![c] = 1]
          /\ timers' = [timers EXCEPT ![c] = @ \cup {1}]
          /\ shutdowns' = [shutdowns EXCEPT ![c] = @ \cup {1}]
          /\ UNCHANGED id_
      <4> HIDE DEF TypeOK, process, net, robot
      <4> QED
        BY <1>8, <2>2, <3>1 DEF HandleBroadcast
    <3>4. timers[c] \cup {1} \in SUBSET Timers /\ shutdowns[c] \cup {1} \in SUBSET Timers
      BY <3>2
    <3> QED
      BY <2>1, <3>2, <3>3, <3>4
  <2>3. CASE Head(inbox[c]).pid # id_[c]
    BY <1>8, <2>1, <2>3 DEF HandleBroadcast
  <2> QED
    BY <2>2, <2>3
<1>9. ASSUME NEW c \in Clients, AiRobotAction(c)
      PROVE  TypeOK'
  <2>1. actions' \in [Clients -> 0 .. MaxActions] /\ UNCHANGED pos_
        /\ UNCHANGED <<process, promise_, id_, timerId_, starts, timers, shutdowns>>
    BY <1>9 DEF AiRobotAction, Acting
  <2>2. CASE UNCHANGED net
    BY <2>1, <2>2
  <2>3. ASSUME NEW p \in Targets(pos_[c]), ServeMove(c, p), ~UNCHANGED net
        PROVE  TypeOK'
    <3>1. timers[c] # {}
      BY <1>9 DEF AiRobotAction, Acting
    <3>2. Plays(c)
      BY <3>1, TimerMeansPlay
    <3>3. /\ at' = [at EXCEPT ![c] = p] /\ UNCHANGED conn
          /\ GetGridByPosition(p) \notin NascentGrids(at[c], p) => inbox' = inbox
      BY <2>3 DEF ServeMove
    <3>4. p \in Coordinates /\ inbox' = inbox
      BY <3>2, <3>3, MoveUnnoticed DEF Plays
    <3> QED
      BY <2>1, <3>3, <3>4 DEF Places
  <2> QED
    BY <1>9, <2>2, <2>3 DEF AiRobotAction
<1>10. ASSUME NEW c \in Clients, ShutdownTimer(c)
      PROVE  TypeOK'
  BY <1>10 DEF ShutdownTimer
<1>11. CASE Over \/ Polling \/ UNCHANGED vars
  BY <1>11 DEF Over, Polling, vars
<1> QED
  BY <1>1, <1>2, <1>3, <1>4, <1>5, <1>7, <1>8, <1>9, <1>10, <1>11
  DEF Next, Thread

-----------------------------------------------------------------------------
(***************************************************************************)
(* The theorems.                                                           *)
(***************************************************************************)

\* The invariant holds before the threads start.
LEMMA ClientInit == Init => TypeOK /\ ClientInv
<1> SUFFICES ASSUME Init PROVE TypeOK /\ ClientInv
  OBVIOUS
<1>1. TypeOK
  <2>1. <<>> \in Seq(Packets) /\ NoPos \in Places
    BY EmptySeq DEF Places
  <2>2. 0 \in 0 .. ThreadNum /\ 0 \in 0 .. MaxActions
    OBVIOUS
  <2>3. /\ inbox \in [Clients -> Seq(Packets)]
        /\ pos_ \in [Clients -> Places] /\ at \in [Clients -> Places]
        /\ actions \in [Clients -> 0 .. MaxActions]
    BY <2>1, <2>2 DEF Init
  <2>4. /\ quit \in BOOLEAN /\ alive \in [Clients -> BOOLEAN]
        /\ promise_ \in [Clients -> BOOLEAN]
    BY DEF Init
  <2>5. /\ id_ \in [Clients -> Clients \cup {-1}]
        /\ timerId_ \in [Clients -> Timers \cup {-1}]
        /\ starts \in [Clients -> {0} \cup Timers]
    BY DEF Init
  <2>6. /\ timers \in [Clients -> SUBSET Timers]
        /\ shutdowns \in [Clients -> SUBSET Timers]
    BY DEF Init
  <2> QED
    BY <2>2, <2>3, <2>4, <2>5, <2>6 DEF Init, TypeOK
<1>2. ASSUME NEW c \in Clients
      PROVE  Life(c) /\ Progress(c) /\ OneTimer(c)
  <2>1. Life(c)
    BY DEF Init, Life
  <2>2. Offline(c)
    BY DEF Init, Offline
  <2>3. OneTimer(c)
    BY DEF Init, OneTimer
  <2> QED
    BY <2>1, <2>2, <2>3 DEF Progress
<1>3. Exited = {}
  BY DEF Init, Exited
<1>4. ExitsCounted
  BY <1>3, FS_EmptySet DEF Init, ExitsCounted
<1> QED
  BY <1>1, <1>2, <1>4 DEF ClientInv

\* For every number of clients, every map and every length of the game, the
\* types are right and the inductive invariant holds: each robot is started by
\* the one packet that tells its client where it is.
THEOREM ClientInvariance == Spec => [](TypeOK /\ ClientInv)
<1>1. Init => TypeOK /\ ClientInv
  BY ClientInit
<1>2. ASSUME TypeOK, ClientInv, [Next]_vars
      PROVE  TypeOK' /\ ClientInv'
  <2>1. (\A d \in Clients : Client(d)) /\ ExitsCounted
    BY <1>2 DEF ClientInv, Client
  <2>2. ExitsCounted' /\ exited_client_num' \in 0 .. ThreadNum
    BY <1>2, <2>1, ExitsStep
  <2>3. TypeOK' /\ \A d \in Clients : Client(d)'
    BY <1>2, <2>1, <2>2, TypeStep, ClientStep
  <2> QED
    BY <2>2, <2>3 DEF ClientInv, Client
<1> QED
  BY <1>1, <1>2, PTL DEF Spec

\* The variables of the AI client hold values of their types: no robot has more
\* timers than actions.
THEOREM TypeCorrect == Spec => []TypeOK
BY ClientInvariance, PTL

\* AiRobotAction never runs without a connection or after its Player is gone:
\* the connection callback cancels the only timer ever started.
THEOREM RobotAlwaysConnected == Spec => []RobotHasConnection
<1>1. TypeOK /\ ClientInv => RobotHasConnection
  <2> SUFFICES ASSUME TypeOK, ClientInv, NEW c \in Clients, timers[c] # {}
               PROVE  alive[c] /\ c \in Reachable
    BY DEF RobotHasConnection
  <2>1. c \in Reachable
    BY DEF ClientInv, OneTimer
  <2>2. alive[c]
    <3>1. conn[c] # "none" /\ ~promise_[c]
      BY <2>1 DEF ClientInv, Life, Reachable
    <3>2. thread[c] = "WaitPlayExit"
      BY <3>1 DEF ClientInv, Life, TypeOK
    <3> QED
      BY <3>2 DEF ClientInv, Life
  <2> QED
    BY <2>1, <2>2
<1> QED
  BY <1>1, ClientInvariance, PTL

\* The server, which does not check what it is asked for, never has a robot
\* outside the map.
THEOREM RequestsAlwaysOnMap == Spec => []RequestsOnMap
<1>1. ClientInv => RequestsOnMap
  <2> SUFFICES ASSUME ClientInv, NEW c \in Clients, at[c] # NoPos
               PROVE  OnMap(at[c])
    BY DEF RequestsOnMap
  <2>1. CASE at[c] \in SpawnPositions
    BY <2>1, TargetsCentre, StrideAssumption
  <2>2. CASE Plays(c)
    BY <2>2, MoveUnnoticed DEF Plays
  <2> QED
    BY <2>1, <2>2
    DEF ClientInv, Progress, Offline, AwaitsPid, AwaitsPosition, Gone, OwnPosition
<1> QED
  BY <1>1, ClientInvariance, PTL

\* main leaves its loop only after the last client is gone.
THEOREM LoopAlwaysServesAll == Spec => []LoopServesAll
<1>1. ClientInv => LoopServesAll
  <2> SUFFICES ASSUME ClientInv, main \in {"join", "done"}, NEW c \in Clients
               PROVE  conn[c] = "down" /\ timers[c] = {}
    BY DEF LoopServesAll
  <2>1. Cardinality(Exited) = ThreadNum
    BY DEF ClientInv, ExitsCounted
  <2>2. c \in Exited
    BY <2>1, ExitedFinite
  <2>3. conn[c] = "down"
    BY <2>2 DEF ClientInv, Life, Exited
  <2> QED
    BY <2>3 DEF ClientInv, OneTimer, Reachable
<1> QED
  BY <1>1, ClientInvariance, PTL
=============================================================================

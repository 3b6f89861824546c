---------------------------- MODULE WorldProofs ----------------------------
(***************************************************************************)
(* Proofs about World, for every number of threads, players, positions and *)
(* requests and every size of the map.                                     *)
(***************************************************************************)
EXTENDS WorldInvariant, AOIProofs, SequenceTheorems

USE PlayersAssumption, MarkersAssumption

-----------------------------------------------------------------------------
(***************************************************************************)
(* Type correctness.                                                       *)
(***************************************************************************)

\* A client that reads a packet still knows things of the right kind.
LEMMA ReceiveType ==
  ASSUME NEW c \in Clients, NEW m \in Packets
  PROVE  Receive(c, m) \in Clients
<1>1. CASE m.type = "POS"
  BY <1>1 DEF Receive, Clients, Packets, Sights
<1>2. CASE m.type = "MOVE"
  BY <1>2 DEF Receive, Clients, Packets, Sights
<1>3. CASE m.type = "LEAVE"
  BY <1>3 DEF Receive, Clients, Packets, Sights
<1>4. CASE m.type = "TALK"
  BY <1>4 DEF Receive, Clients, Packets, Sights
<1> QED
  BY <1>1, <1>2, <1>3, <1>4 DEF Packets

\* Writing a packet keeps what the clients know of the right kind ...
LEMMA SendInLoopType ==
  ASSUME NEW c \in [Pids -> Clients], NEW q \in Pids, NEW m \in Packets
  PROVE  SendInLoop(c, q, m) \in [Pids -> Clients]
BY ReceiveType DEF SendInLoop

\* ... and so does the part of a send that happens at once ...
LEMMA SendNowType ==
  ASSUME NEW t, NEW c \in [Pids -> Clients], NEW q \in Pids, NEW m \in Packets
  PROVE  SendNow(t, c, q, m) \in [Pids -> Clients]
BY SendInLoopType DEF SendNow

\* ... while the other part queues a functor for a player.
LEMMA SendLaterType ==
  ASSUME NEW t, NEW q \in Pids, NEW m \in Packets,
         pending \in [IoThreads -> Seq(Functors)]
  PROVE  SendLater(t, q, m) \in [IoThreads -> Seq(Functors)]
<1>1. [dest |-> q, packet |-> m] \in Functors
  BY DEF Functors
<1>2. CASE owner[q] \in IoThreads
  <2>1. Append(pending[owner[q]], [dest |-> q, packet |-> m]) \in Seq(Functors)
    BY <1>1, <1>2, AppendProperties
  <2> QED
    BY <1>2, <2>1 DEF SendLater
<1>3. CASE owner[q] \notin IoThreads
  BY <1>3 DEF SendLater
<1> QED
  BY <1>2, <1>3

\* The packets the handlers build, for a player and a place that make sense.
LEMMA PacketType ==
  ASSUME NEW p \in Pids, NEW at \in Coordinates \cup {NoPos}
  PROVE  /\ Pos(p, at) \in Packets
         /\ Move(p, at) \in Packets
         /\ Leave(p) \in Packets
         /\ Talk(p) \in Packets
BY DEF Pos, Move, Leave, Talk, Packets

\* What the write of a packet changes on the screens: one place of one client,
\* where a player appears ...
LEMMA PosShown ==
  ASSUME NEW c \in [Pids -> Clients], NEW q \in Pids, NEW s \in Pids,
         NEW at \in Coordinates
  PROVE  \A p, r \in Pids : SendInLoop(c, q, Pos(s, at))[p].view[r] =
           IF Online(q) /\ p = q /\ r = s THEN at ELSE c[p].view[r]
<1>1. \A p \in Pids : c[p] \in Clients /\ c[p].view \in [Pids -> Coordinates \cup {NoPos}]
  BY DEF Clients, Sights
<1> QED
  BY <1>1 DEF SendInLoop, Receive, Pos, Online, Clients

\* ... moves if it is there ...
LEMMA MoveShown ==
  ASSUME NEW c \in [Pids -> Clients], NEW q \in Pids, NEW s \in Pids,
         NEW at \in Coordinates
  PROVE  \A p, r \in Pids : SendInLoop(c, q, Move(s, at))[p].view[r] =
           IF Online(q) /\ p = q /\ r = s /\ c[p].view[r] # NoPos
           THEN at ELSE c[p].view[r]
<1>1. \A p \in Pids : c[p] \in Clients /\ c[p].view \in [Pids -> Coordinates \cup {NoPos}]
  BY DEF Clients, Sights
<1> QED
  BY <1>1 DEF SendInLoop, Receive, Move, Online, Clients

\* ... or disappears ...
LEMMA LeaveShown ==
  ASSUME NEW c \in [Pids -> Clients], NEW q \in Pids, NEW s \in Pids
  PROVE  \A p, r \in Pids : SendInLoop(c, q, Leave(s))[p].view[r] =
           IF Online(q) /\ p = q /\ r = s THEN NoPos ELSE c[p].view[r]
<1>1. \A p \in Pids : c[p] \in Clients /\ c[p].view \in [Pids -> Coordinates \cup {NoPos}]
  BY DEF Clients, Sights
<1> QED
  BY <1>1 DEF SendInLoop, Receive, Leave, Online, Clients

\* ... or nothing, when it is talk.
LEMMA TalkShown ==
  ASSUME NEW c \in [Pids -> Clients], NEW q \in Pids, NEW s \in Pids
  PROVE  \A p, r \in Pids : SendInLoop(c, q, Talk(s))[p].view[r] =
           c[p].view[r]
<1>1. \A p \in Pids : c[p] \in Clients /\ c[p].view \in [Pids -> Coordinates \cup {NoPos}]
  BY DEF Clients, Sights
<1> QED
  BY <1>1 DEF SendInLoop, Receive, Talk, Online, Clients

\* Every snapshot is taken from allocated grids only.
LEMMA GridsToReadType ==
  ASSUME NEW t \in IoThreads
  PROVE  GridsToRead(t) \subseteq Grids
<1>1. /\ DisappearedGrids(from[t], to[t]) \subseteq Grids
      /\ NascentGrids(from[t], to[t]) \subseteq Grids
      /\ GetSudokuByPosition(pos[cur[t]]) \subseteq Grids
  BY SudokuType, CrossingDifference
<1> QED
  BY <1>1 DEF GridsToRead

-----------------------------------------------------------------------------
\* Nobody but a thread between callbacks works for player 0.
LEMMA ServedPlayer ==
  ASSUME IndInv, NEW t \in IoThreads, pc[t] \notin {"idle", "functors"}
  PROVE  /\ cur[t] \in Pids
         /\ cur[t] < global_player_id
         /\ owner[cur[t]] = t
         /\ pos[cur[t]] \in Coordinates
         /\ OnMap(pos[cur[t]])
         /\ GetGridByPosition(pos[cur[t]]) \in Grids
<1>1. cur[t] # 0 /\ cur[t] \in Pids /\ owner[cur[t]] = t
  BY DEF IndInv, TypeOK, Control, ServesOwn
<1>2. cur[t] < global_player_id
  BY <1>1 DEF IndInv, Created
<1>3. pos[cur[t]] \in Coordinates /\ OnMap(pos[cur[t]])
  BY <1>1, <1>2 DEF IndInv, Created
<1> QED
  BY <1>1, <1>2, <1>3, GridOnMap

\* Reading the position of a registered player yields a position.
LEMMA PositionsReadType ==
  ASSUME IndInv, NEW q \in Pids, q < global_player_id
  PROVE  PositionsRead(q) \subseteq Coordinates
<1>1. pos[q] \in Coordinates
  BY DEF IndInv, Created
<1>2. ASSUME NEW w \in IoThreads, pc[w] = "write"
      PROVE  to[w] \in Coordinates
  BY <1>2 DEF IndInv, Control, PartAt, Travel
<1> QED
  BY <1>1, <1>2 DEF PositionsRead, Coordinates

\* SendPacket keeps the types of what clients know and of the queues ...
LEMMA SendPacketType ==
  ASSUME TypeOK, NEW t \in IoThreads, NEW q \in Pids, NEW m \in Packets,
         SendPacket(t, q, m)
  PROVE  /\ client' \in [Pids -> Clients]
         /\ pending' \in [IoThreads -> Seq(Functors)]
BY SendNowType, SendLaterType DEF SendPacket, TypeOK

\* ... and so does an iteration that also writes to the player itself.
LEMMA SendBothType ==
  ASSUME TypeOK, NEW t \in IoThreads, NEW q \in Pids, NEW m \in Packets,
         NEW own \in Packets, cur[t] \in Pids, SendBoth(t, q, m, own)
  PROVE  /\ client' \in [Pids -> Clients]
         /\ pending' \in [IoThreads -> Seq(Functors)]
<1>1. SendNow(t, client, q, m) \in [Pids -> Clients]
  BY SendNowType, SMTT(30) DEF TypeOK
<1> QED
  BY <1>1, SendInLoopType, SendLaterType DEF SendBoth, TypeOK

\* Every step keeps the types, given the rest of the invariant.
LEMMA TypeStep ==
  ASSUME IndInv, [Next]_vars
  PROVE  TypeOK'
<1> USE DEF TypeOK, world, lock, locals, network, Goto, Labels, Jobs, Kinds
<1>0. TypeOK
  BY DEF IndInv
<1>1. ASSUME NEW t \in IoThreads, NEW at \in SpawnPositions, CreateNewPlayer(t, at)
      PROVE  TypeOK'
  BY <1>0, <1>1, PositionsAssumption DEF CreateNewPlayer, Pids
<1>2. ASSUME NEW t \in IoThreads, NEW p \in Pids, NEW at \in Positions, RequestMove(t, p, at)
      PROVE  TypeOK'
  BY <1>0, <1>2, PositionsAssumption DEF RequestMove, Serve, Begin
<1>3. ASSUME NEW t \in IoThreads, NEW p \in Pids, RequestChat(t, p)
      PROVE  TypeOK'
  BY <1>0, <1>3 DEF Serve, Begin, RequestChat
<1>4. ASSUME NEW t \in IoThreads, NEW p \in Pids, Disconnect(t, p)
      PROVE  TypeOK'
  BY <1>0, <1>4 DEF Serve, Begin, Disconnect
<1>5. ASSUME NEW t \in IoThreads, AddPlayer(t)
      PROVE  TypeOK'
  <2>1. cur[t] \in Pids /\ pos[cur[t]] \in Coordinates
    BY <1>5, ServedPlayer DEF AddPlayer
  <2> QED
    BY <1>0, <1>5, <2>1 DEF AddPlayer
<1>6. ASSUME NEW t \in IoThreads, AddPlayerToGrid(t)
      PROVE  TypeOK'
  <2>1. cur[t] \in Pids /\ pos[cur[t]] \in Coordinates
    BY <1>6, ServedPlayer DEF AddPlayerToGrid
  <2> QED
    BY <1>0, <1>6, <2>1 DEF AddPlayerToGrid
<1>7. ASSUME NEW t \in IoThreads, SyncPid(t)
      PROVE  TypeOK'
  <2>1. cur[t] \in Pids /\ pos[cur[t]] \in Coordinates
    BY <1>7, ServedPlayer DEF SyncPid
  <2>2. client[cur[t]] \in Clients
    BY <1>0, <2>1
  <2>3. [client[cur[t]] EXCEPT !.synced = TRUE] \in Clients
    BY <2>2 DEF Clients
  <2>4. client' \in [Pids -> Clients]
    BY <1>0, <1>7, <2>1, <2>3 DEF SyncPid
  <2> QED
    BY <1>0, <1>7, <2>4 DEF SyncPid, Begin
<1>8. ASSUME NEW t \in IoThreads, GetPlayerByPid(t)
      PROVE  TypeOK'
  BY <1>0, <1>8 DEF GetPlayerByPid
<1>9. ASSUME NEW t \in IoThreads, UpdatePos(t)
      PROVE  TypeOK'
  <2>1. cur[t] \in Pids /\ pos[cur[t]] \in Coordinates
    BY <1>9, ServedPlayer DEF UpdatePos
  <2> QED
    BY <1>0, <1>9, <2>1 DEF UpdatePos
<1>10. ASSUME NEW t \in IoThreads, LeaveGrid(t)
      PROVE  TypeOK'
  BY <1>0, <1>10 DEF LeaveGrid
<1>11. ASSUME NEW t \in IoThreads, EnterGrid(t)
      PROVE  TypeOK'
  <2>1. cur[t] \in Pids /\ pos[cur[t]] \in Coordinates
    BY <1>11, ServedPlayer DEF EnterGrid
  <2> QED
    BY <1>0, <1>11, <2>1 DEF EnterGrid, Begin
<1>12. ASSUME NEW t \in IoThreads, LockShared(t)
      PROVE  TypeOK'
  <2>1. toRead' \in [IoThreads -> SUBSET Grids]
    BY <1>0, <1>12, GridsToReadType DEF LockShared
  <2> QED
    BY <1>0, <1>12, <2>1 DEF LockShared
<1>13. ASSUME NEW t \in IoThreads, ReadGrid(t)
      PROVE  TypeOK'
  BY <1>0, <1>13 DEF ReadGrid
<1>14. ASSUME NEW t \in IoThreads, UnlockShared(t)
      PROVE  TypeOK'
  BY <1>0, <1>14 DEF UnlockShared
<1>15. ASSUME NEW t \in IoThreads, GetAllPlayers(t)
      PROVE  TypeOK'
  BY <1>0, <1>15 DEF GetAllPlayers
<1>16. ASSUME NEW t \in IoThreads, NEW q \in snap[t], SendSync(t, q)
      PROVE  TypeOK'
  <2>1. cur[t] \in Pids /\ pos[cur[t]] \in Coordinates
    BY <1>16, ServedPlayer DEF SendSync, Sending
  <2>2. q \in Pids /\ q < global_player_id
    BY <1>0 DEF IndInv, Snapshots, Snapshot
  <2>3. Pos(cur[t], pos[cur[t]]) \in Packets
    BY <2>1, PacketType
  <2>4. client' \in [Pids -> Clients] /\ pending' \in [IoThreads -> Seq(Functors)]
    BY <1>0, <1>16, <2>2, <2>3, SendPacketType DEF SendSync
  <2>5. info' \in [IoThreads -> Sights]
    BY <1>0, <1>16, <2>2, PositionsReadType DEF SendSync, Sights
  <2> QED
    BY <1>0, <1>16, <2>4, <2>5 DEF SendSync, Sending
<1>17. ASSUME NEW t \in IoThreads, NEW q \in snap[t], SendVanish(t, q)
      PROVE  TypeOK'
  <2>1. cur[t] \in Pids /\ pos[cur[t]] \in Coordinates
    BY <1>17, ServedPlayer DEF SendVanish, Sending
  <2>2. q \in Pids /\ q < global_player_id
    BY <1>0 DEF IndInv, Snapshots, Snapshot
  <2>3. Leave(cur[t]) \in Packets /\ Leave(q) \in Packets
    BY <2>1, <2>2, PacketType
  <2>4. client' \in [Pids -> Clients] /\ pending' \in [IoThreads -> Seq(Functors)]
    BY <1>0, <1>17, <2>1, <2>2, <2>3, SendBothType DEF SendVanish
  <2> QED
    BY <1>0, <1>17, <2>4 DEF SendVanish, Sending
<1>18. ASSUME NEW t \in IoThreads, NEW q \in snap[t], SendEmerge(t, q)
      PROVE  TypeOK'
  <2>1. cur[t] \in Pids /\ pos[cur[t]] \in Coordinates
    BY <1>18, ServedPlayer DEF SendEmerge, Sending
  <2>2. q \in Pids /\ q < global_player_id
    BY <1>0 DEF IndInv, Snapshots, Snapshot
  <2>3. PICK at \in PositionsRead(q) :
          SendBoth(t, q, Pos(cur[t], pos[cur[t]]), Pos(q, at))
    BY <1>18 DEF SendEmerge
  <2>4. Pos(cur[t], pos[cur[t]]) \in Packets /\ Pos(q, at) \in Packets
    BY <2>1, <2>2, PacketType, PositionsReadType
  <2>5. client' \in [Pids -> Clients] /\ pending' \in [IoThreads -> Seq(Functors)]
    BY <1>0, <2>1, <2>2, <2>3, <2>4, SendBothType
  <2> QED
    BY <1>0, <1>18, <2>5 DEF SendEmerge, Sending
<1>19. ASSUME NEW t \in IoThreads, NEW q \in snap[t], SendMove(t, q)
      PROVE  TypeOK'
  <2>1. cur[t] \in Pids /\ pos[cur[t]] \in Coordinates
    BY <1>19, ServedPlayer DEF SendMove, Sending
  <2>2. q \in Pids /\ q < global_player_id
    BY <1>0 DEF IndInv, Snapshots, Snapshot
  <2>3. Move(cur[t], pos[cur[t]]) \in Packets
    BY <2>1, PacketType
  <2>4. client' \in [Pids -> Clients] /\ pending' \in [IoThreads -> Seq(Functors)]
    BY <1>0, <1>19, <2>2, <2>3, SendPacketType DEF SendMove
  <2> QED
    BY <1>0, <1>19, <2>4 DEF SendMove, Sending
<1>20. ASSUME NEW t \in IoThreads, NEW q \in snap[t], SendTalk(t, q)
      PROVE  TypeOK'
  <2>1. cur[t] \in Pids /\ pos[cur[t]] \in Coordinates
    BY <1>20, ServedPlayer DEF SendTalk, Sending
  <2>2. q \in Pids /\ q < global_player_id
    BY <1>0 DEF IndInv, Snapshots, Snapshot
  <2>3. Talk(cur[t]) \in Packets
    BY <2>1, PacketType
  <2>4. client' \in [Pids -> Clients] /\ pending' \in [IoThreads -> Seq(Functors)]
    BY <1>0, <1>20, <2>2, <2>3, SendPacketType DEF SendTalk
  <2> QED
    BY <1>0, <1>20, <2>4 DEF SendTalk, Sending
<1>21. ASSUME NEW t \in IoThreads, NEW q \in snap[t], SendLeave(t, q)
      PROVE  TypeOK'
  <2>1. cur[t] \in Pids /\ pos[cur[t]] \in Coordinates
    BY <1>21, ServedPlayer DEF SendLeave, Sending
  <2>2. q \in Pids /\ q < global_player_id
    BY <1>0 DEF IndInv, Snapshots, Snapshot
  <2>3. Leave(cur[t]) \in Packets
    BY <2>1, PacketType
  <2>4. client' \in [Pids -> Clients] /\ pending' \in [IoThreads -> Seq(Functors)]
    BY <1>0, <1>21, <2>2, <2>3, SendPacketType DEF SendLeave
  <2> QED
    BY <1>0, <1>21, <2>4 DEF SendLeave, Sending
<1>22. ASSUME NEW t \in IoThreads, NextPart(t)
      PROVE  TypeOK'
  <2>1. NoSight \in Sights
    BY DEF NoSight, Sights
  <2>2. CASE UNCHANGED locals
    BY <1>0, <1>22, <2>2 DEF NextPart, Begin, Return
  <2>3. CASE Return(t)
    BY <1>0, <1>22, <2>1, <2>3 DEF NextPart, Begin, Return
  <2> QED
    BY <1>22, <2>2, <2>3 DEF NextPart
<1>23. ASSUME NEW t \in IoThreads, SendSyncPlayers(t)
      PROVE  TypeOK'
  <2>1. cur[t] \in Pids /\ pos[cur[t]] \in Coordinates
    BY <1>23, ServedPlayer DEF SendSyncPlayers
  <2> DEFINE c == client[cur[t]]
             view == [q \in Pids |-> IF info[t][q] = NoPos THEN c.view[q] ELSE info[t][q]]
  <2>2. c \in Clients /\ info[t] \in Sights
    BY <1>0, <2>1
  <2>3. view \in Sights
    BY <2>2 DEF Clients, Sights
  <2>4. [c EXCEPT !.view = view] \in Clients
    BY <2>2, <2>3 DEF Clients
  <2>5. client' \in [Pids -> Clients]
    BY <1>0, <1>23, <2>1, <2>4 DEF SendSyncPlayers
  <2>6. NoSight \in Sights
    BY DEF NoSight, Sights
  <2> QED
    BY <1>0, <1>23, <2>5, <2>6 DEF SendSyncPlayers, Begin, Return
<1>24. ASSUME NEW t \in IoThreads, RemovePlayerFromGrid(t)
      PROVE  TypeOK'
  BY <1>0, <1>24 DEF RemovePlayerFromGrid
<1>25. ASSUME NEW t \in IoThreads, ErasePlayer(t)
      PROVE  TypeOK'
  <2>1. NoSight \in Sights
    BY DEF NoSight, Sights
  <2> QED
    BY <1>0, <1>25, <2>1 DEF ErasePlayer, Begin, Return
<1>26. ASSUME NEW t \in IoThreads, TakeFunctors(t)
      PROVE  TypeOK'
  BY <1>0, <1>26 DEF TakeFunctors
<1>27. ASSUME NEW t \in IoThreads, RunFunctor(t)
      PROVE  TypeOK'
  <2>1. batch[t] \in Nat \ {0} /\ pending[t] # <<>> /\ pending[t] \in Seq(Functors)
    BY <1>0, <1>27 DEF RunFunctor, IndInv, Control, BatchLeft
  <2>2. Head(pending[t]) \in Functors /\ Tail(pending[t]) \in Seq(Functors)
    BY <2>1, HeadTailProperties
  <2>3. client' \in [Pids -> Clients]
    BY <1>0, <1>27, <2>2, SendInLoopType DEF RunFunctor, Functors
  <2> QED
    BY <1>0, <1>27, <2>1, <2>2, <2>3, SMTT(30) DEF RunFunctor
<1>28. CASE UNCHANGED vars
  BY <1>0, <1>28 DEF vars
<1> QED
  BY <1>1, <1>2, <1>3, <1>4, <1>5, <1>6, <1>7, <1>8, <1>9, <1>10, <1>11,
     <1>12, <1>13, <1>14, <1>15, <1>16, <1>17, <1>18, <1>19, <1>20, <1>21,
     <1>22, <1>23, <1>24, <1>25, <1>26, <1>27, <1>28
     DEF Next, Environment, Step, Polling

\* Two threads never work for the same player.
LEMMA OwnPlayer ==
  ASSUME IndInv, NEW t \in IoThreads, NEW u \in IoThreads, t # u, cur[u] # 0
  PROVE  cur[u] # cur[t] /\ owner[cur[u]] # t
BY DEF IndInv, Control, ServesOwn

\* Every step keeps, of every thread, what its place in the code says about
\* its locals and about the player it works for.
LEMMA PlaceStep ==
  ASSUME IndInv, [Next]_vars, NEW u \in IoThreads
  PROVE  PartAt(u)' /\ ServesOwn(u)' /\ Travel(u)'
<1> USE DEF TypeOK, world, lock, locals, network, Goto, PartAt, ServesOwn,
    Travel, Kinds
<1>0. TypeOK /\ Control /\ Created
  BY DEF IndInv
<1>here. PartAt(u) /\ ServesOwn(u) /\ Travel(u)
  BY <1>0 DEF Control
<1>1. ASSUME NEW t \in IoThreads, NEW at \in SpawnPositions, CreateNewPlayer(t, at)
      PROVE  PartAt(u)' /\ ServesOwn(u)' /\ Travel(u)'
  BY <1>0, <1>here, <1>1, ServedPlayer, OwnPlayer DEF CreateNewPlayer
<1>2. ASSUME NEW t \in IoThreads, NEW p \in Pids, NEW at \in Positions, RequestMove(t, p, at)
      PROVE  PartAt(u)' /\ ServesOwn(u)' /\ Travel(u)'
  BY <1>0, <1>here, <1>2, OwnPlayer, PositionsAssumption
  DEF Serve, Begin, RequestMove, Pids
<1>3. ASSUME NEW t \in IoThreads, NEW p \in Pids, RequestChat(t, p)
      PROVE  PartAt(u)' /\ ServesOwn(u)' /\ Travel(u)'
  BY <1>0, <1>here, <1>3, OwnPlayer DEF Serve, Begin, RequestChat, Pids
<1>4. ASSUME NEW t \in IoThreads, NEW p \in Pids, Disconnect(t, p)
      PROVE  PartAt(u)' /\ ServesOwn(u)' /\ Travel(u)'
  BY <1>0, <1>here, <1>4, OwnPlayer DEF Serve, Begin, Disconnect, Pids
<1>5. ASSUME NEW t \in IoThreads, AddPlayer(t)
      PROVE  PartAt(u)' /\ ServesOwn(u)' /\ Travel(u)'
  BY <1>0, <1>here, <1>5, ServedPlayer, OwnPlayer DEF AddPlayer
<1>6. ASSUME NEW t \in IoThreads, AddPlayerToGrid(t)
      PROVE  PartAt(u)' /\ ServesOwn(u)' /\ Travel(u)'
  BY <1>0, <1>here, <1>6, ServedPlayer, OwnPlayer DEF AddPlayerToGrid
<1>7. ASSUME NEW t \in IoThreads, SyncPid(t)
      PROVE  PartAt(u)' /\ ServesOwn(u)' /\ Travel(u)'
  BY <1>0, <1>here, <1>7, ServedPlayer, OwnPlayer DEF Begin, SyncPid
<1>8. ASSUME NEW t \in IoThreads, GetPlayerByPid(t)
      PROVE  PartAt(u)' /\ ServesOwn(u)' /\ Travel(u)'
  BY <1>0, <1>here, <1>8, ServedPlayer, OwnPlayer DEF GetPlayerByPid
<1>9. ASSUME NEW t \in IoThreads, UpdatePos(t)
      PROVE  PartAt(u)' /\ ServesOwn(u)' /\ Travel(u)'
  BY <1>0, <1>here, <1>9, ServedPlayer, OwnPlayer DEF UpdatePos
<1>10. ASSUME NEW t \in IoThreads, LeaveGrid(t)
      PROVE  PartAt(u)' /\ ServesOwn(u)' /\ Travel(u)'
  BY <1>0, <1>here, <1>10, ServedPlayer, OwnPlayer DEF LeaveGrid
<1>11. ASSUME NEW t \in IoThreads, EnterGrid(t)
      PROVE  PartAt(u)' /\ ServesOwn(u)' /\ Travel(u)'
  BY <1>0, <1>here, <1>11, ServedPlayer, OwnPlayer DEF Begin, EnterGrid
<1>12. ASSUME NEW t \in IoThreads, LockShared(t)
      PROVE  PartAt(u)' /\ ServesOwn(u)' /\ Travel(u)'
  BY <1>0, <1>here, <1>12, ServedPlayer, OwnPlayer DEF LockShared
<1>13. ASSUME NEW t \in IoThreads, ReadGrid(t)
      PROVE  PartAt(u)' /\ ServesOwn(u)' /\ Travel(u)'
  BY <1>0, <1>here, <1>13, ServedPlayer, OwnPlayer DEF ReadGrid
<1>14. ASSUME NEW t \in IoThreads, UnlockShared(t)
      PROVE  PartAt(u)' /\ ServesOwn(u)' /\ Travel(u)'
  BY <1>0, <1>here, <1>14, ServedPlayer, OwnPlayer DEF UnlockShared
<1>15. ASSUME NEW t \in IoThreads, GetAllPlayers(t)
      PROVE  PartAt(u)' /\ ServesOwn(u)' /\ Travel(u)'
  BY <1>0, <1>here, <1>15, ServedPlayer, OwnPlayer DEF GetAllPlayers
<1>16. ASSUME NEW t \in IoThreads, NEW q \in snap[t], SendSync(t, q)
      PROVE  PartAt(u)' /\ ServesOwn(u)' /\ Travel(u)'
  BY <1>0, <1>here, <1>16, ServedPlayer, OwnPlayer DEF Sending, SendSync
<1>17. ASSUME NEW t \in IoThreads, NEW q \in snap[t], SendVanish(t, q)
      PROVE  PartAt(u)' /\ ServesOwn(u)' /\ Travel(u)'
  BY <1>0, <1>here, <1>17, ServedPlayer, OwnPlayer DEF Sending, SendVanish
<1>18. ASSUME NEW t \in IoThreads, NEW q \in snap[t], SendEmerge(t, q)
      PROVE  PartAt(u)' /\ ServesOwn(u)' /\ Travel(u)'
  BY <1>0, <1>here, <1>18, ServedPlayer, OwnPlayer DEF Sending, SendEmerge
<1>19. ASSUME NEW t \in IoThreads, NEW q \in snap[t], SendMove(t, q)
      PROVE  PartAt(u)' /\ ServesOwn(u)' /\ Travel(u)'
  BY <1>0, <1>here, <1>19, ServedPlayer, OwnPlayer DEF Sending, SendMove
<1>20. ASSUME NEW t \in IoThreads, NEW q \in snap[t], SendTalk(t, q)
      PROVE  PartAt(u)' /\ ServesOwn(u)' /\ Travel(u)'
  BY <1>0, <1>here, <1>20, ServedPlayer, OwnPlayer DEF Sending, SendTalk
<1>21. ASSUME NEW t \in IoThreads, NEW q \in snap[t], SendLeave(t, q)
      PROVE  PartAt(u)' /\ ServesOwn(u)' /\ Travel(u)'
  BY <1>0, <1>here, <1>21, ServedPlayer, OwnPlayer DEF Sending, SendLeave
<1>22. ASSUME NEW t \in IoThreads, NextPart(t)
      PROVE  PartAt(u)' /\ ServesOwn(u)' /\ Travel(u)'
  BY <1>0, <1>here, <1>22, ServedPlayer, OwnPlayer DEF Begin, Return, NextPart
<1>23. ASSUME NEW t \in IoThreads, SendSyncPlayers(t)
      PROVE  PartAt(u)' /\ ServesOwn(u)' /\ Travel(u)'
  BY <1>0, <1>here, <1>23, ServedPlayer, OwnPlayer
  DEF Begin, Return, SendSyncPlayers
<1>24. ASSUME NEW t \in IoThreads, RemovePlayerFromGrid(t)
      PROVE  PartAt(u)' /\ ServesOwn(u)' /\ Travel(u)'
  BY <1>0, <1>here, <1>24, ServedPlayer, OwnPlayer DEF RemovePlayerFromGrid
<1>25. ASSUME NEW t \in IoThreads, ErasePlayer(t)
      PROVE  PartAt(u)' /\ ServesOwn(u)' /\ Travel(u)'
  BY <1>0, <1>here, <1>25, ServedPlayer, OwnPlayer
  DEF Begin, Return, ErasePlayer
<1>26. ASSUME NEW t \in IoThreads, TakeFunctors(t)
      PROVE  PartAt(u)' /\ ServesOwn(u)' /\ Travel(u)'
  BY <1>0, <1>here, <1>26, ServedPlayer, OwnPlayer DEF TakeFunctors
<1>27. ASSUME NEW t \in IoThreads, RunFunctor(t)
      PROVE  PartAt(u)' /\ ServesOwn(u)' /\ Travel(u)'
  BY <1>0, <1>here, <1>27, ServedPlayer, OwnPlayer DEF RunFunctor
<1>28. CASE UNCHANGED vars
  BY <1>here, <1>28 DEF vars
<1> QED
  BY <1>1, <1>2, <1>3, <1>4, <1>5, <1>6, <1>7, <1>8, <1>9, <1>10, <1>11,
     <1>12, <1>13, <1>14, <1>15, <1>16, <1>17, <1>18, <1>19, <1>20, <1>21,
     <1>22, <1>23, <1>24, <1>25, <1>26, <1>27, <1>28
     DEF Next, Environment, Step, Polling

\* Queueing a packet never shortens a queue.
LEMMA SendLaterLength ==
  ASSUME TypeOK, NEW t \in IoThreads, NEW u \in IoThreads, NEW q, NEW m
  PROVE  Len(SendLater(t, q, m)[u]) >= Len(pending[u])
<1>1. pending[u] \in Seq(Functors)
  BY DEF TypeOK
<1>2. /\ Len(pending[u]) \in Nat
      /\ Len(Append(pending[u], [dest |-> q, packet |-> m])) = Len(pending[u]) + 1
  BY <1>1
<1> QED
  BY <1>2 DEF SendLater, TypeOK

\* Every step keeps the count of functors a loop has left to run.
LEMMA BatchStep ==
  ASSUME IndInv, [Next]_vars, NEW u \in IoThreads
  PROVE  BatchLeft(u)'
<1> USE DEF TypeOK, BatchLeft, Goto
<1>0. TypeOK /\ BatchLeft(u) /\ Len(pending[u]) \in Nat
  BY LenProperties DEF IndInv, Control
<1>1. ASSUME NEW t \in IoThreads, TakeFunctors(t)
      PROVE  BatchLeft(u)'
  <2>1. pending[t] # <<>> /\ pending[t] \in Seq(Functors)
    BY <1>0, <1>1 DEF TakeFunctors
  <2>2. Len(pending[t]) \in Nat \ {0}
    BY <2>1, EmptySeq, LenProperties
  <2> QED
    BY <1>0, <1>1, <2>2 DEF TakeFunctors
<1>2. ASSUME NEW t \in IoThreads, RunFunctor(t)
      PROVE  BatchLeft(u)'
  <2>1. /\ batch[t] \in Nat /\ batch[t] >= 1 /\ batch[t] <= Len(pending[t])
        /\ pending[t] \in Seq(Functors) /\ pending[t] # <<>>
    BY <1>0, <1>2 DEF RunFunctor, IndInv, Control
  <2>2. Len(Tail(pending[t])) = Len(pending[t]) - 1
    BY <2>1, HeadTailProperties
  <2> QED
    BY <1>0, <1>2, <2>1, <2>2 DEF RunFunctor
<1>3. ASSUME NEW t \in IoThreads, NEW q, NEW m, UNCHANGED <<pc, batch>>,
             pending' = SendLater(t, q, m)
      PROVE  BatchLeft(u)'
  BY <1>0, <1>3, SendLaterLength
<1>4. CASE UNCHANGED <<batch, pending>> /\ (pc'[u] = "functors" => pc[u] = "functors")
  BY <1>0, <1>4
<1>5. ASSUME NEW t \in IoThreads, NEW q \in snap[t],
             \/ SendSync(t, q) \/ SendVanish(t, q) \/ SendEmerge(t, q)
             \/ SendMove(t, q) \/ SendTalk(t, q) \/ SendLeave(t, q)
      PROVE  BatchLeft(u)'
  BY <1>3, <1>5 DEF SendSync, SendVanish, SendEmerge, SendMove, SendTalk,
                    SendLeave, Sending, SendPacket, SendBoth
<1>6. ASSUME NEW t \in IoThreads, NEW p \in Pids, NEW at,
             \/ RequestMove(t, p, at) \/ RequestChat(t, p) \/ Disconnect(t, p)
      PROVE  BatchLeft(u)'
  BY <1>4, <1>6, <1>0
  DEF RequestMove, RequestChat, Disconnect, Serve, Begin, Goto, lock,
      network
<1>7. ASSUME NEW t \in IoThreads, NEW at, CreateNewPlayer(t, at)
      PROVE  BatchLeft(u)'
  BY <1>4, <1>7, <1>0 DEF CreateNewPlayer, Goto, lock, network
<1>8. ASSUME NEW t \in IoThreads,
             \/ AddPlayer(t) \/ AddPlayerToGrid(t) \/ SyncPid(t)
             \/ GetPlayerByPid(t) \/ UpdatePos(t) \/ LeaveGrid(t)
             \/ EnterGrid(t)
      PROVE  BatchLeft(u)'
  BY <1>4, <1>8, <1>0
  DEF AddPlayer, AddPlayerToGrid, SyncPid, GetPlayerByPid, UpdatePos,
      LeaveGrid, EnterGrid, Return, Begin, Goto, world, lock, locals,
      network
<1>9. ASSUME NEW t \in IoThreads,
             \/ LockShared(t) \/ ReadGrid(t) \/ UnlockShared(t)
             \/ GetAllPlayers(t) \/ NextPart(t) \/ SendSyncPlayers(t)
             \/ RemovePlayerFromGrid(t) \/ ErasePlayer(t)
      PROVE  BatchLeft(u)'
  BY <1>4, <1>9, <1>0
  DEF LockShared, ReadGrid, UnlockShared, GetAllPlayers, NextPart,
      SendSyncPlayers, RemovePlayerFromGrid, ErasePlayer, Return, Begin,
      Goto, world, lock, locals, network
<1>10. CASE UNCHANGED vars
  BY <1>4, <1>10 DEF vars, world, lock, network
<1> QED
  BY <1>1, <1>2, <1>3, <1>5, <1>6, <1>7, <1>8, <1>9, <1>10
  DEF Next, Environment, Step, Polling

\* Every step keeps what is known of the players created so far.
LEMMA CreatedStep ==
  ASSUME IndInv, [Next]_vars
  PROVE  Created'
<1> USE DEF TypeOK, Created
<1>0. TypeOK /\ Created
  BY DEF IndInv
<1>1. ASSUME NEW t \in IoThreads, NEW at \in SpawnPositions, CreateNewPlayer(t, at)
      PROVE  Created'
  BY <1>0, <1>1, PositionsAssumption DEF CreateNewPlayer, Pids
<1>2. ASSUME NEW t \in IoThreads, NEW p \in Pids, Disconnect(t, p)
      PROVE  Created'
  BY <1>0, <1>2 DEF Disconnect, Serve
<1>3. ASSUME NEW t \in IoThreads, UpdatePos(t)
      PROVE  Created'
  <2>1. cur[t] < global_player_id /\ to[t] \in Coordinates /\ OnMap(to[t])
    BY <1>3, ServedPlayer DEF UpdatePos, IndInv, Control, PartAt, Travel
  <2> QED
    BY <1>0, <1>3, <2>1 DEF UpdatePos
<1>4. CASE UNCHANGED <<global_player_id, owner, conn, pos>>
  BY <1>0, <1>4
<1>5. ASSUME NEW t \in IoThreads, NEW q \in snap[t],
             \/ SendSync(t, q) \/ SendVanish(t, q) \/ SendEmerge(t, q)
             \/ SendMove(t, q) \/ SendTalk(t, q) \/ SendLeave(t, q)
      PROVE  Created'
  BY <1>4, <1>5
  DEF SendSync, SendVanish, SendEmerge, SendMove, SendTalk, SendLeave,
      Sending, world, lock
<1>6. ASSUME NEW t \in IoThreads, NEW p \in Pids, NEW at,
             \/ RequestMove(t, p, at) \/ RequestChat(t, p)
      PROVE  Created'
  BY <1>4, <1>6
  DEF RequestMove, RequestChat, Serve, Begin, Goto, lock, network
<1>7. ASSUME NEW t \in IoThreads,
             \/ AddPlayer(t) \/ AddPlayerToGrid(t) \/ SyncPid(t)
             \/ GetPlayerByPid(t) \/ LeaveGrid(t) \/ EnterGrid(t)
             \/ LockShared(t) \/ ReadGrid(t)
      PROVE  Created'
  BY <1>4, <1>7
  DEF AddPlayer, AddPlayerToGrid, SyncPid, GetPlayerByPid, LeaveGrid,
      EnterGrid, LockShared, ReadGrid, Return, Begin, Goto, world, lock,
      locals, network
<1>8. ASSUME NEW t \in IoThreads,
             \/ UnlockShared(t) \/ GetAllPlayers(t) \/ NextPart(t)
             \/ SendSyncPlayers(t) \/ RemovePlayerFromGrid(t)
             \/ ErasePlayer(t) \/ TakeFunctors(t) \/ RunFunctor(t)
      PROVE  Created'
  BY <1>4, <1>8
  DEF UnlockShared, GetAllPlayers, NextPart, SendSyncPlayers,
      RemovePlayerFromGrid, ErasePlayer, TakeFunctors, RunFunctor, Return,
      Begin, Goto, world, lock, locals, network
<1>9. CASE UNCHANGED vars
  BY <1>4, <1>9 DEF vars, world, lock, network
<1> QED
  BY <1>1, <1>2, <1>3, <1>5, <1>6, <1>7, <1>8, <1>9
  DEF Next, Environment, Step, Polling

\* Every step keeps rw_mutex_ a lock.
LEMMA LockingStep ==
  ASSUME IndInv, [Next]_vars
  PROVE  Locking'
<1> USE DEF TypeOK, Locking, Goto
<1>0. TypeOK /\ Locking
  BY DEF IndInv
<1>1. ASSUME NEW t \in IoThreads, LockShared(t)
      PROVE  Locking'
  BY <1>0, <1>1 DEF LockShared, Shareable
<1>2. ASSUME NEW t \in IoThreads, UnlockShared(t)
      PROVE  Locking'
  BY <1>0, <1>2 DEF UnlockShared
<1>3. ASSUME NEW t \in IoThreads, RemovePlayerFromGrid(t)
      PROVE  Locking'
  BY <1>0, <1>3 DEF RemovePlayerFromGrid, Lockable
<1>4. ASSUME NEW t \in IoThreads, ErasePlayer(t)
      PROVE  Locking'
  BY <1>0, <1>4 DEF ErasePlayer, Return, Begin
<1>5. CASE /\ UNCHANGED <<readers, writer>>
           /\ \A u \in IoThreads : /\ pc'[u] = "read" <=> pc[u] = "read"
                                   /\ pc'[u] = "erase" <=> pc[u] = "erase"
  BY <1>0, <1>5
<1>6. ASSUME NEW t \in IoThreads, NEW q \in snap[t],
             \/ SendSync(t, q) \/ SendVanish(t, q) \/ SendEmerge(t, q)
             \/ SendMove(t, q) \/ SendTalk(t, q) \/ SendLeave(t, q)
      PROVE  Locking'
  BY <1>5, <1>6, <1>0
  DEF SendSync, SendVanish, SendEmerge, SendMove, SendTalk, SendLeave,
      Sending, world, lock
<1>7. ASSUME NEW t \in IoThreads, NEW p \in Pids, NEW at,
             \/ RequestMove(t, p, at) \/ RequestChat(t, p) \/ Disconnect(t, p)
      PROVE  Locking'
  BY <1>5, <1>7, <1>0
  DEF RequestMove, RequestChat, Disconnect, Serve, Begin, Goto, lock,
      network
<1>8. ASSUME NEW t \in IoThreads, NEW at, CreateNewPlayer(t, at)
      PROVE  Locking'
  BY <1>5, <1>8, <1>0 DEF CreateNewPlayer, Goto, lock, network
<1>9. ASSUME NEW t \in IoThreads,
             \/ AddPlayer(t) \/ AddPlayerToGrid(t) \/ SyncPid(t)
             \/ GetPlayerByPid(t) \/ UpdatePos(t) \/ LeaveGrid(t)
      PROVE  Locking'
  BY <1>5, <1>9, <1>0, SMTT(30)
  DEF AddPlayer, AddPlayerToGrid, SyncPid, GetPlayerByPid, UpdatePos,
      LeaveGrid, Return, Begin, Goto, world, lock, locals, network
<1>10. ASSUME NEW t \in IoThreads,
             \/ EnterGrid(t) \/ ReadGrid(t) \/ GetAllPlayers(t)
             \/ NextPart(t) \/ SendSyncPlayers(t) \/ TakeFunctors(t)
             \/ RunFunctor(t)
      PROVE  Locking'
  BY <1>5, <1>10, <1>0, SMTT(30)
  DEF EnterGrid, ReadGrid, GetAllPlayers, NextPart, SendSyncPlayers,
      TakeFunctors, RunFunctor, Return, Begin, Goto, world, lock, locals,
      network
<1>11. CASE UNCHANGED vars
  BY <1>5, <1>11 DEF vars, world, lock, network
<1> QED
  BY <1>1, <1>2, <1>3, <1>4, <1>6, <1>7, <1>8, <1>9, <1>10, <1>11
  DEF Next, Environment, Step, Polling

\* Every step keeps the register and the map in line with how far the
\* callbacks have come.
LEMMA WhereaboutsStep ==
  ASSUME IndInv, [Next]_vars, NEW p \in Pids
  PROVE  /\ (p \in players_ <=> Registered(p))'
         /\ (\A g \in Grids : p \in grid[g] <=> (OnSomeGrid(p) /\ g = GridOf(p)))'
<1> DEFINE Goal == /\ p \in players_ <=> Registered(p)
                   /\ \A g \in Grids : p \in grid[g] <=> (OnSomeGrid(p) /\ g = GridOf(p))
<1> USE DEF TypeOK, world, lock, locals, network, Goto, Registered,
    OnSomeGrid, GridOf
<1>0. TypeOK /\ Created /\ Goal
  BY DEF IndInv, Whereabouts
<1>pid. p # 0
  BY DEF Pids
<1>places. \A t \in IoThreads : PartAt(t) /\ ServesOwn(t) /\ Travel(t)
  BY DEF IndInv, Control
<1>1. ASSUME NEW t \in IoThreads, NEW at \in SpawnPositions, CreateNewPlayer(t, at)
      PROVE  Goal'
  <2>1. CASE p = global_player_id
    <3>1. owner[p] = NoThread /\ conn[p] = "none"
      BY <1>0, <2>1 DEF Created
    <3>2. p \notin players_ /\ \A g \in Grids : p \notin grid[g]
      BY <1>0, <3>1
    <3>3. owner'[p] = t /\ cur'[t] = p /\ pc'[t] = "AddPlayer"
      BY <1>0, <1>1, <2>1 DEF CreateNewPlayer
    <3> QED
      BY <1>1, <3>2, <3>3 DEF CreateNewPlayer
  <2>2. CASE p # global_player_id
    BY <1>0, <1>places, <1>pid, <1>1, <2>2 DEF CreateNewPlayer, ServesOwn
  <2> QED
    BY <2>1, <2>2
<1>2. ASSUME NEW t \in IoThreads, NEW r \in Pids, NEW at \in Positions, RequestMove(t, r, at)
      PROVE  Goal'
  BY <1>0, <1>places, <1>pid, <1>2, ServedPlayer, GridOnMap
  DEF Serve, Begin, RequestMove, PartAt, ServesOwn, Travel
<1>3. ASSUME NEW t \in IoThreads, NEW r \in Pids, RequestChat(t, r)
      PROVE  Goal'
  BY <1>0, <1>places, <1>pid, <1>3, ServedPlayer, GridOnMap
  DEF Serve, Begin, RequestChat, PartAt, ServesOwn, Travel
<1>4. ASSUME NEW t \in IoThreads, NEW r \in Pids, Disconnect(t, r)
      PROVE  Goal'
  BY <1>0, <1>places, <1>pid, <1>4, ServedPlayer, GridOnMap
  DEF Serve, Begin, Disconnect, PartAt, ServesOwn, Travel
<1>5. ASSUME NEW t \in IoThreads, AddPlayer(t)
      PROVE  Goal'
  BY <1>0, <1>places, <1>pid, <1>5, ServedPlayer, GridOnMap
  DEF AddPlayer, PartAt, ServesOwn, Travel
<1>6. ASSUME NEW t \in IoThreads, AddPlayerToGrid(t)
      PROVE  Goal'
  BY <1>0, <1>places, <1>pid, <1>6, ServedPlayer, GridOnMap
  DEF AddPlayerToGrid, PartAt, ServesOwn, Travel
<1>7. ASSUME NEW t \in IoThreads, SyncPid(t)
      PROVE  Goal'
  BY <1>0, <1>places, <1>pid, <1>7, ServedPlayer, GridOnMap
  DEF Begin, SyncPid, PartAt, ServesOwn, Travel
<1>8. ASSUME NEW t \in IoThreads, GetPlayerByPid(t)
      PROVE  Goal'
  BY <1>0, <1>places, <1>pid, <1>8, ServedPlayer, GridOnMap
  DEF GetPlayerByPid, PartAt, ServesOwn, Travel
<1>9. ASSUME NEW t \in IoThreads, UpdatePos(t)
      PROVE  Goal'
  BY <1>0, <1>places, <1>pid, <1>9, ServedPlayer, GridOnMap
  DEF UpdatePos, PartAt, ServesOwn, Travel
<1>10. ASSUME NEW t \in IoThreads, LeaveGrid(t)
      PROVE  Goal'
  BY <1>0, <1>places, <1>pid, <1>10, ServedPlayer, GridOnMap
  DEF LeaveGrid, PartAt, ServesOwn, Travel
<1>11. ASSUME NEW t \in IoThreads, EnterGrid(t)
      PROVE  Goal'
  BY <1>0, <1>places, <1>pid, <1>11, ServedPlayer, GridOnMap
  DEF Begin, EnterGrid, PartAt, ServesOwn, Travel
<1>12. ASSUME NEW t \in IoThreads, LockShared(t)
      PROVE  Goal'
  BY <1>0, <1>places, <1>pid, <1>12, ServedPlayer, GridOnMap
  DEF LockShared, PartAt, ServesOwn, Travel
<1>13. ASSUME NEW t \in IoThreads, ReadGrid(t)
      PROVE  Goal'
  BY <1>0, <1>places, <1>pid, <1>13, ServedPlayer, GridOnMap
  DEF ReadGrid, PartAt, ServesOwn, Travel
<1>14. ASSUME NEW t \in IoThreads, UnlockShared(t)
      PROVE  Goal'
  BY <1>0, <1>places, <1>pid, <1>14, ServedPlayer, GridOnMap
  DEF UnlockShared, PartAt, ServesOwn, Travel
<1>15. ASSUME NEW t \in IoThreads, GetAllPlayers(t)
      PROVE  Goal'
  BY <1>0, <1>places, <1>pid, <1>15, ServedPlayer, GridOnMap
  DEF GetAllPlayers, PartAt, ServesOwn, Travel
<1>16. ASSUME NEW t \in IoThreads, NEW q \in snap[t], SendSync(t, q)
      PROVE  Goal'
  BY <1>0, <1>places, <1>pid, <1>16, ServedPlayer, GridOnMap
  DEF Sending, SendSync, PartAt, ServesOwn, Travel
<1>17. ASSUME NEW t \in IoThreads, NEW q \in snap[t], SendVanish(t, q)
      PROVE  Goal'
  BY <1>0, <1>places, <1>pid, <1>17, ServedPlayer, GridOnMap
  DEF Sending, SendVanish, PartAt, ServesOwn, Travel
<1>18. ASSUME NEW t \in IoThreads, NEW q \in snap[t], SendEmerge(t, q)
      PROVE  Goal'
  BY <1>0, <1>places, <1>pid, <1>18, ServedPlayer, GridOnMap
  DEF Sending, SendEmerge, PartAt, ServesOwn, Travel
<1>19. ASSUME NEW t \in IoThreads, NEW q \in snap[t], SendMove(t, q)
      PROVE  Goal'
  BY <1>0, <1>places, <1>pid, <1>19, ServedPlayer, GridOnMap
  DEF Sending, SendMove, PartAt, ServesOwn, Travel
<1>20. ASSUME NEW t \in IoThreads, NEW q \in snap[t], SendTalk(t, q)
      PROVE  Goal'
  BY <1>0, <1>places, <1>pid, <1>20, ServedPlayer, GridOnMap
  DEF Sending, SendTalk, PartAt, ServesOwn, Travel
<1>21. ASSUME NEW t \in IoThreads, NEW q \in snap[t], SendLeave(t, q)
      PROVE  Goal'
  BY <1>0, <1>places, <1>pid, <1>21, ServedPlayer, GridOnMap
  DEF Sending, SendLeave, PartAt, ServesOwn, Travel
<1>22. ASSUME NEW t \in IoThreads, NextPart(t)
      PROVE  Goal'
  BY <1>0, <1>places, <1>pid, <1>22, ServedPlayer, GridOnMap
  DEF Begin, Return, NextPart, PartAt, ServesOwn, Travel
<1>23. ASSUME NEW t \in IoThreads, SendSyncPlayers(t)
      PROVE  Goal'
  BY <1>0, <1>places, <1>pid, <1>23, ServedPlayer, GridOnMap
  DEF Begin, Return, SendSyncPlayers, PartAt, ServesOwn, Travel
<1>24. ASSUME NEW t \in IoThreads, RemovePlayerFromGrid(t)
      PROVE  Goal'
  BY <1>0, <1>places, <1>pid, <1>24, ServedPlayer, GridOnMap
  DEF RemovePlayerFromGrid, PartAt, ServesOwn, Travel
<1>25. ASSUME NEW t \in IoThreads, ErasePlayer(t)
      PROVE  Goal'
  BY <1>0, <1>places, <1>pid, <1>25, ServedPlayer, GridOnMap
  DEF Begin, Return, ErasePlayer, PartAt, ServesOwn, Travel
<1>26. ASSUME NEW t \in IoThreads, TakeFunctors(t)
      PROVE  Goal'
  BY <1>0, <1>places, <1>pid, <1>26, ServedPlayer, GridOnMap
  DEF TakeFunctors, PartAt, ServesOwn, Travel
<1>27. ASSUME NEW t \in IoThreads, RunFunctor(t)
      PROVE  Goal'
  BY <1>0, <1>places, <1>pid, <1>27, ServedPlayer, GridOnMap
  DEF RunFunctor, PartAt, ServesOwn, Travel
<1>28. CASE UNCHANGED vars
  BY <1>0, <1>28 DEF vars
<1> QED
  BY <1>1, <1>2, <1>3, <1>4, <1>5, <1>6, <1>7, <1>8, <1>9, <1>10, <1>11,
     <1>12, <1>13, <1>14, <1>15, <1>16, <1>17, <1>18, <1>19, <1>20, <1>21,
     <1>22, <1>23, <1>24, <1>25, <1>26, <1>27, <1>28
     DEF Next, Environment, Step, Polling

\* A player on the map is registered, and a registered player exists.
LEMMA MapRegister ==
  ASSUME IndInv
  PROVE  /\ \A g \in Grids : grid[g] \subseteq players_
         /\ \A q \in players_ : q < global_player_id
<1>1. ASSUME NEW g \in Grids, NEW p \in grid[g]
      PROVE  p \in players_
  <2>1. p \in Pids
    BY DEF IndInv, TypeOK
  <2>2. OnSomeGrid(p) => Registered(p)
    BY DEF OnSomeGrid, Registered
  <2> QED
    BY <2>1, <2>2 DEF IndInv, Whereabouts
<1>2. ASSUME NEW q \in players_
      PROVE  q < global_player_id
  <2>1. q \in Pids /\ Registered(q)
    BY DEF IndInv, TypeOK, Whereabouts
  <2> QED
    BY <2>1 DEF IndInv, TypeOK, Created, Registered
<1> QED
  BY <1>1, <1>2

\* Every step keeps what is known of the snapshots.
LEMMA SnapshotsStep ==
  ASSUME IndInv, [Next]_vars, NEW u \in IoThreads
  PROVE  Snapshot(u)'
<1> USE DEF TypeOK, Snapshot, Goto
<1>0. TypeOK /\ Snapshot(u)
  BY DEF IndInv, Snapshots
<1>1. ASSUME NEW t \in IoThreads, ReadGrid(t)
      PROVE  Snapshot(u)'
  BY <1>0, <1>1, MapRegister DEF ReadGrid, world
<1>2. ASSUME NEW t \in IoThreads, GetAllPlayers(t)
      PROVE  Snapshot(u)'
  BY <1>0, <1>2, MapRegister DEF GetAllPlayers, world
<1>3. ASSUME NEW t \in IoThreads, ErasePlayer(t)
      PROVE  Snapshot(u)'
  BY <1>0, <1>3 DEF ErasePlayer, Return, Begin, IndInv, Locking
<1>4. ASSUME NEW t \in IoThreads, UnlockShared(t) \/ NextPart(t)
      PROVE  Snapshot(u)'
  BY <1>0, <1>4 DEF UnlockShared, NextPart, Return, Begin, world, locals
<1>5. ASSUME NEW t \in IoThreads, NEW q, NEW j, Sending(t, j, q)
      PROVE  Snapshot(u)'
  BY <1>0, <1>5 DEF Sending, world, lock
<1>6. CASE /\ pc'[u] # pc[u] => pc[u] \notin {"read", "send"}
           /\ UNCHANGED snap
           /\ players_ \subseteq players_'
           /\ global_player_id' \in {global_player_id, global_player_id + 1}
  <2>1. \A q \in snap[u] : q \in Int /\ q < global_player_id'
    BY <1>0, <1>6 DEF Pids
  <2> QED
    BY <1>0, <1>6, <2>1
<1>7. ASSUME NEW t \in IoThreads, NEW at, CreateNewPlayer(t, at)
      PROVE  Snapshot(u)'
  BY <1>0, <1>6, <1>7 DEF CreateNewPlayer, Pids
<1>8. ASSUME NEW t \in IoThreads, NEW p \in Pids, NEW at,
             RequestMove(t, p, at) \/ RequestChat(t, p) \/ Disconnect(t, p)
      PROVE  Snapshot(u)'
  BY <1>0, <1>6, <1>8 DEF RequestMove, RequestChat, Disconnect, Serve, Begin
<1>9. ASSUME NEW t \in IoThreads,
             \/ AddPlayer(t) \/ AddPlayerToGrid(t) \/ SyncPid(t)
             \/ GetPlayerByPid(t) \/ UpdatePos(t) \/ LeaveGrid(t)
             \/ EnterGrid(t) \/ LockShared(t)
      PROVE  Snapshot(u)'
  BY <1>0, <1>6, <1>9
  DEF AddPlayer, AddPlayerToGrid, SyncPid, GetPlayerByPid, UpdatePos,
      LeaveGrid, EnterGrid, LockShared, Begin, world, locals
<1>10. ASSUME NEW t \in IoThreads,
              \/ SendSyncPlayers(t) \/ RemovePlayerFromGrid(t)
              \/ TakeFunctors(t) \/ RunFunctor(t)
      PROVE  Snapshot(u)'
  BY <1>0, <1>6, <1>10
  DEF SendSyncPlayers, RemovePlayerFromGrid, TakeFunctors, RunFunctor,
      Return, Begin, world, locals
<1>11. CASE UNCHANGED vars
  BY <1>0, <1>11 DEF vars, world, locals
<1> QED
  BY <1>1, <1>2, <1>3, <1>4, <1>5, <1>7, <1>8, <1>9, <1>10, <1>11
  DEF Next, Environment, Step, Polling, SendSync, SendVanish, SendEmerge,
      SendMove, SendTalk, SendLeave

-----------------------------------------------------------------------------
(***************************************************************************)
(* The theorems.                                                           *)
(***************************************************************************)

\* The inductive invariant holds before the first connection is accepted.
LEMMA InitInv ==
  ASSUME Init
  PROVE  IndInv
<1> USE DEF Init
<1>1. NoSight \in Sights
  BY DEF NoSight, Sights
<1>2. [synced |-> FALSE, view |-> NoSight, heard |-> {}] \in Clients
  BY <1>1 DEF Clients
<1>3. TypeOK
  BY <1>1, <1>2, EmptySeq DEF TypeOK, Labels, Jobs, Kinds
<1>4. Control
  BY DEF Control, PartAt, ServesOwn, Travel, BatchLeft, Kinds
<1>5. Created
  BY DEF Created, Pids
<1>6. Whereabouts
  BY DEF Whereabouts, Registered, OnSomeGrid, GridOf, Pids
<1>7. Locking /\ Snapshots
  BY DEF Locking, Snapshots, Snapshot
<1> QED
  BY <1>3, <1>4, <1>5, <1>6, <1>7 DEF IndInv

\* Every step keeps the inductive invariant.
LEMMA NextInv ==
  ASSUME IndInv, [Next]_vars
  PROVE  IndInv'
<1>1. Control'
  BY PlaceStep, BatchStep DEF Control
<1>2. Whereabouts'
  BY WhereaboutsStep DEF Whereabouts
<1> QED
  BY <1>1, <1>2, TypeStep, CreatedStep, LockingStep, SnapshotsStep
  DEF IndInv, Snapshots

\* When nothing runs, the players registered are those with a connection, and
\* there is a loop that had to see to them.
LEMMA RegisteredOnline ==
  ASSUME IndInv, Quiescent
  PROVE  \A p \in Pids : /\ p \in players_ <=> Online(p)
                         /\ Online(p) => owner[p] \in IoThreads
<1> SUFFICES ASSUME NEW p \in Pids
             PROVE  /\ p \in players_ <=> Online(p)
                    /\ Online(p) => owner[p] \in IoThreads
  OBVIOUS
<1>1. \A t \in IoThreads : cur[t] = 0
  BY DEF Quiescent, IndInv, Control, ServesOwn
<1>2. Registered(p) <=> Online(p)
  BY <1>1 DEF Registered, Online, Pids
<1> QED
  BY <1>2 DEF IndInv, Whereabouts, Created, Online

\* However many threads, players, positions and requests there are, the
\* threads keep the inductive invariant: how far the callbacks have come
\* determines who is registered, who is on which grid and who holds rw_mutex_.
THEOREM Invariance == Spec => []IndInv
<1>1. Init => IndInv
  BY InitInv
<1>2. IndInv /\ [Next]_vars => IndInv'
  BY NextInv
<1> QED
  BY <1>1, <1>2, PTL DEF Spec

\* The variables of World always hold values of their types; in particular no
\* queue, snapshot or grid ever holds anything but players.
THEOREM TypeCorrect == Spec => []TypeOK
BY Invariance, PTL DEF IndInv

\* Every pid a thread can read from a grid is a key of players_.
THEOREM MapAlwaysRegistered == Spec => []MapIsRegistered
<1>1. IndInv => MapIsRegistered
  BY MapRegister DEF MapIsRegistered
<1> QED
  BY <1>1, Invariance, PTL

\* players_.at() never throws: neither for the player a handler works for nor
\* for the pids of a snapshot.
THEOREM LookupsAlwaysSucceed == Spec => []LookupsSucceed
<1>1. ASSUME IndInv
      PROVE  LookupsSucceed
  <2> SUFFICES ASSUME NEW t \in IoThreads
               PROVE  /\ pc[t] = "read" => snap[t] \subseteq players_
                      /\ pc[t] \in {"lookup", "lock", "write"} => cur[t] \in players_
    BY DEF LookupsSucceed
  <2>1. pc[t] = "read" => snap[t] \subseteq players_
    BY <1>1 DEF IndInv, Snapshots, Snapshot
  <2>2. ASSUME pc[t] \in {"lookup", "lock", "write"}
        PROVE  cur[t] \in players_
    <3>1. cur[t] \in Pids /\ owner[cur[t]] = t
      BY <1>1, <2>2, ServedPlayer
    <3> QED
      BY <1>1, <2>2, <3>1 DEF IndInv, Whereabouts, Registered
  <2> QED
    BY <2>1, <2>2
<1> QED
  BY <1>1, Invariance, PTL

\* The assertions of AddPlayer, RemovePlayerByPid, Grid::AddNewPlayer and
\* Grid::RemovePlayer, which the release build leaves out, never fail.
THEOREM AssertionsAlwaysHold == Spec => []AssertionsHold
<1>1. ASSUME IndInv
      PROVE  AssertionsHold
  <2> SUFFICES ASSUME NEW t \in IoThreads,
                      pc[t] \in {"AddPlayer", "AddPlayerToGrid", "leaveGrid",
                                 "enterGrid", "remove", "erase"}
               PROVE  /\ pc[t] = "AddPlayer" => cur[t] \notin players_
                      /\ pc[t] = "AddPlayerToGrid" =>
                           cur[t] \notin grid[GetGridByPosition(pos[cur[t]])]
                      /\ pc[t] = "leaveGrid" => cur[t] \in grid[GetGridByPosition(from[t])]
                      /\ pc[t] = "enterGrid" => cur[t] \notin grid[GetGridByPosition(to[t])]
                      /\ pc[t] = "remove" =>
                           cur[t] \in players_ /\ cur[t] \in grid[GetGridByPosition(pos[cur[t]])]
                      /\ pc[t] = "erase" => cur[t] \in players_
    BY DEF AssertionsHold
  <2>1. /\ cur[t] \in Pids /\ owner[cur[t]] = t
        /\ GetGridByPosition(pos[cur[t]]) \in Grids
    BY <1>1, ServedPlayer
  <2>2. pc[t] \in {"leaveGrid", "enterGrid"} =>
          GetGridByPosition(from[t]) \in Grids /\ GetGridByPosition(to[t]) \in Grids
    BY <1>1, <2>1, GridOnMap DEF IndInv, Control, Travel
  <2> QED
    BY <1>1, <2>1, <2>2 DEF IndInv, Whereabouts, Registered, OnSomeGrid, GridOf
<1> QED
  BY <1>1, Invariance, PTL

\* Between the callbacks for it, a player is on the map exactly where its
\* position is.
THEOREM AlwaysInPlace == Spec => []InPlace
<1>1. ASSUME IndInv
      PROVE  InPlace
  <2> SUFFICES ASSUME NEW p \in players_, ~Serving(p), NEW g \in Grids
               PROVE  p \in grid[g] <=> g = GetGridByPosition(pos[p])
    BY DEF InPlace
  <2>1. p \in Pids
    BY <1>1 DEF IndInv, TypeOK
  <2> QED
    BY <1>1, <2>1
    DEF IndInv, Whereabouts, Registered, OnSomeGrid, GridOf, Serving
<1> QED
  BY <1>1, Invariance, PTL
=============================================================================

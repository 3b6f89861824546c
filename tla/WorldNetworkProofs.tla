------------------------- MODULE WorldNetworkProofs -------------------------
(***************************************************************************)
(* Proofs about the packets of World: what a client is told first, and     *)
(* what a new player is told about its surroundings.  They rest on the     *)
(* invariant of the map proved in WorldProofs.                             *)
(***************************************************************************)
EXTENDS WorldProofs

USE PlayersAssumption, MarkersAssumption

-----------------------------------------------------------------------------
(***************************************************************************)
(* Functors wait in the loop of their connection.                          *)
(***************************************************************************)

\* What SendPacket leaves to another thread is queued in the right loop.
LEMMA SendLaterQueued ==
  ASSUME IndInv, QueuedInLoop, NEW t \in IoThreads,
         NEW q \in Pids, q < global_player_id, NEW m \in Packets,
         pending' = SendLater(t, q, m), owner' = owner
  PROVE  QueuedInLoop'
<1> DEFINE f == [dest |-> q, packet |-> m]
<1>1. owner[q] \in IoThreads
  BY DEF IndInv, Created
<1>2. CASE owner[q] = t
  BY <1>2 DEF SendLater, QueuedInLoop
<1>3. CASE owner[q] # t
  <2>1. f \in Functors /\ pending[owner[q]] \in Seq(Functors)
    BY <1>1 DEF Functors, IndInv, TypeOK
  <2>2. /\ pending'[owner[q]] = Append(pending[owner[q]], f)
        /\ \A u \in IoThreads \ {owner[q]} : pending'[u] = pending[u]
    BY <1>1, <1>3 DEF SendLater, IndInv, TypeOK
  <2>3. ASSUME NEW i \in DOMAIN pending'[owner[q]]
        PROVE  owner[pending'[owner[q]][i].dest] = owner[q]
    <3>1. CASE i \in DOMAIN pending[owner[q]]
      BY <1>1, <2>1, <2>2, <3>1, AppendProperties DEF QueuedInLoop
    <3>2. CASE i \notin DOMAIN pending[owner[q]]
      <4>1. i = Len(pending[owner[q]]) + 1
        BY <2>1, <2>2, <2>3, <3>2, AppendProperties
      <4>2. pending'[owner[q]][i] = f
        BY <2>1, <2>2, <4>1, AppendProperties
      <4> QED
        BY <4>2
    <3> QED
      BY <3>1, <3>2
  <2>4. ASSUME NEW u \in IoThreads, NEW i \in DOMAIN pending'[u]
        PROVE  owner'[pending'[u][i].dest] = u
    <3>1. CASE u = owner[q]
      BY <2>3, <3>1
    <3>2. CASE u # owner[q]
      BY <2>2, <3>2 DEF QueuedInLoop
    <3> QED
      BY <3>1, <3>2
  <2> QED
    BY <2>4 DEF QueuedInLoop
<1> QED
  BY <1>2, <1>3

\* Every step keeps the functors in the loops of their connections.
LEMMA QueuedStep ==
  ASSUME IndInv, QueuedInLoop, [Next]_vars
  PROVE  QueuedInLoop'
<1>1. ASSUME NEW t \in IoThreads, NEW at \in SpawnPositions, CreateNewPlayer(t, at)
      PROVE  QueuedInLoop'
  <2>1. pending' = pending
    BY <1>1 DEF CreateNewPlayer, network
  <2>2. owner[global_player_id] = NoThread /\ global_player_id \in Pids
    <3>1. global_player_id \in Pids /\ ~(global_player_id < global_player_id)
      BY <1>1 DEF CreateNewPlayer, IndInv, TypeOK
    <3> QED
      BY <3>1 DEF IndInv, Created
  <2>3. ASSUME NEW u \in IoThreads, NEW i \in DOMAIN pending[u]
        PROVE  owner'[pending[u][i].dest] = u
    <3>1. owner[pending[u][i].dest] = u /\ u # NoThread
      BY <2>3 DEF QueuedInLoop
    <3>2. owner' = [owner EXCEPT ![global_player_id] = t]
      BY <1>1 DEF CreateNewPlayer
    <3>3. pending[u] \in Seq(Functors)
      BY DEF IndInv, TypeOK
    <3>4. pending[u][i] \in Functors
      BY <2>3, <3>3
    <3>5. owner \in [Pids -> IoThreads \cup {NoThread}]
      BY DEF IndInv, TypeOK
    <3> QED
      BY <2>2, <3>1, <3>2, <3>4, <3>5 DEF Functors
  <2> QED
    BY <2>1, <2>3 DEF QueuedInLoop
<1>2. ASSUME NEW t \in IoThreads, NEW q \in snap[t], NEW m \in Packets,
             pending' = SendLater(t, q, m), owner' = owner
      PROVE  QueuedInLoop'
  <2>1. q \in Pids /\ q < global_player_id
    BY DEF IndInv, TypeOK, Snapshots, Snapshot
  <2> QED
    BY <1>2, <2>1, SendLaterQueued
<1>3. ASSUME NEW t \in IoThreads, NEW q \in snap[t],
             \/ SendSync(t, q) \/ SendVanish(t, q) \/ SendEmerge(t, q)
             \/ SendMove(t, q) \/ SendTalk(t, q) \/ SendLeave(t, q)
      PROVE  QueuedInLoop'
  <2>1. cur[t] \in Pids /\ pos[cur[t]] \in Coordinates
    BY <1>3, ServedPlayer
    DEF SendSync, SendVanish, SendEmerge, SendMove, SendTalk, SendLeave, Sending
  <2>2. owner' = owner
    BY <1>3
    DEF SendSync, SendVanish, SendEmerge, SendMove, SendTalk, SendLeave,
        Sending, world
  <2>3. \E m \in {Pos(cur[t], pos[cur[t]]), Move(cur[t], pos[cur[t]]),
                   Leave(cur[t]), Talk(cur[t])} : pending' = SendLater(t, q, m)
    BY <1>3
    DEF SendSync, SendVanish, SendEmerge, SendMove, SendTalk, SendLeave,
        SendPacket, SendBoth
  <2> QED
    BY <1>2, <2>1, <2>2, <2>3, PacketType
<1>4. ASSUME NEW t \in IoThreads, RunFunctor(t)
      PROVE  QueuedInLoop'
  <2>1. pending[t] \in Seq(Functors) /\ pending[t] # <<>>
    BY <1>4 DEF RunFunctor, IndInv, TypeOK, Control, BatchLeft
  <2>2. /\ Len(Tail(pending[t])) = Len(pending[t]) - 1
        /\ DOMAIN Tail(pending[t]) = 1 .. Len(pending[t]) - 1
        /\ \A i \in 1 .. Len(pending[t]) - 1 : Tail(pending[t])[i] = pending[t][i + 1]
    BY <2>1, HeadTailProperties
  <2>3. Len(pending[t]) \in Nat /\ DOMAIN pending[t] = 1 .. Len(pending[t])
    BY <2>1
  <2>4. /\ pending'[t] = Tail(pending[t]) /\ owner' = owner
        /\ \A u \in IoThreads \ {t} : pending'[u] = pending[u]
    BY <1>4 DEF RunFunctor, IndInv, TypeOK, world
  <2>5. ASSUME NEW i \in DOMAIN Tail(pending[t])
        PROVE  owner[Tail(pending[t])[i].dest] = t
    <3>1. i + 1 \in DOMAIN pending[t] /\ Tail(pending[t])[i] = pending[t][i + 1]
      BY <2>2, <2>3, <2>5
    <3> QED
      BY <3>1 DEF QueuedInLoop
  <2> QED
    BY <2>4, <2>5 DEF QueuedInLoop
<1>5. ASSUME UNCHANGED <<owner, pending>>
      PROVE  QueuedInLoop'
  BY <1>5 DEF QueuedInLoop
<1>6. ASSUME NEW t \in IoThreads, NEW p \in Pids, NEW at \in Positions,
             RequestMove(t, p, at) \/ RequestChat(t, p) \/ Disconnect(t, p)
      PROVE  QueuedInLoop'
  BY <1>5, <1>6 DEF RequestMove, RequestChat, Disconnect, Serve, network
<1>7. ASSUME NEW t \in IoThreads,
             \/ AddPlayer(t) \/ AddPlayerToGrid(t) \/ SyncPid(t)
             \/ GetPlayerByPid(t) \/ UpdatePos(t) \/ LeaveGrid(t) \/ EnterGrid(t)
             \/ LockShared(t) \/ ReadGrid(t) \/ UnlockShared(t) \/ GetAllPlayers(t)
      PROVE  QueuedInLoop'
  BY <1>5, <1>7
  DEF AddPlayer, AddPlayerToGrid, SyncPid, GetPlayerByPid, UpdatePos, LeaveGrid,
      EnterGrid, LockShared, ReadGrid, UnlockShared, GetAllPlayers, network, world
<1>8. ASSUME NEW t \in IoThreads,
             \/ NextPart(t) \/ SendSyncPlayers(t)
             \/ RemovePlayerFromGrid(t) \/ ErasePlayer(t) \/ TakeFunctors(t)
      PROVE  QueuedInLoop'
  BY <1>5, <1>8
  DEF NextPart, SendSyncPlayers, RemovePlayerFromGrid, ErasePlayer, TakeFunctors,
      network, world
<1>9. ASSUME NEW t \in IoThreads, NEW p \in Pids,
             RequestChat(t, p) \/ Disconnect(t, p)
      PROVE  QueuedInLoop'
  BY <1>5, <1>9 DEF RequestChat, Disconnect, Serve, network
<1>10. CASE UNCHANGED vars
  BY <1>5, <1>10 DEF vars, world, network
<1> QED
  BY <1>1, <1>3, <1>4, <1>6, <1>7, <1>8, <1>9, <1>10
  DEF Next, Environment, Step, Polling

-----------------------------------------------------------------------------
(***************************************************************************)
(* The pid comes first.                                                    *)
(***************************************************************************)

\* No packet but SYNC_PID tells a client its pid.
LEMMA ReceiveSynced ==
  ASSUME NEW c \in Clients, NEW m \in Packets
  PROVE  Receive(c, m).synced = c.synced
BY DEF Receive, Clients, Packets

\* A write on the connection of q is noticed by no other client, and tells
\* nobody its pid.
LEMMA SendInLoopOthers ==
  ASSUME NEW c \in [Pids -> Clients], NEW q \in Pids, NEW m \in Packets
  PROVE  \A p \in Pids : /\ SendInLoop(c, q, m)[p].synced = c[p].synced
                         /\ p # q => SendInLoop(c, q, m)[p] = c[p]
BY ReceiveSynced DEF SendInLoop

\* The same for the part of a send that happens at once, which writes to
\* connections of the calling thread only.
LEMMA SendNowOthers ==
  ASSUME NEW t, NEW c \in [Pids -> Clients], NEW q \in Pids, NEW m \in Packets
  PROVE  \A p \in Pids : /\ SendNow(t, c, q, m)[p].synced = c[p].synced
                         /\ p # q \/ owner[q] # t => SendNow(t, c, q, m)[p] = c[p]
BY SendInLoopOthers DEF SendNow

\* A thread that sends packets or runs functors has told all the clients of
\* its loop their pids.
LEMMA LoopAnnounced ==
  ASSUME PidAnnounced, NEW t \in IoThreads,
         pc[t] \notin {"AddPlayer", "AddPlayerToGrid", "SyncPid"},
         NEW q \in Pids, q < global_player_id, owner[q] = t
  PROVE  client[q].synced
BY DEF PidAnnounced, Unannounced

\* A step that moves no thread and writes only to clients of its loop which
\* know their pids keeps PidAnnounced.
LEMMA WriteAnnounced ==
  ASSUME PidAnnounced, UNCHANGED <<pc, cur, owner, global_player_id>>,
         \A p \in Pids : client'[p].synced = client[p].synced,
         \A p \in Pids : ~client[p].synced => client'[p] = client[p]
  PROVE  PidAnnounced'
BY DEF PidAnnounced, Unannounced

\* A client that is told its pid was told nothing before, whatever step is
\* taken, and until then initPlayer stays on its way to SyncPid.
LEMMA AnnouncedStep ==
  ASSUME IndInv, QueuedInLoop, PidAnnounced, [Next]_vars
  PROVE  PidAnnounced'
<1> USE DEF PidAnnounced, Unannounced
<1>0. TypeOK
  BY DEF IndInv
<1>1. ASSUME NEW t \in IoThreads, NEW at \in SpawnPositions, CreateNewPlayer(t, at)
      PROVE  PidAnnounced'
  <2>1. /\ client' = client /\ global_player_id \in Pids
        /\ global_player_id' = global_player_id + 1
        /\ owner' = [owner EXCEPT ![global_player_id] = t]
        /\ cur' = [cur EXCEPT ![t] = global_player_id]
        /\ pc' = [pc EXCEPT ![t] = "AddPlayer"]
        /\ pc[t] = "idle"
    BY <1>1 DEF CreateNewPlayer, network, Goto
  <2>2. ASSUME NEW p \in Pids, p # global_player_id, p < global_player_id', ~client[p].synced
        PROVE  cur'[owner'[p]] = p /\ pc'[owner'[p]] = pc[owner[p]] /\ owner'[p] = owner[p]
    <3>1. p < global_player_id
      BY <1>0, <2>1, <2>2 DEF TypeOK, Pids
    <3>2. owner[p] \in IoThreads /\ owner[p] # t /\ cur[owner[p]] = p
      BY <2>1, <2>2, <3>1 DEF IndInv, Created
    <3> QED
      BY <1>0, <2>1, <2>2, <3>2 DEF TypeOK
  <2>3. /\ owner'[global_player_id] = t /\ cur'[t] = global_player_id
        /\ pc'[t] = "AddPlayer"
    BY <1>0, <2>1 DEF TypeOK
  <2>4. \A p \in Pids : p < global_player_id' => p = global_player_id \/ p < global_player_id
    BY <1>0, <2>1 DEF TypeOK, Pids
  <2> QED
    BY <2>1, <2>2, <2>3, <2>4
<1>2. ASSUME NEW t \in IoThreads, client' = client, owner' = owner,
             global_player_id' = global_player_id,
             \A u \in IoThreads \ {t} : pc'[u] = pc[u] /\ cur'[u] = cur[u],
             \/ pc[t] \notin {"AddPlayer", "AddPlayerToGrid", "SyncPid"}
             \/ /\ pc'[t] \in {"AddPlayer", "AddPlayerToGrid", "SyncPid"}
                /\ cur'[t] = cur[t]
      PROVE  PidAnnounced'
  BY <1>2 DEF IndInv, Created
<1>3. ASSUME NEW t \in IoThreads, NEW p \in Pids,
             \/ \E at \in Positions : RequestMove(t, p, at)
             \/ RequestChat(t, p)
             \/ Disconnect(t, p)
      PROVE  PidAnnounced'
  <2>1. CASE \E at \in Positions : RequestMove(t, p, at)
    BY <1>0, <1>2, <2>1 DEF TypeOK, RequestMove, Serve, Begin, Goto, network
  <2>2. CASE RequestChat(t, p)
    BY <1>0, <1>2, <2>2 DEF TypeOK, RequestChat, Serve, Begin, Goto, network
  <2>3. CASE Disconnect(t, p)
    BY <1>0, <1>2, <2>3 DEF TypeOK, Disconnect, Serve, Begin, Goto, network
  <2> QED
    BY <1>3, <2>1, <2>2, <2>3
<1>4. ASSUME NEW t \in IoThreads,
             \/ AddPlayer(t) \/ AddPlayerToGrid(t)
             \/ GetPlayerByPid(t) \/ UpdatePos(t) \/ LeaveGrid(t) \/ EnterGrid(t)
             \/ LockShared(t) \/ ReadGrid(t) \/ UnlockShared(t) \/ GetAllPlayers(t)
      PROVE  PidAnnounced'
  <2>1. UNCHANGED <<client, owner, global_player_id, cur>>
    BY <1>4
    DEF AddPlayer, AddPlayerToGrid, GetPlayerByPid, UpdatePos, LeaveGrid,
        EnterGrid, LockShared, ReadGrid, UnlockShared, GetAllPlayers, network,
        world, locals
  <2>2. \A u \in IoThreads \ {t} : pc'[u] = pc[u]
    BY <1>0, <1>4
    DEF TypeOK, AddPlayer, AddPlayerToGrid, GetPlayerByPid, UpdatePos, LeaveGrid,
        EnterGrid, LockShared, ReadGrid, UnlockShared, GetAllPlayers, Begin, Goto
  <2>3. \/ pc[t] \notin {"AddPlayer", "AddPlayerToGrid", "SyncPid"}
        \/ pc'[t] \in {"AddPlayer", "AddPlayerToGrid", "SyncPid"}
    BY <1>0, <1>4
    DEF TypeOK, AddPlayer, AddPlayerToGrid, GetPlayerByPid, UpdatePos, LeaveGrid,
        EnterGrid, LockShared, ReadGrid, UnlockShared, GetAllPlayers, Begin, Goto
  <2> QED
    BY <1>2, <2>1, <2>2, <2>3
<1>5. ASSUME NEW t \in IoThreads,
             \/ NextPart(t) \/ RemovePlayerFromGrid(t) \/ ErasePlayer(t)
             \/ TakeFunctors(t)
      PROVE  PidAnnounced'
  <2>1. UNCHANGED <<client, owner, global_player_id>>
    BY <1>5
    DEF NextPart, RemovePlayerFromGrid, ErasePlayer, TakeFunctors, network, world
  <2>2. \A u \in IoThreads \ {t} : pc'[u] = pc[u] /\ cur'[u] = cur[u]
    BY <1>0, <1>5
    DEF TypeOK, NextPart, RemovePlayerFromGrid, ErasePlayer, TakeFunctors,
        locals, Return, Begin, Goto
  <2>3. pc[t] \notin {"AddPlayer", "AddPlayerToGrid", "SyncPid"}
    BY <1>5 DEF NextPart, RemovePlayerFromGrid, ErasePlayer, TakeFunctors
  <2> QED
    BY <1>2, <2>1, <2>2, <2>3
<1>6. ASSUME NEW t \in IoThreads, SyncPid(t)
      PROVE  PidAnnounced'
  <2>1. cur[t] \in Pids /\ owner[cur[t]] = t
    BY <1>6, ServedPlayer DEF SyncPid
  <2>2. client'[cur[t]].synced /\ \A p \in Pids \ {cur[t]} : client'[p] = client[p]
    BY <1>0, <1>6, <2>1 DEF SyncPid, TypeOK, Clients
  <2>3. ASSUME NEW p \in Pids, p < global_player_id, ~client'[p].synced
        PROVE  pc'[owner[p]] = pc[owner[p]] /\ cur'[owner[p]] = cur[owner[p]]
    <3>1. p # cur[t] /\ cur[owner[p]] = p
      BY <2>2, <2>3
    <3> QED
      BY <1>0, <1>6, <3>1 DEF SyncPid, TypeOK, Begin, Goto, locals
  <2> QED
    BY <1>6, <2>2, <2>3 DEF SyncPid, world
<1>7. ASSUME NEW t \in IoThreads, SendSyncPlayers(t)
      PROVE  PidAnnounced'
  <2>1. /\ cur[t] \in Pids /\ owner[cur[t]] = t /\ cur[t] < global_player_id
        /\ pc[t] = "syncPlayers"
    BY <1>7, ServedPlayer DEF SendSyncPlayers
  <2>2. client[cur[t]].synced
    BY <2>1, LoopAnnounced
  <2>3. client'[cur[t]].synced /\ \A p \in Pids \ {cur[t]} : client'[p] = client[p]
    BY <1>0, <1>7, <2>1, <2>2 DEF SendSyncPlayers, TypeOK, Clients
  <2>4. ASSUME NEW p \in Pids, p < global_player_id, ~client'[p].synced
        PROVE  pc'[owner[p]] = pc[owner[p]] /\ cur'[owner[p]] = cur[owner[p]]
    <3>1. p # cur[t] /\ cur[owner[p]] = p
      BY <2>3, <2>4
    <3> QED
      BY <1>0, <1>7, <3>1 DEF SendSyncPlayers, TypeOK, Return, Begin, Goto
  <2> QED
    BY <1>7, <2>3, <2>4 DEF SendSyncPlayers, world
<1>8. ASSUME NEW t \in IoThreads, NEW q \in snap[t],
             \/ SendSync(t, q) \/ SendMove(t, q) \/ SendTalk(t, q) \/ SendLeave(t, q)
      PROVE  PidAnnounced'
  <2>1. pc[t] = "send" /\ UNCHANGED <<pc, cur, owner, global_player_id>>
    BY <1>8 DEF SendSync, SendMove, SendTalk, SendLeave, Sending, world
  <2>2. cur[t] \in Pids /\ pos[cur[t]] \in Coordinates
    BY <2>1, ServedPlayer
  <2>3. q \in Pids /\ q < global_player_id
    BY <1>0 DEF IndInv, TypeOK, Snapshots, Snapshot
  <2>4. \E m \in {Pos(cur[t], pos[cur[t]]), Move(cur[t], pos[cur[t]]),
                   Leave(cur[t]), Talk(cur[t])} : client' = SendNow(t, client, q, m)
    BY <1>8 DEF SendSync, SendMove, SendTalk, SendLeave, SendPacket
  <2>5. PICK m \in Packets : client' = SendNow(t, client, q, m)
    BY <2>2, <2>4, PacketType
  <2>6. owner[q] = t => client[q].synced
    BY <2>1, <2>3, LoopAnnounced
  <2>7. client \in [Pids -> Clients]
    BY <1>0 DEF TypeOK
  <2>8. \A p \in Pids : /\ client'[p].synced = client[p].synced
                        /\ ~client[p].synced => client'[p] = client[p]
    BY <2>3, <2>5, <2>6, <2>7, SendNowOthers
  <2> QED
    BY <2>1, <2>8, WriteAnnounced
<1>9. ASSUME NEW t \in IoThreads, NEW q \in snap[t],
             SendVanish(t, q) \/ SendEmerge(t, q)
      PROVE  PidAnnounced'
  <2>1. pc[t] = "send" /\ UNCHANGED <<pc, cur, owner, global_player_id>>
    BY <1>9 DEF SendVanish, SendEmerge, Sending, world
  <2>2. /\ cur[t] \in Pids /\ pos[cur[t]] \in Coordinates
        /\ cur[t] < global_player_id /\ owner[cur[t]] = t
    BY <2>1, ServedPlayer
  <2>3. q \in Pids /\ q < global_player_id
    BY <1>0 DEF IndInv, TypeOK, Snapshots, Snapshot
  <2>4. PICK m \in Packets, own \in Packets : SendBoth(t, q, m, own)
    <3>1. CASE SendVanish(t, q)
      BY <2>2, <2>3, <3>1, PacketType DEF SendVanish
    <3>2. CASE SendEmerge(t, q)
      BY <2>2, <2>3, <3>2, PacketType, PositionsReadType DEF SendEmerge
    <3> QED
      BY <1>9, <3>1, <3>2
  <2> DEFINE c == SendNow(t, client, q, m)
  <2>5. client' = SendInLoop(c, cur[t], own)
    BY <2>4 DEF SendBoth
  <2>6. (owner[q] = t => client[q].synced) /\ client[cur[t]].synced
    BY <2>1, <2>2, <2>3, LoopAnnounced
  <2>7. client \in [Pids -> Clients]
    BY <1>0 DEF TypeOK
  <2>8. c \in [Pids -> Clients]
    BY <2>3, <2>7, SendNowType
  <2>9. \A p \in Pids : /\ c[p].synced = client[p].synced
                        /\ p # q \/ owner[q] # t => c[p] = client[p]
    BY <2>3, <2>7, SendNowOthers
  <2>10. \A p \in Pids : /\ client'[p].synced = c[p].synced
                         /\ p # cur[t] => client'[p] = c[p]
    BY <2>2, <2>5, <2>8, SendInLoopOthers
  <2>11. \A p \in Pids : /\ client'[p].synced = client[p].synced
                         /\ ~client[p].synced => client'[p] = client[p]
    BY <2>6, <2>9, <2>10
  <2> QED
    BY <2>1, <2>11, WriteAnnounced
<1>10. ASSUME NEW t \in IoThreads, RunFunctor(t)
      PROVE  PidAnnounced'
  <2>1. pending[t] \in Seq(Functors) /\ pending[t] # <<>>
    BY <1>0, <1>10 DEF RunFunctor, IndInv, TypeOK, Control, BatchLeft
  <2>2. Head(pending[t]) \in Functors /\ Head(pending[t]) = pending[t][1]
        /\ 1 \in DOMAIN pending[t]
    BY <2>1, HeadTailProperties, EmptySeq
  <2> DEFINE q == Head(pending[t]).dest
             m == Head(pending[t]).packet
  <2>3. q \in Pids /\ m \in Packets /\ owner[q] = t
    BY <2>2 DEF Functors, QueuedInLoop
  <2>4. q < global_player_id
    BY <2>3 DEF IndInv, Created
  <2>5. client[q].synced
    BY <1>10, <2>3, <2>4, LoopAnnounced DEF RunFunctor
  <2>6. client' = SendInLoop(client, q, m) /\ client \in [Pids -> Clients]
    BY <1>0, <1>10 DEF RunFunctor, TypeOK
  <2>7. \A p \in Pids : /\ client'[p].synced = client[p].synced
                        /\ p # q => client'[p] = client[p]
    BY <2>3, <2>6, SendInLoopOthers
  <2>8. ASSUME NEW p \in Pids, p < global_player_id, ~client[p].synced
        PROVE  pc'[owner[p]] = pc[owner[p]]
    <3>1. owner[p] # t
      BY <1>10, <2>8 DEF RunFunctor
    <3> QED
      BY <1>0, <1>10, <3>1 DEF RunFunctor, TypeOK, Goto
  <2>9. UNCHANGED <<cur, owner, global_player_id>>
    BY <1>10 DEF RunFunctor, world, locals
  <2> QED
    BY <2>5, <2>7, <2>8, <2>9
<1>11. CASE UNCHANGED vars
  BY <1>11 DEF vars, world, network, locals
<1> QED
  BY <1>1, <1>3, <1>4, <1>5, <1>6, <1>7, <1>8, <1>9, <1>10, <1>11
  DEF Next, Environment, Step, Polling

-----------------------------------------------------------------------------
(***************************************************************************)
(* A new player is among the players around it.                            *)
(***************************************************************************)

\* No thread changes the locals of another one ...
LEMMA LocalsOfOthers ==
  ASSUME TypeOK, NEW t \in IoThreads, NEW u \in IoThreads, u # t,
         Environment(t) \/ Step(t)
  PROVE  UNCHANGED <<pc[u], job[u], cur[u], toRead[u], snap[u], info[u]>>
<1> USE DEF TypeOK, world, locals, Begin, Goto
<1>1. CASE Environment(t)
  BY <1>1 DEF Environment, CreateNewPlayer, RequestMove, RequestChat,
              Disconnect, Serve
<1>2. CASE AddPlayer(t) \/ AddPlayerToGrid(t) \/ SyncPid(t) \/ GetPlayerByPid(t)
  BY <1>2 DEF AddPlayer, AddPlayerToGrid, SyncPid, GetPlayerByPid
<1>3. CASE UpdatePos(t) \/ LeaveGrid(t) \/ EnterGrid(t)
  BY <1>3 DEF UpdatePos, LeaveGrid, EnterGrid
<1>4. CASE LockShared(t) \/ ReadGrid(t) \/ UnlockShared(t) \/ GetAllPlayers(t)
  BY <1>4 DEF LockShared, ReadGrid, UnlockShared, GetAllPlayers
<1>5. ASSUME NEW q \in snap[t],
             \/ SendSync(t, q) \/ SendVanish(t, q) \/ SendEmerge(t, q)
             \/ SendMove(t, q) \/ SendTalk(t, q) \/ SendLeave(t, q)
      PROVE  UNCHANGED <<pc[u], job[u], cur[u], toRead[u], snap[u], info[u]>>
  BY <1>5 DEF SendSync, SendVanish, SendEmerge, SendMove, SendTalk, SendLeave,
              Sending
<1>6. CASE NextPart(t) \/ SendSyncPlayers(t)
  BY <1>6 DEF NextPart, SendSyncPlayers, Return
<1>7. CASE RemovePlayerFromGrid(t) \/ ErasePlayer(t)
  BY <1>7 DEF RemovePlayerFromGrid, ErasePlayer, Return
<1>8. CASE TakeFunctors(t) \/ RunFunctor(t)
  BY <1>8 DEF TakeFunctors, RunFunctor
<1> QED
  BY <1>1, <1>2, <1>3, <1>4, <1>5, <1>6, <1>7, <1>8 DEF Step

\* ... nor the position of the player that one works for, which stays the same
\* unless the thread itself is in UpdatePos.
LEMMA PositionKept ==
  ASSUME IndInv, NEW t \in IoThreads, Environment(t) \/ Step(t),
         NEW u \in IoThreads, pc[u] \notin {"idle", "functors", "write"}
  PROVE  pos'[cur[u]] = pos[cur[u]]
<1>0. TypeOK /\ cur[u] \in Pids /\ cur[u] < global_player_id /\ owner[cur[u]] = u
  BY ServedPlayer DEF IndInv
<1>1. CASE \E at \in SpawnPositions : CreateNewPlayer(t, at)
  <2>1. PICK at \in SpawnPositions : pos' = [pos EXCEPT ![global_player_id] = at]
    BY <1>1 DEF CreateNewPlayer
  <2>2. cur[u] # global_player_id
    BY <1>0 DEF TypeOK, Pids
  <2> QED
    BY <1>0, <2>1, <2>2 DEF TypeOK
<1>2. CASE UpdatePos(t)
  <2>1. cur[t] # cur[u]
    BY <1>0, <1>2, ServedPlayer DEF UpdatePos
  <2> QED
    BY <1>0, <1>2, <2>1 DEF UpdatePos, TypeOK
<1>3. ASSUME NEW p \in Pids, \/ \E at \in Positions : RequestMove(t, p, at)
                             \/ RequestChat(t, p) \/ Disconnect(t, p)
      PROVE  pos' = pos
  BY <1>3 DEF RequestMove, RequestChat, Disconnect, Serve
<1>4. ASSUME \/ AddPlayer(t) \/ AddPlayerToGrid(t) \/ SyncPid(t)
             \/ GetPlayerByPid(t) \/ LeaveGrid(t) \/ EnterGrid(t)
             \/ LockShared(t) \/ ReadGrid(t) \/ UnlockShared(t) \/ GetAllPlayers(t)
      PROVE  pos' = pos
  BY <1>4 DEF AddPlayer, AddPlayerToGrid, SyncPid, GetPlayerByPid, LeaveGrid,
              EnterGrid, LockShared, ReadGrid, UnlockShared, GetAllPlayers, world
<1>5. ASSUME NEW q \in snap[t],
             \/ SendSync(t, q) \/ SendVanish(t, q) \/ SendEmerge(t, q)
             \/ SendMove(t, q) \/ SendTalk(t, q) \/ SendLeave(t, q)
      PROVE  pos' = pos
  BY <1>5 DEF SendSync, SendVanish, SendEmerge, SendMove, SendTalk, SendLeave,
              Sending, world
<1>6. ASSUME \/ NextPart(t) \/ SendSyncPlayers(t) \/ RemovePlayerFromGrid(t)
             \/ ErasePlayer(t) \/ TakeFunctors(t) \/ RunFunctor(t)
      PROVE  pos' = pos
  BY <1>6 DEF NextPart, SendSyncPlayers, RemovePlayerFromGrid, ErasePlayer,
              TakeFunctors, RunFunctor, world
<1> QED
  BY <1>1, <1>2, <1>3, <1>4, <1>5, <1>6 DEF Environment, Step

\* Every step of SyncWithSurrounding keeps the new player in sight of itself.
LEMMA FindsStep ==
  ASSUME IndInv, [Next]_vars, NEW u \in IoThreads, FindsItself(u)
  PROVE  FindsItself(u)'
<1>0. TypeOK
  BY DEF IndInv
<1>1. ASSUME NEW t \in IoThreads, t # u, Environment(t) \/ Step(t)
      PROVE  FindsItself(u)'
  <2>1. UNCHANGED <<pc[u], job[u], cur[u], toRead[u], snap[u], info[u]>>
    BY <1>0, <1>1, LocalsOfOthers
  <2>2. pc[u] \in {"read", "send", "syncPlayers"} => pos'[cur[u]] = pos[cur[u]]
    BY <1>1, PositionKept
  <2> QED
    BY <2>1, <2>2 DEF FindsItself
<1>2. ASSUME pc'[u] \notin {"read", "send", "syncPlayers"} \/ job'[u] # "sync"
      PROVE  FindsItself(u)'
  BY <1>2 DEF FindsItself
<1>3. CASE Environment(u)
  <2>1. pc'[u] \in {"AddPlayer", "lookup"}
    BY <1>0, <1>3 DEF Environment, CreateNewPlayer, RequestMove, RequestChat,
                      Disconnect, Serve, Begin, Goto, TypeOK
  <2> QED
    BY <1>2, <2>1
<1>4. CASE \/ AddPlayer(u) \/ AddPlayerToGrid(u) \/ SyncPid(u) \/ GetPlayerByPid(u)
           \/ UpdatePos(u) \/ LeaveGrid(u) \/ EnterGrid(u) \/ SendSyncPlayers(u)
           \/ RemovePlayerFromGrid(u) \/ ErasePlayer(u) \/ TakeFunctors(u) \/ RunFunctor(u)
  <2> USE DEF Return, Begin, Goto, TypeOK
  <2>1. CASE \/ AddPlayer(u) \/ AddPlayerToGrid(u) \/ SyncPid(u) \/ GetPlayerByPid(u)
    <3>1. pc'[u] \in {"AddPlayerToGrid", "SyncPid", "lock", "write"}
      BY <1>0, <2>1 DEF AddPlayer, AddPlayerToGrid, SyncPid, GetPlayerByPid
    <3> QED
      BY <1>2, <3>1
  <2>2. CASE UpdatePos(u) \/ LeaveGrid(u) \/ EnterGrid(u)
    <3>1. pc'[u] \in {"leaveGrid", "enterGrid", "lock"}
      BY <1>0, <2>2 DEF UpdatePos, LeaveGrid, EnterGrid
    <3> QED
      BY <1>2, <3>1
  <2>3. CASE SendSyncPlayers(u) \/ RemovePlayerFromGrid(u) \/ ErasePlayer(u)
    <3>1. pc'[u] \in {"idle", "erase"}
      BY <1>0, <2>3 DEF SendSyncPlayers, RemovePlayerFromGrid, ErasePlayer
    <3> QED
      BY <1>2, <3>1
  <2>4. CASE TakeFunctors(u) \/ RunFunctor(u)
    <3>1. pc'[u] \in {"idle", "functors"}
      BY <1>0, <2>4 DEF TakeFunctors, RunFunctor
    <3> QED
      BY <1>2, <3>1
  <2> QED
    BY <1>4, <2>1, <2>2, <2>3, <2>4
<1>5. CASE GetAllPlayers(u)
  BY <1>2, <1>5 DEF GetAllPlayers
<1>6. CASE LockShared(u)
  <2>1. /\ pc[u] = "lock" /\ pc'[u] = "read" /\ toRead'[u] = GridsToRead(u)
        /\ UNCHANGED <<job, cur, pos>>
    BY <1>0, <1>6 DEF LockShared, Goto, TypeOK, world
  <2>2. pos[cur[u]] \in Coordinates /\ OnMap(pos[cur[u]])
    BY <2>1, ServedPlayer
  <2>3. job[u] = "sync" => GetGridByPosition(pos[cur[u]]) \in GridsToRead(u)
    BY <2>2, SudokuHasCentre DEF GridsToRead
  <2> QED
    BY <2>1, <2>3 DEF FindsItself
<1>7. CASE ReadGrid(u)
  <2>1. PICK g \in toRead[u] : /\ snap' = [snap EXCEPT ![u] = @ \cup grid[g]]
                               /\ toRead' = [toRead EXCEPT ![u] = @ \ {g}]
    BY <1>7 DEF ReadGrid
  <2>2. pc[u] = "read" /\ UNCHANGED <<pc, job, cur, pos>>
    BY <1>7 DEF ReadGrid, world
  <2>3. /\ cur[u] \in Pids /\ owner[cur[u]] = u
        /\ GetGridByPosition(pos[cur[u]]) \in Grids
    BY <2>2, ServedPlayer
  <2>4. cur[u] \in grid[GetGridByPosition(pos[cur[u]])]
    BY <2>2, <2>3 DEF IndInv, Whereabouts, OnSomeGrid, GridOf
  <2>5. snap'[u] = snap[u] \cup grid[g] /\ toRead'[u] = toRead[u] \ {g}
    BY <1>0, <2>1 DEF TypeOK
  <2> QED
    BY <2>2, <2>4, <2>5 DEF FindsItself
<1>8. CASE UnlockShared(u)
  <2>1. /\ pc[u] = "read" /\ toRead[u] = {} /\ pc'[u] = "send"
        /\ UNCHANGED <<job, cur, pos, snap, info>>
    BY <1>0, <1>8 DEF UnlockShared, Goto, TypeOK, world, locals
  <2> QED
    BY <2>1 DEF FindsItself
<1>9. ASSUME NEW q \in snap[u], SendSync(u, q)
      PROVE  FindsItself(u)'
  <2>1. /\ pc[u] = "send" /\ job[u] = "sync" /\ snap'[u] = snap[u] \ {q}
        /\ UNCHANGED <<pc, job, cur, pos>>
    BY <1>0, <1>9 DEF SendSync, Sending, TypeOK, world
  <2>2. PICK at \in PositionsRead(q) : info' = [info EXCEPT ![u][q] = at]
    BY <1>9 DEF SendSync
  <2>3. cur[u] \in Pids /\ owner[cur[u]] = u /\ q \in Pids
    BY <1>0, <2>1, ServedPlayer DEF TypeOK
  <2>4. info'[u][q] = at /\ \A p \in Pids \ {q} : info'[u][p] = info[u][p]
    BY <1>0, <2>2, <2>3 DEF TypeOK, Sights
  <2>5. q = cur[u] => at = pos[cur[u]]
    BY <2>1, <2>3, <2>2 DEF PositionsRead
  <2> QED
    BY <2>1, <2>3, <2>4, <2>5 DEF FindsItself
<1>10. ASSUME NEW q \in snap[u],
              \/ SendVanish(u, q) \/ SendEmerge(u, q)
              \/ SendMove(u, q) \/ SendTalk(u, q) \/ SendLeave(u, q)
      PROVE  FindsItself(u)'
  BY <1>2, <1>10
  DEF SendVanish, SendEmerge, SendMove, SendTalk, SendLeave, Sending
<1>11. CASE NextPart(u)
  <2>1. CASE job[u] = "sync"
    <3>1. /\ pc[u] = "send" /\ snap[u] = {} /\ pc'[u] = "syncPlayers"
          /\ UNCHANGED <<cur, pos, info>>
      BY <1>0, <1>11, <2>1 DEF NextPart, Begin, Goto, TypeOK, world, locals
    <3> QED
      BY <2>1, <3>1 DEF FindsItself
  <2>2. CASE job[u] # "sync"
    <3>1. pc'[u] \in {"lock", "remove", "idle"}
      BY <1>0, <1>11, <2>2 DEF NextPart, Return, Begin, Goto, TypeOK
    <3> QED
      BY <1>2, <3>1
  <2> QED
    BY <2>1, <2>2
<1>12. CASE UNCHANGED vars
  BY <1>12 DEF vars, world, locals, FindsItself
<1> QED
  BY <1>1, <1>3, <1>4, <1>5, <1>6, <1>7, <1>8, <1>9, <1>10, <1>11, <1>12
  DEF Next, Step, Polling

-----------------------------------------------------------------------------
(***************************************************************************)
(* The theorems.                                                           *)
(***************************************************************************)

\* NetworkInv holds in every reachable state: where functors wait, who knows
\* its pid and what SyncWithSurrounding has found never contradict each other.
THEOREM NetworkInvariance == Spec => []NetworkInv
<1>1. Init => NetworkInv
  <2> SUFFICES ASSUME Init PROVE NetworkInv
    OBVIOUS
  <2>1. QueuedInLoop
    BY EmptySeq DEF Init, QueuedInLoop
  <2>2. PidAnnounced
    BY DEF Init, PidAnnounced, Unannounced, Pids
  <2>3. \A t \in IoThreads : FindsItself(t)
    BY DEF Init, FindsItself
  <2> QED
    BY <2>1, <2>2, <2>3 DEF NetworkInv
<1>2. IndInv /\ NetworkInv /\ [Next]_vars => NetworkInv'
  BY QueuedStep, AnnouncedStep, FindsStep DEF NetworkInv
<1> QED
  BY <1>1, <1>2, Invariance, PTL DEF Spec

\* A client is told its pid before it is told of any player, itself included:
\* although AddPlayer makes the player visible to all threads before SyncPid is
\* called, what they send it waits in its loop until initPlayer has returned.
THEOREM PidComesFirst == Spec => []SyncPidFirst
<1>1. NetworkInv => SyncPidFirst
  BY DEF NetworkInv, PidAnnounced, Unannounced, SyncPidFirst
<1> QED
  BY <1>1, NetworkInvariance, PTL

\* SYNC_PLAYERS always holds the new player at its position, so the assertion of
\* packToLTDWithProtobuf that the encoded packet is not empty never fails.
THEOREM SyncPlayersNeverEmpty == Spec => []SyncPlayersNotEmpty
<1>1. IndInv /\ NetworkInv => SyncPlayersNotEmpty
  BY DEF NetworkInv, FindsItself, SyncPlayersNotEmpty, IndInv, Control, PartAt
<1> QED
  BY <1>1, Invariance, NetworkInvariance, PTL

=============================================================================

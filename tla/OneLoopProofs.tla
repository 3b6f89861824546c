---------------------------- MODULE OneLoopProofs ----------------------------
(***************************************************************************)
(* Proofs about what clients see when all connections are in one event     *)
(* loop, for every number of players, positions and requests and every     *)
(* size of the map.                                                        *)
(***************************************************************************)
EXTENDS WorldProofs, OneLoopInvariant

USE PlayersAssumption, MarkersAssumption

-----------------------------------------------------------------------------
(***************************************************************************)
(* One thread.                                                             *)
(***************************************************************************)

\* The thread is the owner of every player, and works for at most one.
LEMMA OneThread ==
  ASSUME OneLoop, IndInv, NEW t \in IoThreads
  PROVE  /\ IoThreads = {t}
         /\ \A p \in Pids : Serving(p) <=> cur[t] = p
         /\ \A p \in Pids : p < global_player_id => owner[p] = t
         /\ \A p \in Pids : Online(p) => owner[p] = t /\ p < global_player_id
<1>1. IoThreads = {t}
  BY DEF OneLoop
<1>2. \A p \in Pids : p < global_player_id => owner[p] = t
  BY <1>1 DEF IndInv, Created
<1>3. \A p \in Pids : Online(p) => p < global_player_id
  BY DEF IndInv, Created, Online
<1>4. \A p \in Pids : Serving(p) <=> cur[t] = p
  BY <1>1 DEF Serving
<1> QED
  BY <1>1, <1>2, <1>3, <1>4

\* Players that have been created see each other or not, and see themselves.
LEMMA Sighted ==
  ASSUME IndInv, NEW p \in Pids, p < global_player_id
  PROVE  /\ pos[p] \in Coordinates /\ OnMap(pos[p]) /\ pos[p] # NoPos
         /\ Near(pos[p], p)
         /\ \A q \in Pids : q < global_player_id => (Near(pos[p], q) <=> Near(pos[q], p))
<1>1. \A q \in Pids : q < global_player_id =>
        pos[q] \in Coordinates /\ OnMap(pos[q]) /\ pos[q] # NoPos
  BY DEF IndInv, Created
<1>2. Near(pos[p], p)
  BY <1>1, SudokuHasCentre DEF Near
<1>3. ASSUME NEW q \in Pids, q < global_player_id
      PROVE  Near(pos[p], q) <=> Near(pos[q], p)
  BY <1>1, <1>3, SightIsMutual DEF Near
<1> QED
  BY <1>1, <1>2, <1>3

\* While a snapshot is taken and served, the players on its grids are the ones
\* whose positions are on them.
LEMMA AroundIs ==
  ASSUME OneLoop, IndInv, NEW t \in IoThreads, pc[t] \in {"lock", "read", "send"}
  PROVE  \A q \in Pids : q \in Around(t) <=>
           /\ Online(q) \/ q = cur[t]
           /\ GetGridByPosition(pos[q]) \in GridsToRead(t)
<1> SUFFICES ASSUME NEW q \in Pids
             PROVE  q \in Around(t) <=>
                      /\ Online(q) \/ q = cur[t]
                      /\ GetGridByPosition(pos[q]) \in GridsToRead(t)
  OBVIOUS
<1>1. cur[t] \in Pids /\ owner[cur[t]] = t
  BY ServedPlayer
<1>2. OnSomeGrid(q) <=> Online(q) \/ q = cur[t]
  BY <1>1, OneThread DEF OnSomeGrid, Online
<1>3. GridOf(q) = GetGridByPosition(pos[q])
  BY <1>1, OneThread DEF GridOf
<1>4. \A g \in GridsToRead(t) : q \in grid[g] <=> (OnSomeGrid(q) /\ g = GridOf(q))
  BY GridsToReadType DEF IndInv, Whereabouts
<1> QED
  BY <1>2, <1>3, <1>4 DEF Around

\* What that means for the parts that look around the player ...
LEMMA AroundPlayer ==
  ASSUME OneLoop, IndInv, NEW t \in IoThreads, pc[t] \in {"lock", "read", "send"},
         job[t] \in {"sync", "move", "close"}
  PROVE  \A q \in Pids : q \in Around(t) <=>
           (Online(q) \/ q = cur[t]) /\ Near(pos[cur[t]], q)
BY AroundIs DEF GridsToRead, Near

\* ... and for the two parts of HandleCrossedGrid.
LEMMA AroundCrossing ==
  ASSUME OneLoop, IndInv, NEW t \in IoThreads, pc[t] \in {"lock", "read", "send"}
  PROVE  /\ job[t] = "vanish" => \A q \in Pids : q \in Around(t) <=>
              (Online(q) \/ q = cur[t]) /\ Near(from[t], q) /\ ~Near(to[t], q)
         /\ job[t] = "emerge" => \A q \in Pids : q \in Around(t) <=>
              (Online(q) \/ q = cur[t]) /\ Near(to[t], q) /\ ~Near(from[t], q)
BY AroundIs, CrossingDifference DEF GridsToRead, Near

\* What the invariant says, before and after a step.
LEMMA ViewOfThread ==
  ASSUME OneLoop, NEW t \in IoThreads
  PROVE  /\ ViewInv <=> /\ pending[t] = <<>> /\ pc[t] # "functors"
                        /\ NotThere /\ Settled /\ View(t)
         /\ ViewInv' <=> /\ pending'[t] = <<>> /\ pc'[t] # "functors"
                         /\ NotThere' /\ Settled' /\ View(t)'
<1>1. IoThreads = {t}
  BY DEF OneLoop
<1> QED
  BY <1>1 DEF ViewInv, NothingQueued

-----------------------------------------------------------------------------
(***************************************************************************)
(* Packets.                                                                *)
(***************************************************************************)

\* Every packet is written at once.
LEMMA SentAtOnce ==
  ASSUME OneLoop, IndInv, NEW t \in IoThreads, NEW q \in snap[t]
  PROVE  /\ q \in Pids /\ q < global_player_id
         /\ \A c, m : SendNow(t, c, q, m) = SendInLoop(c, q, m)
         /\ \A m : SendLater(t, q, m) = pending
<1>1. q \in Pids /\ q < global_player_id
  BY DEF IndInv, TypeOK, Snapshots, Snapshot
<1>2. owner[q] = t
  BY <1>1, OneThread
<1> QED
  BY <1>1, <1>2 DEF SendNow, SendLater

\* A step of a callback that leaves the players and the screens alone.
LEMMA ScreensLeftAlone ==
  ASSUME NotThere, Settled, UNCHANGED <<conn, pos, cur>>,
         \A p \in Pids : client'[p].view = client[p].view
  PROVE  NotThere' /\ Settled'
BY DEF NotThere, Settled, Online, Near, Serving

-----------------------------------------------------------------------------
(***************************************************************************)
(* initPlayer, up to SyncPid.                                              *)
(***************************************************************************)

\* Nobody sees a player that has just been created, and it sees nobody.
LEMMA CreateView ==
  ASSUME OneLoop, IndInv, ViewInv, NEW t \in IoThreads,
         NEW at \in SpawnPositions, CreateNewPlayer(t, at)
  PROVE  ViewInv'
<1> DEFINE new == global_player_id
<1>0. TypeOK /\ PartAt(t) /\ ServesOwn(t)
  BY DEF IndInv, Control
<1>1. /\ pc[t] = "idle" /\ cur[t] = 0 /\ job[t] = "none"
      /\ pending[t] = <<>> /\ NotThere /\ Settled /\ View(t)
  BY <1>0, ViewOfThread DEF CreateNewPlayer, PartAt, ServesOwn
<1>2. new \in Pids /\ conn[new] = "none" /\ ~Online(new)
  <2>1. new \in Pids /\ ~(new < global_player_id)
    BY <1>0 DEF CreateNewPlayer, TypeOK
  <2> QED
    BY <2>1 DEF IndInv, Created, Online
<1>3. \A p \in Pids : ~Serving(p)
  BY <1>1, OneThread DEF Pids
<1>4. /\ pc'[t] = "AddPlayer" /\ cur'[t] = new /\ job'[t] = "none"
      /\ UNCHANGED <<client, pending, info, snap>>
      /\ conn'[new] = "up"
      /\ \A p \in Pids \ {new} : conn'[p] = conn[p] /\ pos'[p] = pos[p]
  BY <1>0, <1>1, <1>2 DEF CreateNewPlayer, TypeOK, Goto, network
<1>5. \A p \in Pids : Serving(p)' <=> p = new
  BY <1>4 DEF Serving, OneLoop
<1>6. NotThere'
  BY <1>1, <1>2, <1>4 DEF NotThere
<1>7. Settled'
  BY <1>1, <1>2, <1>3, <1>4, <1>5 DEF Settled, Online, Near
<1>8. Entering(t)'
  <2>1. client[new].view = NoSight
    BY <1>1, <1>2 DEF NotThere
  <2>2. \A p \in Pids : Online(p) => client[p].view[new] = NoPos
    BY <1>1, <1>2, <1>3 DEF Settled
  <2> QED
    BY <1>2, <1>4, <2>1, <2>2 DEF Entering, Online, NoSight
<1>9. View(t)'
  BY <1>1, <1>4, <1>8
  DEF View, Exact, NoInfo, Arrived, Syncing, Playing, Closing
<1> QED
  BY <1>1, <1>4, <1>6, <1>7, <1>9, ViewOfThread

\* That stays so until SyncWithSurrounding begins.
LEMMA EnterView ==
  ASSUME OneLoop, IndInv, ViewInv, NEW t \in IoThreads,
         AddPlayer(t) \/ AddPlayerToGrid(t) \/ SyncPid(t)
  PROVE  ViewInv'
<1>0. TypeOK /\ PartAt(t) /\ cur[t] \in Pids
  BY ServedPlayer DEF IndInv, Control, AddPlayer, AddPlayerToGrid, SyncPid
<1>1. /\ pc[t] \in {"AddPlayer", "AddPlayerToGrid", "SyncPid"} /\ job[t] = "none"
      /\ pending[t] = <<>> /\ NotThere /\ Settled /\ View(t)
  BY <1>0, ViewOfThread DEF AddPlayer, AddPlayerToGrid, SyncPid, PartAt
<1>2. UNCHANGED <<conn, pos, cur, pending, info, snap>>
  BY DEF AddPlayer, AddPlayerToGrid, SyncPid, world, locals, network
<1>3. \A p \in Pids : client'[p].view = client[p].view
  <2>1. CASE client' = client
    BY <2>1
  <2>2. CASE SyncPid(t)
    BY <1>0, <2>2 DEF SyncPid, TypeOK, Clients
  <2> QED
    BY <2>1, <2>2 DEF AddPlayer, AddPlayerToGrid, network
<1>4. NotThere' /\ Settled'
  BY <1>1, <1>2, <1>3, ScreensLeftAlone
<1>5. CASE AddPlayer(t) \/ AddPlayerToGrid(t)
  <2>1. pc'[t] \in {"AddPlayerToGrid", "SyncPid"} /\ job'[t] = "none"
    BY <1>0, <1>1, <1>5 DEF AddPlayer, AddPlayerToGrid, TypeOK, Goto
  <2>2. View(t)'
    BY <1>0, <1>1, <1>2, <1>3, <2>1
    DEF View, Exact, NoInfo, Arrived, Entering, Syncing, Playing, Closing, Online
  <2> QED
    BY <1>1, <1>2, <1>4, <2>1, <2>2, ViewOfThread
<1>6. CASE SyncPid(t)
  <2>1. pc'[t] = "lock" /\ job'[t] = "sync"
    BY <1>0, <1>6 DEF SyncPid, TypeOK, Begin, Goto
  <2>2. info[t] = NoSight
    BY <1>1 DEF View, NoInfo
  <2>3. /\ client[cur[t]].view = NoSight
        /\ \A p \in Pids : Online(p) => client[p].view[cur[t]] = NoPos
    BY <1>1 DEF View, Entering
  <2>4. Syncing(t)'
    BY <1>0, <1>2, <1>3, <2>1, <2>2, <2>3 DEF Syncing, Online, NoSight
  <2>5. View(t)'
    BY <2>1, <2>4
    DEF View, Exact, NoInfo, Arrived, Entering, Playing, Closing
  <2> QED
    BY <1>1, <1>2, <1>4, <2>1, <2>5, ViewOfThread
<1> QED
  BY <1>5, <1>6

-----------------------------------------------------------------------------
(***************************************************************************)
(* Requests.                                                               *)
(***************************************************************************)

\* When a callback starts, everyone is on the screens as it should be.
LEMMA AllSettled ==
  ASSUME OneLoop, IndInv, ViewInv, NEW t \in IoThreads, pc[t] = "idle"
  PROVE  \A p, q \in Pids : Online(p) =>
           client[p].view[q] = IF Online(q) /\ Near(pos[p], q) THEN pos[q] ELSE NoPos
<1>1. cur[t] = 0
  BY DEF IndInv, Control, ServesOwn
<1>2. \A p \in Pids : ~Serving(p)
  BY <1>1, OneThread DEF Pids
<1> QED
  BY <1>2 DEF ViewInv, Settled

\* So a handler finds its player on the screens of those around it, and a
\* player whose connection went down is still there.
LEMMA ServeView ==
  ASSUME OneLoop, IndInv, ViewInv, NEW t \in IoThreads, NEW c \in Pids,
         \/ \E at \in Positions : RequestMove(t, c, at)
         \/ RequestChat(t, c) \/ Disconnect(t, c)
  PROVE  ViewInv'
<1>0. TypeOK
  BY DEF IndInv
<1>1. /\ pc[t] = "idle" /\ Online(c)
      /\ pending[t] = <<>> /\ NotThere /\ Settled /\ View(t)
      /\ job[t] = "none"
  BY ViewOfThread
  DEF RequestMove, RequestChat, Disconnect, Serve, Online, IndInv, Control, PartAt
<1>2. /\ UNCHANGED <<pos, client, pending, info>>
      /\ pc'[t] = "lookup" /\ cur'[t] = c
  BY <1>0 DEF RequestMove, RequestChat, Disconnect, Serve, Begin, Goto, TypeOK, network
<1>3. \A p, q \in Pids : Online(p) =>
        client[p].view[q] = IF Online(q) /\ Near(pos[p], q) THEN pos[q] ELSE NoPos
  BY <1>1, AllSettled
<1>4. info[t] = NoSight
  BY <1>1 DEF View, NoInfo
<1>5. \A p \in Pids : Serving(p)' <=> p = c
  BY <1>2 DEF Serving, OneLoop
<1>6. \A p \in Pids : Online(p) =>
        /\ pos[p] # NoPos /\ Near(pos[p], p)
        /\ Near(pos[p], c) <=> Near(pos[c], p)
  BY <1>1, OneThread, Sighted
<1>7. CASE Disconnect(t, c)
  <2>1. job'[t] = "close" /\ conn' = [conn EXCEPT ![c] = "down"]
    BY <1>0, <1>7 DEF Disconnect, Serve, Begin, TypeOK
  <2>2. \A p \in Pids : /\ Online(p)' <=> Online(p) /\ p # c
                        /\ Near(pos[c], p)' <=> Near(pos[c], p)
    BY <1>0, <1>2, <2>1 DEF Online, Near, TypeOK
  <2>3. NotThere'
    BY <1>0, <1>1, <1>2, <2>1 DEF NotThere, TypeOK
  <2>4. Settled'
    BY <1>2, <1>3, <1>5, <2>2 DEF Settled, Near
  <2>5. Closing(t)'
    BY <1>1, <1>2, <1>3, <1>6, <2>1, <2>2 DEF Closing, Near
  <2>6. View(t)'
    BY <1>2, <1>4, <2>1, <2>5 DEF View, Exact, NoInfo, Arrived, Entering, Syncing, Playing
  <2> QED
    BY <1>1, <1>2, <2>3, <2>4, <2>6, ViewOfThread
<1>8. CASE RequestChat(t, c) \/ \E at \in Positions : RequestMove(t, c, at)
  <2>1. job'[t] \in {"move", "chat"} /\ conn' = conn
    BY <1>0, <1>8 DEF RequestChat, RequestMove, Serve, Begin, TypeOK
  <2>2. NotThere' /\ Settled'
    BY <1>1, <1>2, <1>3, <2>1 DEF NotThere, Settled, Online, Near
  <2>3. Playing(t)'
    BY <1>1, <1>2, <1>3, <1>6, <2>1 DEF Playing, Mutual, UpToDate, Online, Near
  <2>4. View(t)'
    BY <1>2, <1>4, <2>1, <2>3 DEF View, Exact, NoInfo, Arrived, Entering, Syncing, Closing
  <2> QED
    BY <1>1, <1>2, <2>2, <2>4, ViewOfThread
<1> QED
  BY <1>7, <1>8

\* A handler that has found its player has told nobody anything yet.
LEMMA LookupView ==
  ASSUME OneLoop, IndInv, ViewInv, NEW t \in IoThreads, GetPlayerByPid(t)
  PROVE  ViewInv'
<1>0. TypeOK /\ job[t] \in Kinds
  BY DEF IndInv, Control, PartAt, GetPlayerByPid
<1>1. /\ pc[t] = "lookup" /\ pc'[t] = IF job[t] = "move" THEN "write" ELSE "lock"
      /\ UNCHANGED <<conn, pos, cur, job, client, pending, info, from, to>>
  BY <1>0 DEF GetPlayerByPid, Goto, TypeOK, world, locals, network
<1>2. pending[t] = <<>> /\ NotThere /\ Settled /\ View(t)
  BY ViewOfThread
<1>3. NotThere' /\ Settled'
  BY <1>1, <1>2, ScreensLeftAlone
<1>4. Playing(t)'
  BY <1>1, <1>2 DEF View, Playing, Mutual, UpToDate, Online, Near
<1>5. Closing(t)'
  BY <1>1, <1>2 DEF View, Closing, Online, Near
<1>6. View(t)'
  BY <1>0, <1>1, <1>2, <1>4, <1>5
  DEF View, Exact, NoInfo, Arrived, Entering, Syncing, Kinds
<1> QED
  BY <1>1, <1>2, <1>3, <1>6, ViewOfThread

-----------------------------------------------------------------------------
(***************************************************************************)
(* Player::UpdatePos.                                                      *)
(***************************************************************************)

\* The step that assigns pos_ changes nobody's screen: a player that stays in
\* its grid keeps its neighbourhood, and one that leaves it is still seen by
\* those around its old position.
LEMMA UpdatePosView ==
  ASSUME OneLoop, IndInv, ViewInv, NEW t \in IoThreads, UpdatePos(t)
  PROVE  ViewInv'
<1> DEFINE c == cur[t]
           crossed == GetGridByPosition(pos[c]) # GetGridByPosition(to[t])
<1>0. TypeOK /\ c \in Pids /\ c < global_player_id /\ job[t] = "move" /\ pc[t] = "write"
  BY ServedPlayer DEF IndInv, Control, PartAt, UpdatePos
<1>1. pending[t] = <<>> /\ NotThere /\ Settled /\ View(t)
  BY ViewOfThread
<1>2. /\ UNCHANGED <<conn, cur, job, client, pending, info, to>>
      /\ from'[t] = pos[c] /\ pos'[c] = to[t]
      /\ pc'[t] = IF crossed THEN "leaveGrid" ELSE "lock"
      /\ \A p \in Pids \ {c} : pos'[p] = pos[p]
  BY <1>0 DEF UpdatePos, Goto, TypeOK, network
<1>3. NotThere'
  BY <1>1, <1>2 DEF NotThere
<1>4. Settled'
  <2>1. \A p \in Pids : Serving(p)' <=> Serving(p)
    BY <1>2 DEF Serving
  <2>2. \A p \in Pids : ~Serving(p) => p # c
    BY DEF Serving
  <2> QED
    BY <1>1, <1>2, <2>1, <2>2 DEF Settled, Online, Near
<1>5. /\ \A p \in Pids \ {c} :
           client[c].view[p] = IF Online(p) /\ Near(pos[c], p) THEN pos[p] ELSE NoPos
      /\ \A p \in Pids : Online(p) =>
           (client[p].view[c] # NoPos <=> (p = c \/ Near(pos[c], p)))
  BY <1>0, <1>1 DEF View, Playing, Mutual
<1>6. \A p \in Pids \ {c} : Mutual(t, p)' <=> Near(pos[c], p)
  <2>1. CASE crossed
    BY <1>0, <1>2, <2>1 DEF Mutual, Near
  <2>2. CASE ~crossed
    <3>1. GetSudokuByPosition(to[t]) = GetSudokuByPosition(pos[c])
      BY <2>2, SudokuOfGrid
    <3> QED
      BY <1>0, <1>2, <2>2, <3>1 DEF Mutual, Near
  <2> QED
    BY <2>1, <2>2
<1>7. Playing(t)'
  BY <1>0, <1>2, <1>5, <1>6 DEF Playing, UpToDate, Online
<1>8. View(t)'
  BY <1>0, <1>1, <1>2, <1>7
  DEF View, Exact, NoInfo, Arrived, Entering, Syncing, Closing
<1> QED
  BY <1>1, <1>2, <1>3, <1>4, <1>8, ViewOfThread

\* Nor do the two steps that change the grid.
LEMMA CrossView ==
  ASSUME OneLoop, IndInv, ViewInv, NEW t \in IoThreads, LeaveGrid(t) \/ EnterGrid(t)
  PROVE  ViewInv'
<1>0. /\ TypeOK /\ cur[t] \in Pids
      /\ job[t] = "move" /\ pc[t] \in {"leaveGrid", "enterGrid"}
      /\ to[t] = pos[cur[t]]
  BY ServedPlayer DEF IndInv, Control, PartAt, Travel, LeaveGrid, EnterGrid
<1>1. pending[t] = <<>> /\ NotThere /\ Settled /\ View(t)
  BY ViewOfThread
<1>2. /\ UNCHANGED <<conn, pos, cur, client, pending, info, from, to>>
      /\ \/ pc'[t] = "enterGrid" /\ job'[t] = "move"
         \/ pc'[t] = "lock" /\ job'[t] = "vanish"
  BY <1>0 DEF LeaveGrid, EnterGrid, Begin, Goto, TypeOK, locals, network
<1>3. NotThere' /\ Settled'
  BY <1>1, <1>2, ScreensLeftAlone
<1>4. \A p \in Pids : Mutual(t, p)' <=> Mutual(t, p)
  BY <1>0, <1>2 DEF Mutual, Near
<1>5. Playing(t)'
  BY <1>0, <1>1, <1>2, <1>4 DEF View, Playing, UpToDate, Online
<1>6. View(t)'
  BY <1>0, <1>1, <1>2, <1>5
  DEF View, Exact, NoInfo, Arrived, Entering, Syncing, Closing
<1> QED
  BY <1>1, <1>2, <1>3, <1>6, ViewOfThread

-----------------------------------------------------------------------------
(***************************************************************************)
(* Snapshots.                                                              *)
(***************************************************************************)

\* A snapshot starts empty, with all its grids still to be read.
LEMMA LockView ==
  ASSUME OneLoop, IndInv, ViewInv, NEW t \in IoThreads, LockShared(t)
  PROVE  ViewInv'
<1>0. TypeOK /\ cur[t] \in Pids /\ pc[t] = "lock" /\ snap[t] = {} /\ job[t] # "chat"
  BY ServedPlayer DEF IndInv, Snapshots, Snapshot, LockShared
<1>1. pending[t] = <<>> /\ NotThere /\ Settled /\ View(t)
  BY ViewOfThread
<1>2. /\ UNCHANGED <<grid, conn, pos, cur, job, client, pending, info, from, to, snap>>
      /\ pc'[t] = "read" /\ toRead'[t] = GridsToRead(t)
  BY <1>0 DEF LockShared, Goto, TypeOK, world, network
<1>3. NotThere' /\ Settled'
  BY <1>1, <1>2, ScreensLeftAlone
<1>4. Exact(t)'
  BY <1>0, <1>2 DEF Exact, GridsToRead
<1>5. \A p \in Pids : Mutual(t, p)' <=> Mutual(t, p)
  BY <1>0, <1>2 DEF Mutual, Near
<1>6. Playing(t)'
  BY <1>0, <1>1, <1>2, <1>5 DEF View, Playing, UpToDate, Online
<1>7. Syncing(t)'
  BY <1>0, <1>1, <1>2 DEF View, Syncing, Online
<1>8. Closing(t)'
  BY <1>0, <1>1, <1>2 DEF View, Closing, Online, Near
<1>9. View(t)'
  BY <1>0, <1>1, <1>2, <1>4, <1>6, <1>7, <1>8
  DEF View, NoInfo, Arrived, Entering
<1> QED
  BY <1>1, <1>2, <1>3, <1>9, ViewOfThread

\* It holds the players of the grids that have been read.
LEMMA ReadView ==
  ASSUME OneLoop, IndInv, ViewInv, NEW t \in IoThreads, ReadGrid(t)
  PROVE  ViewInv'
<1>0. TypeOK /\ pc[t] = "read" /\ job[t] # "chat" /\ pc' = pc
  BY DEF IndInv, Control, PartAt, ReadGrid
<1>1. pending[t] = <<>> /\ NotThere /\ Settled /\ View(t)
  BY ViewOfThread
<1>2. UNCHANGED <<grid, conn, pos, cur, job, client, pending, info, from, to>>
  BY DEF ReadGrid, world, network
<1>3. PICK g \in toRead[t] : /\ snap'[t] = snap[t] \cup grid[g]
                             /\ toRead'[t] = toRead[t] \ {g}
  BY <1>0 DEF ReadGrid, TypeOK
<1>4. NotThere' /\ Settled'
  BY <1>1, <1>2, ScreensLeftAlone
<1>5. GridsToRead(t)' = GridsToRead(t)
  BY <1>2 DEF GridsToRead
<1>6. Exact(t)'
  <2>1. /\ toRead[t] \subseteq GridsToRead(t)
        /\ snap[t] = {q \in Pids : \E h \in GridsToRead(t) \ toRead[t] : q \in grid[h]}
    BY <1>0, <1>1 DEF View, Exact
  <2>2. grid[g] \subseteq Pids
    BY <1>0 DEF TypeOK
  <2>3. snap'[t] = {q \in Pids : \E h \in GridsToRead(t) \ toRead'[t] : q \in grid[h]}
    BY <1>3, <2>1, <2>2
  <2> QED
    BY <1>0, <1>2, <1>3, <1>5, <2>1, <2>3 DEF Exact
<1>7. \A p \in Pids : Mutual(t, p)' <=> Mutual(t, p)
  BY <1>0, <1>2 DEF Mutual, Near
<1>8. Playing(t)'
  BY <1>0, <1>1, <1>2, <1>7 DEF View, Playing, UpToDate, Online
<1>9. Syncing(t)'
  BY <1>0, <1>1, <1>2 DEF View, Syncing, Online
<1>10. Closing(t)'
  BY <1>0, <1>1, <1>2 DEF View, Closing, Online, Near
<1>11. View(t)'
  BY <1>0, <1>1, <1>2, <1>6, <1>8, <1>9, <1>10
  DEF View, NoInfo, Arrived, Entering
<1> QED
  BY <1>0, <1>1, <1>2, <1>4, <1>11, ViewOfThread

\* When it is complete nobody around is missing, so those the loop has still
\* to come to are all those it has to tell something.
LEMMA UnlockView ==
  ASSUME OneLoop, IndInv, ViewInv, NEW t \in IoThreads, UnlockShared(t)
  PROVE  ViewInv'
<1> DEFINE c == cur[t]
<1>0. /\ TypeOK /\ c \in Pids /\ c < global_player_id /\ pc[t] = "read"
      /\ toRead[t] = {} /\ job[t] \in {"sync", "vanish", "emerge", "move", "close"}
  BY ServedPlayer DEF IndInv, Control, PartAt, UnlockShared, TypeOK, Jobs, Kinds
<1>1. pending[t] = <<>> /\ NotThere /\ Settled /\ View(t)
  BY ViewOfThread
<1>2. /\ UNCHANGED <<grid, conn, pos, cur, job, client, pending, info, from, to, snap>>
      /\ pc'[t] = "send"
  BY <1>0 DEF UnlockShared, Goto, TypeOK, world, locals, network
<1>3. NotThere' /\ Settled'
  BY <1>1, <1>2, ScreensLeftAlone
<1>4. snap[t] = Around(t) /\ Around(t)' = Around(t)
  BY <1>0, <1>1, <1>2 DEF View, Exact, Around, GridsToRead
<1>5. Exact(t)'
  BY <1>2, <1>4 DEF Exact
<1>6. job[t] \in {"sync", "move", "close"} =>
        \A q \in Pids : q \in snap[t] <=> (Online(q) \/ q = c) /\ Near(pos[c], q)
  BY <1>0, <1>4, AroundPlayer
<1>7. Syncing(t)'
  BY <1>0, <1>1, <1>2, <1>6 DEF View, Syncing, Online, Near
<1>8. Closing(t)'
  BY <1>0, <1>1, <1>2, <1>6 DEF View, Closing, Online, Near
<1>9. Playing(t)'
  <2>1. \A p \in Pids : Online(p) => (Mutual(t, p)' <=> Mutual(t, p))
    <3>1. CASE job[t] \in {"vanish", "emerge"}
      BY <1>0, <1>2, <1>4, <3>1, AroundCrossing DEF Mutual, Near
    <3>2. CASE job[t] \notin {"vanish", "emerge"}
      BY <1>0, <1>2, <3>2 DEF Mutual, Near
    <3> QED
      BY <3>1, <3>2
  <2>2. job[t] = "move" =>
          \A p \in Pids : Online(p) /\ p \notin snap[t] => ~Mutual(t, p) /\ p # c
    BY <1>0, <1>6, Sighted DEF Mutual
  <2> QED
    BY <1>0, <1>1, <1>2, <2>1, <2>2 DEF View, Playing, UpToDate, Online
<1>10. View(t)'
  BY <1>0, <1>1, <1>2, <1>5, <1>7, <1>8, <1>9
  DEF View, NoInfo, Arrived, Entering
<1> QED
  BY <1>1, <1>2, <1>3, <1>10, ViewOfThread

\* WorldChat changes nobody's screen.
LEMMA AllPlayersView ==
  ASSUME OneLoop, IndInv, ViewInv, NEW t \in IoThreads, GetAllPlayers(t)
  PROVE  ViewInv'
<1>0. TypeOK /\ cur[t] \in Pids /\ pc[t] = "lock" /\ job[t] = "chat"
  BY ServedPlayer DEF IndInv, GetAllPlayers
<1>1. pending[t] = <<>> /\ NotThere /\ Settled /\ View(t)
  BY ViewOfThread
<1>2. /\ UNCHANGED <<conn, pos, cur, job, client, pending, info, from, to>>
      /\ pc'[t] = "send"
  BY <1>0 DEF GetAllPlayers, Goto, TypeOK, world, network
<1>3. NotThere' /\ Settled'
  BY <1>1, <1>2, ScreensLeftAlone
<1>4. Playing(t)'
  BY <1>0, <1>1, <1>2 DEF View, Playing, Mutual, UpToDate, Online, Near
<1>5. View(t)'
  BY <1>0, <1>1, <1>2, <1>4
  DEF View, Exact, NoInfo, Arrived, Entering, Syncing, Closing
<1> QED
  BY <1>1, <1>2, <1>3, <1>5, ViewOfThread

-----------------------------------------------------------------------------
(***************************************************************************)
(* The loops over a snapshot.                                              *)
(***************************************************************************)

\* What every iteration leaves alone.
LEMMA Iteration ==
  ASSUME OneLoop, IndInv, NEW t \in IoThreads, NEW j, NEW q \in snap[t], Sending(t, j, q)
  PROVE  /\ TypeOK /\ pc[t] = "send" /\ job[t] = j
         /\ cur[t] \in Pids /\ cur[t] < global_player_id
         /\ pos[cur[t]] \in Coordinates
         /\ j # "close" => Online(cur[t])
         /\ UNCHANGED <<grid, conn, pos, cur, pc, job, from, to>>
         /\ snap'[t] = snap[t] \ {q}
         /\ Around(t)' = Around(t)
<1>1. TypeOK /\ pc[t] = "send" /\ job[t] = j
  BY DEF IndInv, Sending
<1>2. /\ cur[t] \in Pids /\ cur[t] < global_player_id
      /\ pos[cur[t]] \in Coordinates
  BY <1>1, ServedPlayer
<1>3. j # "close" => Online(cur[t])
  BY <1>1, <1>2 DEF IndInv, Control, ServesOwn, Online, Pids
<1>4. UNCHANGED <<grid, conn, pos, cur, pc, job, from, to>> /\ snap'[t] = snap[t] \ {q}
  BY <1>1 DEF Sending, TypeOK, world
<1>5. Around(t)' = Around(t)
  BY <1>4 DEF Around, GridsToRead
<1> QED
  BY <1>1, <1>2, <1>3, <1>4, <1>5

\* Those whom a thread does not work for see each other as before when only
\* what is shown of the player, or to the player, it works for changes.
LEMMA OthersSettled ==
  ASSUME NotThere, Settled, NEW t \in IoThreads, UNCHANGED <<conn, pos, cur>>,
         client' \in [Pids -> Clients],
         \A p, r \in Pids : client'[p].view[r] = client[p].view[r]
            \/ (Online(p) /\ (p = cur[t] \/ r = cur[t]))
  PROVE  NotThere' /\ Settled'
<1>1. \A p \in Pids : Serving(p)' <=> Serving(p)
  BY DEF Serving
<1>2. \A p \in Pids : ~Serving(p) => p # cur[t]
  BY DEF Serving
<1>3. Settled'
  BY <1>1, <1>2 DEF Settled, Online, Near
<1>4. ASSUME NEW p \in Pids, conn[p] = "none"
      PROVE  client'[p].view = NoSight
  <2>1. \A r \in Pids : client'[p].view[r] = NoPos
    BY <1>4 DEF NotThere, Online, NoSight
  <2>2. client'[p].view \in [Pids -> Coordinates \cup {NoPos}]
    BY DEF Clients, Sights
  <2> QED
    BY <2>1, <2>2 DEF NoSight
<1> QED
  BY <1>3, <1>4 DEF NotThere

\* SyncWithSurrounding: q now sees the new player, and is noted.
LEMMA SyncView ==
  ASSUME OneLoop, IndInv, ViewInv, NEW t \in IoThreads, NEW q \in snap[t], SendSync(t, q)
  PROVE  ViewInv'
<1> DEFINE c == cur[t]
<1>0. /\ TypeOK /\ pc[t] = "send" /\ job[t] = "sync"
      /\ c \in Pids /\ pos[c] \in Coordinates /\ Online(c)
      /\ UNCHANGED <<grid, conn, pos, cur, pc, job, from, to>>
      /\ snap'[t] = snap[t] \ {q} /\ Around(t)' = Around(t)
  BY Iteration DEF SendSync
<1>1. pending[t] = <<>> /\ NotThere /\ Settled /\ View(t)
  BY ViewOfThread
<1>2. /\ q \in Pids
      /\ client' = SendInLoop(client, q, Pos(c, pos[c])) /\ pending' = pending
  BY SentAtOnce DEF SendSync, SendPacket
<1>3. info'[t] = [info[t] EXCEPT ![q] = pos[q]] /\ info[t] \in Sights
  <2>1. PositionsRead(q) = {pos[q]}
    BY <1>0, OneThread DEF PositionsRead
  <2> QED
    BY <1>0, <2>1 DEF SendSync, TypeOK
<1>4. q \in Around(t) /\ Online(q) /\ Near(pos[c], q)
  <2>1. q \in Around(t)
    BY <1>0, <1>1 DEF View, Exact
  <2> QED
    BY <1>0, <1>2, <2>1, AroundPlayer
<1>5. \A p, r \in Pids : client'[p].view[r] =
        IF p = q /\ r = c THEN pos[c] ELSE client[p].view[r]
  <2>1. client \in [Pids -> Clients] /\ c \in Pids /\ pos[c] \in Coordinates
    BY <1>0 DEF TypeOK
  <2>2. \A p, r \in Pids : SendInLoop(client, q, Pos(c, pos[c]))[p].view[r] =
          IF Online(q) /\ p = q /\ r = c THEN pos[c] ELSE client[p].view[r]
    BY <1>2, <2>1, PosShown, SMTT(30)
  <2> QED
    BY <1>2, <1>4, <2>2
<1>6. NotThere' /\ Settled'
  <2>1. client' \in [Pids -> Clients]
    BY <1>0, <1>2, SendInLoopType, PacketType DEF TypeOK
  <2> QED
    BY <1>0, <1>1, <1>4, <1>5, <2>1, OthersSettled
<1>7. Exact(t)'
  BY <1>0, <1>1 DEF View, Exact
<1>8. Syncing(t)'
  BY <1>0, <1>1, <1>2, <1>3, <1>4, <1>5 DEF View, Syncing, Online, Near, Sights
<1>9. View(t)'
  BY <1>0, <1>7, <1>8
  DEF View, NoInfo, Arrived, Entering, Playing, Closing
<1> QED
  BY <1>0, <1>1, <1>2, <1>6, <1>9, ViewOfThread

\* HandleCrossedGrid, the grids that went out of sight: q and the player are
\* taken off each other's screens.
LEMMA VanishView ==
  ASSUME OneLoop, IndInv, ViewInv, NEW t \in IoThreads, NEW q \in snap[t], SendVanish(t, q)
  PROVE  ViewInv'
<1> DEFINE c == cur[t]
           written == SendInLoop(client, q, Leave(c))
<1>0. /\ TypeOK /\ pc[t] = "send" /\ job[t] = "vanish"
      /\ c \in Pids /\ c < global_player_id /\ Online(c)
      /\ UNCHANGED <<grid, conn, pos, cur, pc, job, from, to>>
      /\ snap'[t] = snap[t] \ {q} /\ Around(t)' = Around(t)
  BY Iteration DEF SendVanish
<1>1. pending[t] = <<>> /\ NotThere /\ Settled /\ View(t)
  BY ViewOfThread
<1>2. /\ q \in Pids /\ info' = info /\ pending' = pending
      /\ client' = SendInLoop(written, c, Leave(q))
  BY SentAtOnce DEF SendVanish, SendBoth
<1>3. q \in Around(t) /\ Online(q) /\ Near(from[t], q) /\ ~Near(to[t], q)
  <2>1. q \in Around(t)
    BY <1>0, <1>1 DEF View, Exact
  <2> QED
    BY <1>0, <1>2, <2>1, AroundCrossing
<1>4. q # c
  <2>1. to[t] = pos[c]
    BY <1>0, <1>1 DEF View, Arrived
  <2> QED
    BY <1>0, <1>3, <2>1, Sighted
<1>5. client \in [Pids -> Clients] /\ written \in [Pids -> Clients]
  BY <1>0, <1>2, SendInLoopType, PacketType DEF TypeOK
<1>6. \A p, r \in Pids : client'[p].view[r] =
        IF (p = q /\ r = c) \/ (p = c /\ r = q) THEN NoPos ELSE client[p].view[r]
  <2>1. \A p, r \in Pids : written[p].view[r] =
          IF Online(q) /\ p = q /\ r = c THEN NoPos ELSE client[p].view[r]
    BY <1>0, <1>2, <1>5, LeaveShown
  <2>2. \A p, r \in Pids : client'[p].view[r] =
          IF Online(c) /\ p = c /\ r = q THEN NoPos ELSE written[p].view[r]
    <3> HIDE DEF written
    <3> QED
      BY <1>0, <1>2, <1>5, LeaveShown, SMTT(30)
  <2> QED
    BY <1>0, <1>3, <1>4, <2>1, <2>2
<1>7. NotThere' /\ Settled'
  <2>1. client' \in [Pids -> Clients]
    <3> HIDE DEF written
    <3> QED
      BY <1>0, <1>2, <1>5, SendInLoopType, PacketType
  <2> QED
    BY <1>0, <1>1, <1>3, <1>6, <2>1, OthersSettled
<1>8. Exact(t)'
  BY <1>0, <1>1 DEF View, Exact
<1>9. \A p \in Pids : Mutual(t, p)' <=> Mutual(t, p) /\ p # q
  BY <1>0, <1>3 DEF Mutual, Near
<1>10. Playing(t)'
  BY <1>0, <1>1, <1>2, <1>3, <1>4, <1>6, <1>9 DEF View, Playing, UpToDate, Online
<1>11. View(t)'
  BY <1>0, <1>1, <1>2, <1>8, <1>10
  DEF View, NoInfo, Arrived, Entering, Syncing, Closing
<1> QED
  BY <1>0, <1>1, <1>2, <1>7, <1>11, ViewOfThread

\* HandleCrossedGrid, the grids that came into sight: q and the player are put
\* on each other's screens.
LEMMA EmergeView ==
  ASSUME OneLoop, IndInv, ViewInv, NEW t \in IoThreads, NEW q \in snap[t], SendEmerge(t, q)
  PROVE  ViewInv'
<1> DEFINE c == cur[t]
           written == SendInLoop(client, q, Pos(c, pos[c]))
<1>0. /\ TypeOK /\ pc[t] = "send" /\ job[t] = "emerge"
      /\ c \in Pids /\ c < global_player_id /\ pos[c] \in Coordinates /\ Online(c)
      /\ UNCHANGED <<grid, conn, pos, cur, pc, job, from, to>>
      /\ snap'[t] = snap[t] \ {q} /\ Around(t)' = Around(t)
  BY Iteration DEF SendEmerge
<1>1. pending[t] = <<>> /\ NotThere /\ Settled /\ View(t)
  BY ViewOfThread
<1>2. /\ q \in Pids /\ q < global_player_id /\ info' = info /\ pending' = pending
      /\ client' = SendInLoop(written, c, Pos(q, pos[q]))
  <2>1. PositionsRead(q) = {pos[q]}
    BY <1>0, OneThread DEF PositionsRead
  <2> QED
    BY <2>1, SentAtOnce DEF SendEmerge, SendBoth
<1>3. q \in Around(t) /\ Online(q) /\ Near(to[t], q) /\ ~Near(from[t], q)
  <2>1. q \in Around(t)
    BY <1>0, <1>1 DEF View, Exact
  <2> QED
    BY <1>0, <1>2, <2>1, AroundCrossing
<1>4. pos[q] \in Coordinates /\ pos[q] # NoPos /\ pos[c] # NoPos
  BY <1>0, <1>2, Sighted
<1>5. client \in [Pids -> Clients] /\ written \in [Pids -> Clients]
  BY <1>0, <1>2, SendInLoopType, PacketType DEF TypeOK
<1>6. \A p, r \in Pids : client'[p].view[r] =
        IF p = c /\ r = q THEN pos[q]
        ELSE IF p = q /\ r = c THEN pos[c] ELSE client[p].view[r]
  <2>1. \A p, r \in Pids : written[p].view[r] =
          IF Online(q) /\ p = q /\ r = c THEN pos[c] ELSE client[p].view[r]
    BY <1>0, <1>2, <1>5, PosShown
  <2>2. \A p, r \in Pids : client'[p].view[r] =
          IF Online(c) /\ p = c /\ r = q THEN pos[q] ELSE written[p].view[r]
    <3> HIDE DEF written
    <3> QED
      BY <1>0, <1>2, <1>4, <1>5, PosShown
  <2> QED
    BY <1>0, <1>3, <2>1, <2>2
<1>7. NotThere' /\ Settled'
  <2>1. client' \in [Pids -> Clients]
    <3> HIDE DEF written
    <3> QED
      BY <1>0, <1>2, <1>4, <1>5, SendInLoopType, PacketType
  <2> QED
    BY <1>0, <1>1, <1>3, <1>6, <2>1, OthersSettled
<1>8. Exact(t)'
  BY <1>0, <1>1 DEF View, Exact
<1>9. \A p \in Pids : Mutual(t, p)' <=> Mutual(t, p) \/ p = q
  BY <1>0, <1>3 DEF Mutual, Near
<1>10. Playing(t)'
  BY <1>0, <1>1, <1>2, <1>3, <1>4, <1>6, <1>9 DEF View, Playing, UpToDate, Online
<1>11. View(t)'
  BY <1>0, <1>1, <1>2, <1>8, <1>10
  DEF View, NoInfo, Arrived, Entering, Syncing, Closing
<1> QED
  BY <1>0, <1>1, <1>2, <1>7, <1>11, ViewOfThread

\* The last part of UpdatePos: q, which sees the player, sees it where it is.
LEMMA MoveView ==
  ASSUME OneLoop, IndInv, ViewInv, NEW t \in IoThreads, NEW q \in snap[t], SendMove(t, q)
  PROVE  ViewInv'
<1> DEFINE c == cur[t]
<1>0. /\ TypeOK /\ pc[t] = "send" /\ job[t] = "move"
      /\ c \in Pids /\ c < global_player_id /\ pos[c] \in Coordinates /\ Online(c)
      /\ UNCHANGED <<grid, conn, pos, cur, pc, job, from, to>>
      /\ snap'[t] = snap[t] \ {q} /\ Around(t)' = Around(t)
  BY Iteration DEF SendMove
<1>1. pending[t] = <<>> /\ NotThere /\ Settled /\ View(t)
  BY ViewOfThread
<1>2. /\ q \in Pids /\ info' = info /\ pending' = pending
      /\ client' = SendInLoop(client, q, Move(c, pos[c]))
  BY SentAtOnce DEF SendMove, SendPacket
<1>3. q \in Around(t) /\ Online(q) /\ Near(pos[c], q)
  <2>1. q \in Around(t)
    BY <1>0, <1>1 DEF View, Exact
  <2> QED
    BY <1>0, <1>2, <2>1, AroundPlayer
<1>4. client \in [Pids -> Clients]
  BY <1>0 DEF TypeOK
<1>5. \A p, r \in Pids : client'[p].view[r] =
        IF p = q /\ r = c /\ client[p].view[r] # NoPos THEN pos[c] ELSE client[p].view[r]
  <2>1. \A p, r \in Pids : SendInLoop(client, q, Move(c, pos[c]))[p].view[r] =
          IF Online(q) /\ p = q /\ r = c /\ client[p].view[r] # NoPos
          THEN pos[c] ELSE client[p].view[r]
    BY <1>0, <1>2, <1>4, MoveShown, SMTT(30)
  <2> QED
    BY <1>2, <1>3, <2>1
<1>6. NotThere' /\ Settled'
  <2>1. client' \in [Pids -> Clients]
    BY <1>0, <1>2, <1>4, SendInLoopType, PacketType
  <2> QED
    BY <1>0, <1>1, <1>3, <1>5, <2>1, OthersSettled
<1>7. Exact(t)'
  BY <1>0, <1>1 DEF View, Exact
<1>8. \A p \in Pids : Mutual(t, p)' <=> Mutual(t, p)
  BY <1>0 DEF Mutual, Near
<1>9. pos[c] # NoPos
  BY <1>0
<1>10. Playing(t)'
  BY <1>0, <1>1, <1>2, <1>3, <1>5, <1>8, <1>9 DEF View, Playing, UpToDate, Online
<1>11. View(t)'
  BY <1>0, <1>1, <1>2, <1>7, <1>10
  DEF View, NoInfo, Arrived, Entering, Syncing, Closing
<1> QED
  BY <1>0, <1>1, <1>2, <1>6, <1>11, ViewOfThread

\* WorldChat changes nobody's screen.
LEMMA TalkView ==
  ASSUME OneLoop, IndInv, ViewInv, NEW t \in IoThreads, NEW q \in snap[t], SendTalk(t, q)
  PROVE  ViewInv'
<1> DEFINE c == cur[t]
<1>0. /\ TypeOK /\ pc[t] = "send" /\ job[t] = "chat"
      /\ c \in Pids /\ pos[c] \in Coordinates
      /\ UNCHANGED <<conn, pos, cur, pc, job, from, to>>
  BY Iteration DEF SendTalk
<1>1. pending[t] = <<>> /\ NotThere /\ Settled /\ View(t)
  BY ViewOfThread
<1>2. /\ q \in Pids /\ info' = info /\ pending' = pending
      /\ client' = SendInLoop(client, q, Talk(c))
  BY SentAtOnce DEF SendTalk, SendPacket
<1>3. client \in [Pids -> Clients]
  BY <1>0 DEF TypeOK
<1>4. \A p, r \in Pids : client'[p].view[r] = client[p].view[r]
  BY <1>0, <1>2, <1>3, TalkShown
<1>5. NotThere' /\ Settled'
  <2>1. client' \in [Pids -> Clients]
    BY <1>0, <1>2, <1>3, SendInLoopType, PacketType
  <2> QED
    BY <1>0, <1>1, <1>4, <2>1, OthersSettled
<1>6. Playing(t)'
  BY <1>0, <1>1, <1>2, <1>4 DEF View, Playing, Mutual, UpToDate, Online, Near
<1>7. View(t)'
  BY <1>0, <1>1, <1>2, <1>6
  DEF View, Exact, NoInfo, Arrived, Entering, Syncing, Closing
<1> QED
  BY <1>0, <1>1, <1>2, <1>5, <1>7, ViewOfThread

\* Disappear: the player is taken off the screen of q.
LEMMA LeaveView ==
  ASSUME OneLoop, IndInv, ViewInv, NEW t \in IoThreads, NEW q \in snap[t], SendLeave(t, q)
  PROVE  ViewInv'
<1> DEFINE c == cur[t]
<1>0. /\ TypeOK /\ pc[t] = "send" /\ job[t] = "close"
      /\ c \in Pids /\ pos[c] \in Coordinates
      /\ UNCHANGED <<grid, conn, pos, cur, pc, job, from, to>>
      /\ snap'[t] = snap[t] \ {q} /\ Around(t)' = Around(t)
  BY Iteration DEF SendLeave
<1>1. pending[t] = <<>> /\ NotThere /\ Settled /\ View(t)
  BY ViewOfThread
<1>2. /\ q \in Pids /\ info' = info /\ pending' = pending
      /\ client' = SendInLoop(client, q, Leave(c))
  BY SentAtOnce DEF SendLeave, SendPacket
<1>3. client \in [Pids -> Clients]
  BY <1>0 DEF TypeOK
<1>4. \A p, r \in Pids : client'[p].view[r] =
        IF Online(q) /\ p = q /\ r = c THEN NoPos ELSE client[p].view[r]
  BY <1>0, <1>2, <1>3, LeaveShown
<1>5. NotThere' /\ Settled'
  <2>1. client' \in [Pids -> Clients]
    BY <1>0, <1>2, <1>3, SendInLoopType, PacketType
  <2> QED
    BY <1>0, <1>1, <1>4, <2>1, OthersSettled
<1>6. Exact(t)'
  BY <1>0, <1>1 DEF View, Exact
<1>7. Closing(t)'
  BY <1>0, <1>1, <1>2, <1>4 DEF View, Closing, Online, Near
<1>8. View(t)'
  BY <1>0, <1>1, <1>2, <1>6, <1>7
  DEF View, NoInfo, Arrived, Entering, Syncing, Playing
<1> QED
  BY <1>0, <1>1, <1>2, <1>5, <1>8, ViewOfThread

-----------------------------------------------------------------------------
(***************************************************************************)
(* The ends of the callbacks.                                              *)
(***************************************************************************)

\* A callback may return once its player, too, is on the screens as it should
\* be.
LEMMA BackInLoop ==
  ASSUME OneLoop, TypeOK, ViewInv, NEW t \in IoThreads, Return(t),
         UNCHANGED <<conn, pos, pending>>, NotThere',
         \A p, q \in Pids : Online(p) =>
           client'[p].view[q] = IF Online(q) /\ Near(pos[p], q) THEN pos[q] ELSE NoPos
  PROVE  ViewInv'
<1>1. pending[t] = <<>>
  BY ViewOfThread
<1>2. pc'[t] = "idle" /\ job'[t] = "none" /\ info'[t] = NoSight
  BY DEF Return, Begin, Goto, TypeOK
<1>3. Settled'
  BY DEF Settled, Online, Near
<1>4. View(t)'
  BY <1>2
  DEF View, Exact, NoInfo, Arrived, Entering, Syncing, Playing, Closing
<1> QED
  BY <1>1, <1>2, <1>3, <1>4, ViewOfThread

\* A loop that is over has told everyone it had to.
LEMMA NextPartView ==
  ASSUME OneLoop, IndInv, ViewInv, NEW t \in IoThreads, NextPart(t)
  PROVE  ViewInv'
<1> DEFINE c == cur[t]
<1>0. /\ TypeOK /\ pc[t] = "send" /\ snap[t] = {}
      /\ c \in Pids /\ c < global_player_id
      /\ pos[c] # NoPos /\ Near(pos[c], c)
      /\ UNCHANGED <<conn, pos, client, pending>>
  BY ServedPlayer, Sighted DEF IndInv, NextPart, world, network
<1>1. pending[t] = <<>> /\ NotThere /\ Settled /\ View(t)
  BY ViewOfThread
<1>2. CASE job[t] \in {"move", "chat"}
  <2>1. Return(t) /\ Online(c)
    BY <1>0, <1>2 DEF NextPart, IndInv, Control, ServesOwn, Online, Pids
  <2>2. NotThere'
    BY <1>0, <1>1 DEF NotThere
  <2>3. ASSUME NEW p \in Pids, NEW q \in Pids, Online(p)
        PROVE  client[p].view[q] = IF Online(q) /\ Near(pos[p], q) THEN pos[q] ELSE NoPos
    <3>1. \A r \in Pids : Mutual(t, r) <=> Near(pos[c], r)
      BY <1>0, <1>2 DEF Mutual
    <3>2. CASE p # c /\ q # c
      BY <1>1, <2>3, <3>2, OneThread DEF Settled
    <3>3. CASE p = c /\ q # c
      BY <1>1, <1>2, <3>1, <3>3 DEF View, Playing
    <3>4. CASE q = c
      <4>1. UpToDate(t, p)
        BY <1>0, <1>2 DEF UpToDate
      <4>2. /\ client[p].view[c] # NoPos <=> (p = c \/ Near(pos[c], p))
            /\ client[p].view[c] \in {pos[c], NoPos}
        BY <1>1, <1>2, <2>3, <3>1, <4>1 DEF View, Playing
      <4>3. Near(pos[c], p) <=> Near(pos[p], c)
        BY <1>0, <2>3, OneThread, Sighted
      <4> QED
        BY <1>0, <2>1, <3>4, <4>2, <4>3
    <3> QED
      BY <3>2, <3>3, <3>4
  <2> QED
    BY <1>0, <2>1, <2>2, <2>3, BackInLoop
<1>3. CASE job[t] \in {"sync", "vanish", "emerge", "close"}
  <2>1. /\ UNCHANGED <<cur, info, from, to, snap>>
        /\ job[t] = "sync" => pc'[t] = "syncPlayers" /\ job'[t] = "sync"
        /\ job[t] = "vanish" => pc'[t] = "lock" /\ job'[t] = "emerge"
        /\ job[t] = "emerge" => pc'[t] = "lock" /\ job'[t] = "move"
        /\ job[t] = "close" => pc'[t] = "remove" /\ job'[t] = "close"
    BY <1>0, <1>3 DEF NextPart, Begin, Goto, TypeOK, locals
  <2>2. NotThere' /\ Settled'
    BY <1>0, <1>1, <2>1, ScreensLeftAlone
  <2>3. Syncing(t)'
    BY <1>0, <1>1, <1>3, <2>1 DEF View, Syncing, Online, Near
  <2>4. Playing(t)'
    <3>1. CASE job[t] \in {"vanish", "emerge"}
      <4>1. to[t] = pos[c]
        BY <1>1, <3>1 DEF View, Arrived
      <4>2. \A p \in Pids : Mutual(t, p)' <=> Mutual(t, p)
        BY <1>0, <2>1, <3>1, <4>1 DEF Mutual, Near
      <4> QED
        BY <1>0, <1>1, <2>1, <3>1, <4>2 DEF View, Playing, UpToDate, Online
    <3>2. CASE job[t] \notin {"vanish", "emerge"}
      BY <1>3, <2>1, <3>2 DEF Playing
    <3> QED
      BY <3>1, <3>2
  <2>5. Closing(t)'
    BY <1>0, <1>1, <1>3, <2>1 DEF View, Closing, Online, Near
  <2>6. View(t)'
    BY <1>0, <1>1, <1>3, <2>1, <2>3, <2>4, <2>5
    DEF View, Exact, NoInfo, Arrived, Entering
  <2> QED
    BY <1>0, <1>1, <1>3, <2>1, <2>2, <2>6, ViewOfThread
<1> QED
  BY <1>2, <1>3 DEF NextPart

\* SYNC_PLAYERS shows the new player everyone it was shown to.
LEMMA SyncPlayersView ==
  ASSUME OneLoop, IndInv, ViewInv, NEW t \in IoThreads, SendSyncPlayers(t)
  PROVE  ViewInv'
<1> DEFINE c == cur[t]
<1>0. /\ TypeOK /\ pc[t] = "syncPlayers" /\ job[t] = "sync"
      /\ c \in Pids /\ c < global_player_id
      /\ pos[c] # NoPos /\ Near(pos[c], c)
      /\ UNCHANGED <<conn, pos, pending>> /\ Return(t)
  BY ServedPlayer, Sighted
  DEF IndInv, Control, PartAt, SendSyncPlayers, world
<1>1. NotThere /\ Settled /\ View(t) /\ Online(c)
  BY <1>0, ViewOfThread DEF IndInv, Control, ServesOwn, Online, Pids
<1>2. /\ \A p \in Pids : Online(p) =>
           client[p].view[c] = IF Near(pos[c], p) THEN pos[c] ELSE NoPos
      /\ \A p \in Pids :
           info[t][p] = IF Online(p) /\ Near(pos[c], p) THEN pos[p] ELSE NoPos
      /\ \A p \in Pids \ {c} : client[c].view[p] = NoPos
  BY <1>0, <1>1 DEF View, Syncing
<1>3. /\ \A q \in Pids : client'[c].view[q] =
           IF info[t][q] = NoPos THEN client[c].view[q] ELSE info[t][q]
      /\ \A p \in Pids \ {c} : client'[p] = client[p]
  BY <1>0 DEF SendSyncPlayers, TypeOK, Clients
<1>4. NotThere'
  BY <1>0, <1>1, <1>3 DEF NotThere, Online
<1>5. ASSUME NEW p \in Pids, NEW q \in Pids, Online(p)
      PROVE  client'[p].view[q] = IF Online(q) /\ Near(pos[p], q) THEN pos[q] ELSE NoPos
  <2>1. CASE p # c /\ q # c
    BY <1>1, <1>3, <1>5, <2>1, OneThread DEF Settled
  <2>2. CASE p = c /\ q # c
    BY <1>2, <1>3, <2>2
  <2>3. CASE q = c
    <3>1. Near(pos[c], p) <=> Near(pos[p], c)
      BY <1>0, <1>5, OneThread, Sighted
    <3> QED
      BY <1>0, <1>1, <1>2, <1>3, <1>5, <2>3, <3>1
  <2> QED
    BY <2>1, <2>2, <2>3
<1> QED
  BY <1>0, <1>4, <1>5, BackInLoop

\* RemovePlayerByPid: by then the player is on nobody's screen.
LEMMA RemoveView ==
  ASSUME OneLoop, IndInv, ViewInv, NEW t \in IoThreads,
         RemovePlayerFromGrid(t) \/ ErasePlayer(t)
  PROVE  ViewInv'
<1> DEFINE c == cur[t]
<1>0. /\ TypeOK /\ pc[t] \in {"remove", "erase"} /\ job[t] = "close"
      /\ c \in Pids /\ conn[c] = "down"
      /\ UNCHANGED <<conn, pos, client, pending>>
  BY ServedPlayer
  DEF IndInv, Control, PartAt, ServesOwn, RemovePlayerFromGrid, ErasePlayer,
      network, Pids
<1>1. pending[t] = <<>> /\ NotThere /\ Settled /\ View(t)
  BY ViewOfThread
<1>2. \A p \in Pids : Online(p) => client[p].view[c] = NoPos /\ p # c
  BY <1>0, <1>1 DEF View, Closing, Online
<1>3. CASE RemovePlayerFromGrid(t)
  <2>1. pc'[t] = "erase" /\ UNCHANGED <<cur, job, info>>
    BY <1>0, <1>3 DEF RemovePlayerFromGrid, Goto, TypeOK, locals
  <2>2. NotThere' /\ Settled'
    BY <1>0, <1>1, <2>1, ScreensLeftAlone
  <2>3. View(t)'
    BY <1>0, <1>1, <1>2, <2>1
    DEF View, Exact, NoInfo, Arrived, Entering, Syncing, Playing, Closing, Online
  <2> QED
    BY <1>0, <1>1, <2>1, <2>2, <2>3, ViewOfThread
<1>4. CASE ErasePlayer(t)
  <2>1. NotThere' /\ Return(t)
    BY <1>0, <1>1, <1>4 DEF NotThere, ErasePlayer
  <2>2. ASSUME NEW p \in Pids, NEW q \in Pids, Online(p)
        PROVE  client[p].view[q] = IF Online(q) /\ Near(pos[p], q) THEN pos[q] ELSE NoPos
    <3>1. CASE q = c
      BY <1>0, <1>2, <2>2, <3>1 DEF Online
    <3>2. CASE q # c
      BY <1>1, <1>2, <2>2, <3>2, OneThread DEF Settled
    <3> QED
      BY <3>1, <3>2
  <2> QED
    BY <1>0, <2>1, <2>2, BackInLoop
<1> QED
  BY <1>3, <1>4

-----------------------------------------------------------------------------
(***************************************************************************)
(* The theorems.                                                           *)
(***************************************************************************)

LEMMA InitView ==
  ASSUME Init
  PROVE  ViewInv
BY DEF Init, ViewInv, NothingQueued, NotThere, Settled, Online, View, Exact,
       NoInfo, Arrived, Entering, Syncing, Playing, Closing

\* There is never a functor to run, and every other step keeps the invariant.
LEMMA NextView ==
  ASSUME OneLoop, IndInv, ViewInv, [Next]_vars
  PROVE  ViewInv'
<1>1. ASSUME NEW t \in IoThreads, Environment(t)
      PROVE  ViewInv'
  BY <1>1, CreateView, ServeView DEF Environment
<1>2. ASSUME NEW t \in IoThreads, Step(t)
      PROVE  ViewInv'
  <2>1. ~TakeFunctors(t) /\ ~RunFunctor(t)
    BY ViewOfThread DEF TakeFunctors, RunFunctor
  <2>2. CASE \/ AddPlayer(t) \/ AddPlayerToGrid(t) \/ SyncPid(t)
             \/ GetPlayerByPid(t) \/ UpdatePos(t) \/ LeaveGrid(t) \/ EnterGrid(t)
    BY <2>2, EnterView, LookupView, UpdatePosView, CrossView
  <2>3. CASE LockShared(t) \/ ReadGrid(t) \/ UnlockShared(t) \/ GetAllPlayers(t)
    BY <2>3, LockView, ReadView, UnlockView, AllPlayersView
  <2>4. ASSUME NEW q \in snap[t],
               \/ SendSync(t, q) \/ SendVanish(t, q) \/ SendEmerge(t, q)
               \/ SendMove(t, q) \/ SendTalk(t, q) \/ SendLeave(t, q)
        PROVE  ViewInv'
    BY <2>4, SyncView, VanishView, EmergeView, MoveView, TalkView, LeaveView
  <2>5. CASE \/ NextPart(t) \/ SendSyncPlayers(t)
             \/ RemovePlayerFromGrid(t) \/ ErasePlayer(t)
    BY <2>5, NextPartView, SyncPlayersView, RemoveView
  <2> QED
    BY <1>2, <2>1, <2>2, <2>3, <2>4, <2>5 DEF Step
<1>3. CASE UNCHANGED vars
  BY <1>3
  DEF vars, world, lock, locals, network, ViewInv, NothingQueued, NotThere,
      Settled, Online, Near, Serving, View, Exact, Around, GridsToRead, NoInfo,
      Arrived, Entering, Syncing, Playing, Mutual, UpToDate, Closing
<1> QED
  BY <1>1, <1>2, <1>3 DEF Next, Polling

\* In one event loop every screen is, at every step of every callback, what
\* that callback has made of it so far, and right between two callbacks.
THEOREM OneLoopViews ==
  ASSUME OneLoop
  PROVE  Spec => []ViewInv
<1>1. Init => ViewInv
  BY InitView
<1>2. IndInv /\ ViewInv /\ [Next]_vars => ViewInv'
  BY NextView
<1> QED
  BY <1>1, <1>2, Invariance, PTL DEF Spec

\* In one event loop, a client is shown every player around its own, at the
\* place where it is: initPlayer, UpdatePos and HandleCrossedGrid forget nobody.
THEOREM OneLoopNobodyMissing ==
  ASSUME OneLoop
  PROVE  Spec => []NobodyMissing
<1>1. ASSUME IndInv, ViewInv
      PROVE  NobodyMissing
  <2> SUFFICES ASSUME Quiescent, NEW p \in players_, NEW q \in players_, Visible(p, q)
               PROVE  client[p].view[q] = pos[q]
    BY DEF NobodyMissing
  <2>1. p \in Pids /\ q \in Pids
    BY <1>1 DEF IndInv, TypeOK
  <2>2. Online(p) /\ Online(q) /\ owner[p] \in IoThreads
    BY <1>1, <2>1, RegisteredOnline
  <2>3. pc[owner[p]] = "idle"
    BY <2>2 DEF Quiescent
  <2> QED
    BY <1>1, <2>1, <2>2, <2>3, AllSettled DEF Visible, Near
<1> QED
  BY <1>1, Invariance, OneLoopViews, PTL

\* ... and nobody that has left, or is out of sight: destroyPlayer and
\* HandleCrossedGrid take everyone off the screens that they should.
THEOREM OneLoopNoGhosts ==
  ASSUME OneLoop
  PROVE  Spec => []NoGhosts
<1>1. ASSUME IndInv, ViewInv
      PROVE  NoGhosts
  <2> SUFFICES ASSUME Quiescent, NEW p \in players_, NEW q \in Pids,
                      client[p].view[q] # NoPos
               PROVE  q \in players_ /\ Visible(p, q)
    BY DEF NoGhosts
  <2>1. p \in Pids
    BY <1>1 DEF IndInv, TypeOK
  <2>2. Online(p) /\ owner[p] \in IoThreads
    BY <1>1, <2>1, RegisteredOnline
  <2>3. pc[owner[p]] = "idle"
    BY <2>2 DEF Quiescent
  <2>4. Online(q) /\ Near(pos[p], q)
    BY <1>1, <2>1, <2>2, <2>3, AllSettled
  <2> QED
    BY <1>1, <2>4, RegisteredOnline DEF Visible, Near
<1> QED
  BY <1>1, Invariance, OneLoopViews, PTL

=============================================================================

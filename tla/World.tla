------------------------------- MODULE World -------------------------------
(***************************************************************************)
(* The shared world of the MMO server: WorldManager, the grids, the        *)
(* players and the callbacks and handlers that work on them from several   *)
(* I/O threads (initPlayer, destroyPlayer, MoveHandler, ChatHandler).      *)
(*                                                                         *)
(* A connection lives in the event loop of one I/O thread, which runs all  *)
(* its callbacks, one callback at a time.  Callbacks of connections of     *)
(* different threads interleave at every access to shared state: a step    *)
(* of this module is one critical section of rw_mutex_ or of a grid's      *)
(* mutex_, one unlocked access, or one send.  rw_mutex_ is held over       *)
(* several steps where the code holds it over several grid reads.          *)
(*                                                                         *)
(* A Player and its connection are named by the pid.  A packet is reduced  *)
(* to what it tells the client about whom.                                 *)
(***************************************************************************)
EXTENDS AOI, Sequences, FiniteSets

CONSTANTS
  IoThreads,       \* threads that run an event loop with connections
  MaxPlayers,      \* bound: connections ever accepted
  SpawnPositions,  \* what getRandomPosition may return
  Positions,       \* where clients ask to move
  MaxMoves,        \* bound: move requests served
  MaxChats,        \* bound: chat requests served
  MaxCloses,       \* bound: connections closed
  NoThread,        \* no thread
  NoPos            \* no position

Pids == 1 .. MaxPlayers
Kinds == {"move", "chat", "close"}
Limit == [move |-> MaxMoves, chat |-> MaxChats, close |-> MaxCloses]

ASSUME PlayersAssumption ==
  /\ MaxPlayers \in Nat
  /\ MaxMoves \in Nat /\ MaxChats \in Nat /\ MaxCloses \in Nat

ASSUME PositionsAssumption ==
  \A p \in SpawnPositions \cup Positions : p \in Coordinates /\ OnMap(p)

ASSUME MarkersAssumption ==
  /\ NoThread \notin IoThreads
  /\ NoPos \notin Coordinates

VARIABLES
  global_player_id,  \* the next pid
  players_,          \* WorldManager::players_: the registered pids
  grid,              \* Grid::players_ of every grid
  pos,               \* Player::pos_ of every player created
  owner,             \* the thread whose loop a player's connection lives in
  conn,              \* state of the connection: "none", "up" or "down"
  readers,           \* threads that hold rw_mutex_ shared
  writer,            \* the thread that holds rw_mutex_ exclusively
  pc,                \* where each thread is
  job,               \* which part of which handler it runs
  cur,               \* the pid it runs it for, 0 for none
  from,              \* old_pos of UpdatePos
  to,                \* new_pos of UpdatePos
  toRead,            \* grids still to be read for the current snapshot
  snap,              \* players of the snapshot still to be served
  info,              \* player_info_packets of SyncWithSurrounding
  client,            \* what each client has been told
  pending,           \* functors queued in each loop: packets still to be sent
  batch,             \* functors left in the batch a loop is running
  served             \* requests served, by kind

world   == <<global_player_id, players_, grid, pos, owner, conn>>
lock    == <<readers, writer>>
locals  == <<cur, from, to, toRead, snap, info>>
network == <<client, pending, batch>>
vars    == <<world, lock, pc, job, locals, network, served>>

Jobs == {"none", "sync", "vanish", "emerge"} \cup Kinds
Labels == {"idle", "AddPlayer", "AddPlayerToGrid", "SyncPid", "lookup",
           "write", "leaveGrid", "enterGrid", "lock", "read", "send",
           "syncPlayers", "remove", "erase", "functors"}

Sights  == [Pids -> Coordinates \cup {NoPos}]
Clients == [synced : BOOLEAN, view : Sights, heard : SUBSET Pids]
Packets == [type : {"POS", "MOVE", "LEAVE", "TALK"}, pid : Pids,
            p : Coordinates \cup {NoPos}]
Functors == [dest : Pids, packet : Packets]

NoSight == [q \in Pids |-> NoPos]

TypeOK ==
  /\ global_player_id \in 1 .. MaxPlayers + 1
  /\ players_ \subseteq Pids
  /\ grid \in [Grids -> SUBSET Pids]
  /\ pos \in [Pids -> Coordinates \cup {NoPos}]
  /\ owner \in [Pids -> IoThreads \cup {NoThread}]
  /\ conn \in [Pids -> {"none", "up", "down"}]
  /\ readers \subseteq IoThreads
  /\ writer \in IoThreads \cup {NoThread}
  /\ pc \in [IoThreads -> Labels]
  /\ job \in [IoThreads -> Jobs]
  /\ cur \in [IoThreads -> Pids \cup {0}]
  /\ from \in [IoThreads -> Coordinates \cup {NoPos}]
  /\ to \in [IoThreads -> Coordinates \cup {NoPos}]
  /\ toRead \in [IoThreads -> SUBSET Grids]
  /\ snap \in [IoThreads -> SUBSET Pids]
  /\ info \in [IoThreads -> Sights]
  /\ client \in [Pids -> Clients]
  /\ pending \in [IoThreads -> Seq(Functors)]
  /\ batch \in [IoThreads -> Nat]
  /\ served \in [Kinds -> Nat]

Init ==
  /\ global_player_id = 1
  /\ players_ = {}
  /\ grid = [g \in Grids |-> {}]
  /\ pos = [p \in Pids |-> NoPos]
  /\ owner = [p \in Pids |-> NoThread]
  /\ conn = [p \in Pids |-> "none"]
  /\ readers = {}
  /\ writer = NoThread
  /\ pc = [t \in IoThreads |-> "idle"]
  /\ job = [t \in IoThreads |-> "none"]
  /\ cur = [t \in IoThreads |-> 0]
  /\ from = [t \in IoThreads |-> NoPos]
  /\ to = [t \in IoThreads |-> NoPos]
  /\ toRead = [t \in IoThreads |-> {}]
  /\ snap = [t \in IoThreads |-> {}]
  /\ info = [t \in IoThreads |-> NoSight]
  /\ client = [p \in Pids |-> [synced |-> FALSE, view |-> NoSight, heard |-> {}]]
  /\ pending = [t \in IoThreads |-> <<>>]
  /\ batch = [t \in IoThreads |-> 0]
  /\ served = [k \in Kinds |-> 0]

-----------------------------------------------------------------------------
(***************************************************************************)
(* Control.                                                                *)
(***************************************************************************)

Goto(t, label) == pc' = [pc EXCEPT ![t] = label]
Begin(t, j, label) == job' = [job EXCEPT ![t] = j] /\ Goto(t, label)

\* The callback returns to the event loop and its locals go out of scope.
Return(t) ==
  /\ Begin(t, "none", "idle")
  /\ cur' = [cur EXCEPT ![t] = 0]
  /\ from' = [from EXCEPT ![t] = NoPos]
  /\ to' = [to EXCEPT ![t] = NoPos]
  /\ info' = [info EXCEPT ![t] = NoSight]
  /\ UNCHANGED <<toRead, snap>>

\* rw_mutex_ can be taken by a std::shared_lock, by a std::unique_lock.
Shareable == writer = NoThread
Lockable == writer = NoThread /\ readers = {}

-----------------------------------------------------------------------------
(***************************************************************************)
(* Packets.  TcpConnection::Send writes at once when it is called in the   *)
(* connection's own loop; from another thread it queues a functor in that  *)
(* loop, which the loop runs between two callbacks.  A connection that is  *)
(* down drops what is sent to it.  The bytes written reach the client in   *)
(* order, so `client' is what it knows once it has read all of them.       *)
(***************************************************************************)

Pos(p, at)  == [type |-> "POS",   pid |-> p, p |-> at]
Move(p, at) == [type |-> "MOVE",  pid |-> p, p |-> at]
Leave(p)    == [type |-> "LEAVE", pid |-> p, p |-> NoPos]
Talk(p)     == [type |-> "TALK",  pid |-> p, p |-> NoPos]

\* BC_POS_FIELD makes a player appear, BC_MOVE_FIELD moves one that is shown,
\* SYNC_LEAVE removes one.
Receive(c, m) ==
  CASE m.type = "POS"   -> [c EXCEPT !.view[m.pid] = m.p]
    [] m.type = "MOVE"  -> IF c.view[m.pid] = NoPos THEN c
                           ELSE [c EXCEPT !.view[m.pid] = m.p]
    [] m.type = "LEAVE" -> [c EXCEPT !.view[m.pid] = NoPos]
    [] m.type = "TALK"  -> [c EXCEPT !.heard = @ \cup {m.pid}]

\* The write on the connection of q, in the thread of its loop.
SendInLoop(c, q, m) ==
  IF conn[q] = "up" THEN [c EXCEPT ![q] = Receive(@, m)] ELSE c

\* Player::SendPacket to q called in thread t: the part that happens now ...
SendNow(t, c, q, m) == IF owner[q] = t THEN SendInLoop(c, q, m) ELSE c

\* ... and the part left to the loop of q.
SendLater(t, q, m) ==
  IF owner[q] = t THEN pending
  ELSE [pending EXCEPT ![owner[q]] = Append(@, [dest |-> q, packet |-> m])]

\* Mutant: packets of other threads are written by the calling thread.
SendDirect(t, q, m) ==
  /\ client' = SendInLoop(client, q, m)
  /\ pending' = pending

SendPacket(t, q, m) ==
  /\ client' = SendNow(t, client, q, m)
  /\ pending' = SendLater(t, q, m)

\* One iteration of a loop that sends m to q and then `own' to the player the
\* thread works for, whose connection is in its own loop.
SendBoth(t, q, m, own) ==
  /\ client' = SendInLoop(SendNow(t, client, q, m), cur[t], own)
  /\ pending' = SendLater(t, q, m)

\* GetPosition() of q returns a reference that is read after rwMutex_ is
\* released: while the owner of q assigns pos_, each coordinate read is the
\* old or the new one.
PositionsRead(q) ==
  LET w == owner[q] IN
  IF w \in IoThreads /\ pc[w] = "write" /\ cur[w] = q
  THEN [X : {pos[q].X, to[w].X}, Z : {pos[q].Z, to[w].Z}]
  ELSE {pos[q]}

-----------------------------------------------------------------------------
(***************************************************************************)
(* initPlayer: a new connection is established.                            *)
(***************************************************************************)

\* CreateNewPlayer draws the pid; the connection remembers it as its context.
CreateNewPlayer(t, at) ==
  LET p == global_player_id IN
  /\ pc[t] = "idle"
  /\ p \in Pids
  /\ global_player_id' = p + 1
  /\ pos' = [pos EXCEPT ![p] = at]
  /\ owner' = [owner EXCEPT ![p] = t]
  /\ conn' = [conn EXCEPT ![p] = "up"]
  /\ cur' = [cur EXCEPT ![t] = p]
  /\ Goto(t, "AddPlayer")
  /\ UNCHANGED <<players_, grid, lock, job, from, to, toRead, snap, info,
                 network, served>>

\* WorldManager::AddPlayer, under rw_mutex_: register the player ...
AddPlayer(t) ==
  /\ pc[t] = "AddPlayer"
  /\ Lockable
  /\ players_' = players_ \cup {cur[t]}
  /\ Goto(t, "AddPlayerToGrid")
  /\ UNCHANGED <<global_player_id, grid, pos, owner, conn, lock, job, locals,
                 network, served>>

\* ... and then, with rw_mutex_ released, put it on the map.
AddPlayerToGrid(t) ==
  /\ pc[t] = "AddPlayerToGrid"
  /\ grid' = [grid EXCEPT ![GetGridByPosition(pos[cur[t]])] = @ \cup {cur[t]}]
  /\ Goto(t, "SyncPid")
  /\ UNCHANGED <<global_player_id, players_, pos, owner, conn, lock, job,
                 locals, network, served>>

SyncPid(t) ==
  /\ pc[t] = "SyncPid"
  /\ client' = [client EXCEPT ![cur[t]].synced = TRUE]
  /\ Begin(t, "sync", "lock")
  /\ UNCHANGED <<world, lock, locals, pending, batch, served>>

-----------------------------------------------------------------------------
(***************************************************************************)
(* Requests.  A thread serves them for the connections of its own loop.    *)
(***************************************************************************)

Serve(t, p, kind) ==
  /\ pc[t] = "idle"
  /\ owner[p] = t
  /\ conn[p] = "up"
  /\ served[kind] < Limit[kind]
  /\ served' = [served EXCEPT ![kind] = @ + 1]
  /\ cur' = [cur EXCEPT ![t] = p]
  /\ Begin(t, kind, "lookup")
  /\ UNCHANGED <<global_player_id, players_, grid, pos, owner, lock, from,
                 toRead, snap, info, network>>

\* MoveHandler::Handle
RequestMove(t, p, at) ==
  /\ Serve(t, p, "move")
  /\ to' = [to EXCEPT ![t] = at]
  /\ UNCHANGED conn

\* ChatHandler::Handle
RequestChat(t, p) ==
  /\ Serve(t, p, "chat")
  /\ UNCHANGED <<to, conn>>

\* The connection goes down and HandleNewConnection calls destroyPlayer.
Disconnect(t, p) ==
  /\ Serve(t, p, "close")
  /\ conn' = [conn EXCEPT ![p] = "down"]
  /\ UNCHANGED to

\* GetPlayerByPid(pid, true); players_.at(pid) throws when pid is not there.
GetPlayerByPid(t) ==
  /\ pc[t] = "lookup"
  /\ Shareable
  /\ Goto(t, IF job[t] = "move" THEN "write" ELSE "lock")
  /\ UNCHANGED <<world, lock, job, locals, network, served>>

-----------------------------------------------------------------------------
(***************************************************************************)
(* Player::UpdatePos.                                                      *)
(***************************************************************************)

\* Mutant: only the rows of the two grids are compared.
UpdatePosByRow(t) ==
  /\ pc[t] = "write"
  /\ from' = [from EXCEPT ![t] = pos[cur[t]]]
  /\ pos' = [pos EXCEPT ![cur[t]] = to[t]]
  /\ Goto(t, IF GetRowIndex(pos[cur[t]]) # GetRowIndex(to[t])
             THEN "leaveGrid" ELSE "lock")
  /\ UNCHANGED <<global_player_id, players_, grid, owner, conn, lock, job,
                 cur, to, toRead, snap, info, network, served>>

\* pos_ = new_pos, and the check whether the grid is crossed.
UpdatePos(t) ==
  /\ pc[t] = "write"
  /\ from' = [from EXCEPT ![t] = pos[cur[t]]]
  /\ pos' = [pos EXCEPT ![cur[t]] = to[t]]
  /\ Goto(t, IF GetGridByPosition(pos[cur[t]]) # GetGridByPosition(to[t])
             THEN "leaveGrid" ELSE "lock")
  /\ UNCHANGED <<global_player_id, players_, grid, owner, conn, lock, job,
                 cur, to, toRead, snap, info, network, served>>

\* Mutant: the player is removed from the new grid.
LeaveNewGrid(t) ==
  /\ pc[t] = "leaveGrid"
  /\ grid' = [grid EXCEPT ![GetGridByPosition(to[t])] = @ \ {cur[t]}]
  /\ Goto(t, "enterGrid")
  /\ UNCHANGED <<global_player_id, players_, pos, owner, conn, lock, job,
                 locals, network, served>>

LeaveGrid(t) ==
  /\ pc[t] = "leaveGrid"
  /\ grid' = [grid EXCEPT ![GetGridByPosition(from[t])] = @ \ {cur[t]}]
  /\ Goto(t, "enterGrid")
  /\ UNCHANGED <<global_player_id, players_, pos, owner, conn, lock, job,
                 locals, network, served>>

\* Mutant: the player is put back into the old grid.
EnterOldGrid(t) ==
  /\ pc[t] = "enterGrid"
  /\ grid' = [grid EXCEPT ![GetGridByPosition(from[t])] = @ \cup {cur[t]}]
  /\ Begin(t, "vanish", "lock")
  /\ UNCHANGED <<global_player_id, players_, pos, owner, conn, lock, locals,
                 network, served>>

\* HandleCrossedGrid follows: first the grids that went out of sight.
EnterGrid(t) ==
  /\ pc[t] = "enterGrid"
  /\ grid' = [grid EXCEPT ![GetGridByPosition(to[t])] = @ \cup {cur[t]}]
  /\ Begin(t, "vanish", "lock")
  /\ UNCHANGED <<global_player_id, players_, pos, owner, conn, lock, locals,
                 network, served>>

-----------------------------------------------------------------------------
(***************************************************************************)
(* Snapshots of the players to notify.  The code collects them in vectors, *)
(* which can hold a player twice when it changes grids between two grid    *)
(* reads; it then gets the same POS, MOVE or LEAVE packet once more, which *)
(* tells its client nothing new.  The order of the vector is not kept: a   *)
(* hash table gives it.                                                    *)
(***************************************************************************)

GridsToRead(t) ==
  CASE job[t] = "vanish" -> DisappearedGrids(from[t], to[t])
    [] job[t] = "emerge" -> NascentGrids(from[t], to[t])
    [] OTHER             -> GetSudokuByPosition(pos[cur[t]])

\* GetSurroundingPlayers(pid) and GetAllPlayers(grids) take rw_mutex_ shared.
LockShared(t) ==
  /\ pc[t] = "lock"
  /\ job[t] # "chat"
  /\ Shareable
  /\ readers' = readers \cup {t}
  /\ toRead' = [toRead EXCEPT ![t] = GridsToRead(t)]
  /\ Goto(t, "read")
  /\ UNCHANGED <<world, writer, job, cur, from, to, snap, info, network,
                 served>>

\* Grid::GetAllPlayers of the next grid: row by row in a neighbourhood, in the
\* order of a hash table in HandleCrossedGrid.
ReadGrid(t) ==
  /\ pc[t] = "read"
  /\ \E g \in toRead[t] :
       /\ \/ job[t] \in {"vanish", "emerge"}
          \/ \A h \in toRead[t] \ {g} : Precedes(g, h)
       /\ snap' = [snap EXCEPT ![t] = @ \cup grid[g]]
       /\ toRead' = [toRead EXCEPT ![t] = @ \ {g}]
  /\ UNCHANGED <<world, lock, pc, job, cur, from, to, info, network, served>>

\* Mutant: the shared lock is not released.
KeepShared(t) ==
  /\ pc[t] = "read"
  /\ toRead[t] = {}
  /\ Goto(t, "send")
  /\ UNCHANGED <<world, lock, job, locals, network, served>>

\* The pids read are looked up in players_ and rw_mutex_ is released.
UnlockShared(t) ==
  /\ pc[t] = "read"
  /\ toRead[t] = {}
  /\ readers' = readers \ {t}
  /\ Goto(t, "send")
  /\ UNCHANGED <<world, writer, job, locals, network, served>>

\* Mutant: only the grid of the player is asked.
GetGridPlayers(t) ==
  /\ pc[t] = "lock"
  /\ job[t] = "chat"
  /\ Shareable
  /\ snap' = [snap EXCEPT ![t] = grid[GetGridByPosition(pos[cur[t]])]]
  /\ Goto(t, "send")
  /\ UNCHANGED <<world, lock, job, cur, from, to, toRead, info, network,
                 served>>

\* WorldManager::GetAllPlayers() for WorldChat.
GetAllPlayers(t) ==
  /\ pc[t] = "lock"
  /\ job[t] = "chat"
  /\ Shareable
  /\ snap' = [snap EXCEPT ![t] = players_]
  /\ Goto(t, "send")
  /\ UNCHANGED <<world, lock, job, cur, from, to, toRead, info, network,
                 served>>

-----------------------------------------------------------------------------
(***************************************************************************)
(* The loops over a snapshot.                                              *)
(***************************************************************************)

Sending(t, j, q) ==
  /\ pc[t] = "send"
  /\ job[t] = j
  /\ snap' = [snap EXCEPT ![t] = @ \ {q}]
  /\ UNCHANGED <<world, lock, pc, job, cur, from, to, toRead, batch, served>>

\* Mutant: the new player learns of q, but q does not learn of it.
SendSyncOneWay(t, q) ==
  /\ Sending(t, "sync", q)
  /\ UNCHANGED <<client, pending>>
  /\ \E at \in PositionsRead(q) : info' = [info EXCEPT ![t][q] = at]

\* SyncWithSurrounding: show the new player to q, note where q is.
SendSync(t, q) ==
  /\ Sending(t, "sync", q)
  /\ SendPacket(t, q, Pos(cur[t], pos[cur[t]]))
  /\ \E at \in PositionsRead(q) : info' = [info EXCEPT ![t][q] = at]

\* HandleCrossedGrid: q and the player lose sight of each other.
SendVanish(t, q) ==
  /\ Sending(t, "vanish", q)
  /\ SendBoth(t, q, Leave(cur[t]), Leave(q))
  /\ UNCHANGED info

\* HandleCrossedGrid: q and the player come into each other's sight.
SendEmerge(t, q) ==
  /\ Sending(t, "emerge", q)
  /\ \E at \in PositionsRead(q) :
       SendBoth(t, q, Pos(cur[t], pos[cur[t]]), Pos(q, at))
  /\ UNCHANGED info

\* UpdatePos: the new position to everyone around.
SendMove(t, q) ==
  /\ Sending(t, "move", q)
  /\ SendPacket(t, q, Move(cur[t], pos[cur[t]]))
  /\ UNCHANGED info

\* WorldChat
SendTalk(t, q) ==
  /\ Sending(t, "chat", q)
  /\ SendPacket(t, q, Talk(cur[t]))
  /\ UNCHANGED info

\* Disappear
SendLeave(t, q) ==
  /\ Sending(t, "close", q)
  /\ SendPacket(t, q, Leave(cur[t]))
  /\ UNCHANGED info

\* A loop is over.
NextPart(t) ==
  /\ pc[t] = "send"
  /\ snap[t] = {}
  /\ \/ /\ job[t] = "sync"
        /\ Begin(t, "sync", "syncPlayers")
        /\ UNCHANGED locals
     \/ /\ job[t] = "vanish"
        /\ Begin(t, "emerge", "lock")
        /\ UNCHANGED locals
     \/ /\ job[t] = "emerge"
        /\ Begin(t, "move", "lock")
        /\ UNCHANGED locals
     \/ /\ job[t] = "close"
        /\ Begin(t, "close", "remove")
        /\ UNCHANGED locals
     \/ job[t] \in {"move", "chat"} /\ Return(t)
  /\ UNCHANGED <<world, lock, network, served>>

\* The end of SyncWithSurrounding: everyone noted, in one SYNC_PLAYERS packet.
SendSyncPlayers(t) ==
  /\ pc[t] = "syncPlayers"
  /\ client' = [client EXCEPT ![cur[t]].view =
                  [q \in Pids |-> IF info[t][q] = NoPos THEN @[q] ELSE info[t][q]]]
  /\ Return(t)
  /\ UNCHANGED <<world, lock, pending, batch, served>>

-----------------------------------------------------------------------------
(***************************************************************************)
(* WorldManager::RemovePlayerByPid: off the map and off the register, both *)
(* while rw_mutex_ is held exclusively.                                    *)
(***************************************************************************)

\* Mutant: the map is forgotten.
RemoveWithoutMap(t) ==
  /\ pc[t] = "remove"
  /\ Lockable
  /\ writer' = t
  /\ Goto(t, "erase")
  /\ UNCHANGED <<global_player_id, players_, grid, pos, owner, conn, readers,
                 job, locals, network, served>>

\* Mutant: the lock is forgotten.
RemoveWithoutLock(t) ==
  /\ pc[t] = "remove"
  /\ grid' = [grid EXCEPT ![GetGridByPosition(pos[cur[t]])] = @ \ {cur[t]}]
  /\ Goto(t, "erase")
  /\ UNCHANGED <<global_player_id, players_, pos, owner, conn, lock, job,
                 locals, network, served>>

RemovePlayerFromGrid(t) ==
  /\ pc[t] = "remove"
  /\ Lockable
  /\ writer' = t
  /\ grid' = [grid EXCEPT ![GetGridByPosition(pos[cur[t]])] = @ \ {cur[t]}]
  /\ Goto(t, "erase")
  /\ UNCHANGED <<global_player_id, players_, pos, owner, conn, readers, job,
                 locals, network, served>>

\* Mutant: the player stays in players_.
KeepRegistered(t) ==
  /\ pc[t] = "erase"
  /\ writer' = NoThread
  /\ Return(t)
  /\ UNCHANGED <<global_player_id, players_, grid, pos, owner, conn, readers,
                 network, served>>

ErasePlayer(t) ==
  /\ pc[t] = "erase"
  /\ players_' = players_ \ {cur[t]}
  /\ writer' = NoThread
  /\ Return(t)
  /\ UNCHANGED <<global_player_id, grid, pos, owner, conn, readers, network,
                 served>>

-----------------------------------------------------------------------------
(***************************************************************************)
(* The event loop runs the functors queued by other threads: it takes all  *)
(* that are there and runs them before it turns to the next callback.      *)
(***************************************************************************)

TakeFunctors(t) ==
  /\ pc[t] = "idle"
  /\ pending[t] # <<>>
  /\ batch' = [batch EXCEPT ![t] = Len(pending[t])]
  /\ Goto(t, "functors")
  /\ UNCHANGED <<world, lock, job, locals, client, pending, served>>

RunFunctor(t) ==
  /\ pc[t] = "functors"
  /\ LET f == Head(pending[t]) IN client' = SendInLoop(client, f.dest, f.packet)
  /\ pending' = [pending EXCEPT ![t] = Tail(@)]
  /\ batch' = [batch EXCEPT ![t] = @ - 1]
  /\ Goto(t, IF batch[t] = 1 THEN "idle" ELSE "functors")
  /\ UNCHANGED <<world, lock, job, locals, served>>

-----------------------------------------------------------------------------
(***************************************************************************)
(* The specification.                                                      *)
(***************************************************************************)

\* What clients and the network make happen.
Environment(t) ==
  \/ \E at \in SpawnPositions : CreateNewPlayer(t, at)
  \/ \E p \in Pids : \/ \E at \in Positions : RequestMove(t, p, at)
                     \/ RequestChat(t, p)
                     \/ Disconnect(t, p)

\* What a thread does by itself once a callback or functors are due.
Step(t) ==
  \/ AddPlayer(t) \/ AddPlayerToGrid(t) \/ SyncPid(t)
  \/ GetPlayerByPid(t) \/ UpdatePos(t) \/ LeaveGrid(t) \/ EnterGrid(t)
  \/ LockShared(t) \/ ReadGrid(t) \/ UnlockShared(t) \/ GetAllPlayers(t)
  \/ \E q \in snap[t] : \/ SendSync(t, q) \/ SendVanish(t, q)
                        \/ SendEmerge(t, q) \/ SendMove(t, q)
                        \/ SendTalk(t, q) \/ SendLeave(t, q)
  \/ NextPart(t) \/ SendSyncPlayers(t)
  \/ RemovePlayerFromGrid(t) \/ ErasePlayer(t)
  \/ TakeFunctors(t) \/ RunFunctor(t)

\* No callback runs and nothing is queued.
Quiescent == \A t \in IoThreads : pc[t] = "idle" /\ pending[t] = <<>>

\* Every loop sits in poll.
Polling == Quiescent /\ UNCHANGED vars

Next == (\E t \in IoThreads : Environment(t) \/ Step(t)) \/ Polling

Spec == Init /\ [][Next]_vars

\* The scheduler keeps running every thread that can go on.
Fairness == \A t \in IoThreads : WF_vars(Step(t))

FairSpec == Spec /\ Fairness

-----------------------------------------------------------------------------
(***************************************************************************)
(* Safety.                                                                 *)
(***************************************************************************)

\* Every pid on the map is registered.  Readers turn the pids of a grid into
\* players with players_.at(pid) (WorldManager.cpp:69, 85), which throws for a
\* pid that is missing: AddPlayer has to register first, RemovePlayerByPid has
\* to clear the map first.
MapIsRegistered == \A g \in Grids : grid[g] \subseteq players_

\* No lookup in players_ fails, in whatever order the threads run: neither the
\* ones of a handler for its own player nor the ones for a snapshot, made
\* under the shared lock after the grids were read.
LookupsSucceed ==
  \A t \in IoThreads :
    /\ pc[t] = "read" => snap[t] \subseteq players_
    /\ pc[t] \in {"lookup", "lock", "write"} => cur[t] \in players_

\* The assert()s of Grid::AddNewPlayer, Grid::RemovePlayer, AddPlayer and
\* RemovePlayerByPid hold whenever a thread is about to evaluate them.
AssertionsHold ==
  \A t \in IoThreads :
    LET p == cur[t] IN
    /\ pc[t] = "AddPlayer" => p \notin players_
    /\ pc[t] = "AddPlayerToGrid" => p \notin grid[GetGridByPosition(pos[p])]
    /\ pc[t] = "leaveGrid" => p \in grid[GetGridByPosition(from[t])]
    /\ pc[t] = "enterGrid" => p \notin grid[GetGridByPosition(to[t])]
    /\ pc[t] = "remove" => p \in players_ /\ p \in grid[GetGridByPosition(pos[p])]
    /\ pc[t] = "erase" => p \in players_

\* A player no callback is working on is on the map in the grid of its
\* position and in no other, so that every snapshot can find it.
Serving(p) == \E t \in IoThreads : cur[t] = p

InPlace ==
  \A p \in players_ : ~Serving(p) =>
    \A g \in Grids : p \in grid[g] <=> g = GetGridByPosition(pos[p])

\* SYNC_PLAYERS is never empty (packToLTDWithProtobuf asserts that the encoded
\* packet is not): the new player finds at least itself around it.
SyncPlayersNotEmpty ==
  \A t \in IoThreads : pc[t] = "syncPlayers" => info[t][cur[t]] = pos[cur[t]]

\* A client learns its own pid before anything else, although its player can be
\* found by other threads before SyncPid is called.
SyncPidFirst ==
  \A p \in Pids : ~client[p].synced =>
    client[p].view = NoSight /\ client[p].heard = {}

-----------------------------------------------------------------------------
(***************************************************************************)
(* What the clients see once everything has settled.                       *)
(***************************************************************************)

Visible(p, q) == GetGridByPosition(pos[q]) \in GetSudokuByPosition(pos[p])

\* A client is shown every player around its own, at the place where it is.
NobodyMissing ==
  Quiescent => \A p, q \in players_ :
                 Visible(p, q) => client[p].view[q] = pos[q]

\* A client is shown nobody that has left, or is out of sight.
NoGhosts ==
  Quiescent => \A p \in players_ : \A q \in Pids :
                 client[p].view[q] # NoPos => q \in players_ /\ Visible(p, q)

\* Nobody is shown at a place where it never was.  (Player.h:79 has rwMutex_
\* "for syncly access the field pos_".)
NoTornPosition ==
  \A p, q \in Pids :
    client[p].view[q] \in SpawnPositions \cup Positions \cup {NoPos}

-----------------------------------------------------------------------------
(***************************************************************************)
(* Liveness.                                                               *)
(***************************************************************************)

\* Every callback returns to its event loop.
CallbacksReturn == \A t \in IoThreads : pc[t] # "idle" ~> pc[t] = "idle"

\* A thread holds a PlayerPtr, or a functor the connection.
Held(p) ==
  \/ p \in players_
  \/ \E t \in IoThreads :
       \/ cur[t] = p
       \/ p \in snap[t]
       \/ \E i \in DOMAIN pending[t] : pending[t][i].dest = p

\* Once a player is offline all references to it and to its connection go away
\* for good, so that the Player is destroyed and the descriptor closed.
OfflineReleased == \A p \in Pids : conn[p] = "down" ~> []~Held(p)

\* What a player says reaches everyone who is registered when it is said and
\* stays connected.
ChatReachesAll ==
  \A p, q \in Pids :
    (/\ q \in players_
     /\ \E t \in IoThreads : pc[t] = "lock" /\ job[t] = "chat" /\ cur[t] = p)
    ~> (p \in client[q].heard \/ conn[q] = "down")
=============================================================================

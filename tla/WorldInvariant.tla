--------------------------- MODULE WorldInvariant ---------------------------
(***************************************************************************)
(* The inductive invariant behind the safety properties of World: where a  *)
(* player is registered and on the map, depending on how far the callback  *)
(* that serves it has come, and who holds rw_mutex_.                       *)
(***************************************************************************)
EXTENDS World

Online(p) == conn[p] = "up"

\* Which part of which handler is at which place of the code.
PartAt(t) ==
  /\ pc[t] \in {"idle", "functors", "AddPlayer", "AddPlayerToGrid", "SyncPid"} =>
       job[t] = "none"
  /\ pc[t] = "lookup" => job[t] \in Kinds
  /\ pc[t] \in {"write", "leaveGrid", "enterGrid"} => job[t] = "move"
  /\ pc[t] = "read" => job[t] \notin {"none", "chat"}
  /\ pc[t] \in {"lock", "send"} => job[t] # "none"
  /\ pc[t] = "syncPlayers" => job[t] = "sync"
  /\ pc[t] \in {"remove", "erase"} => job[t] = "close"

\* A thread works for nobody between callbacks, and otherwise for a player of
\* its own loop, whose connection is down exactly while destroyPlayer runs.
ServesOwn(t) ==
  /\ cur[t] = 0 <=> pc[t] \in {"idle", "functors"}
  /\ cur[t] # 0 => /\ owner[cur[t]] = t
                   /\ conn[cur[t]] = IF job[t] = "close" THEN "down" ELSE "up"

\* A move goes from where the player was to where it is now.
Travel(t) ==
  /\ job[t] \in {"move", "vanish", "emerge"} => to[t] \in Coordinates /\ OnMap(to[t])
  /\ pc[t] \in {"leaveGrid", "enterGrid"} =>
       /\ from[t] \in Coordinates /\ OnMap(from[t])
       /\ to[t] = pos[cur[t]]
       /\ GetGridByPosition(from[t]) # GetGridByPosition(to[t])

\* A loop that runs functors has as many left as it took and did not run yet.
BatchLeft(t) ==
  /\ pc[t] = "functors" => batch[t] >= 1
  /\ pc[t] = "functors" => batch[t] <= Len(pending[t])

Control ==
  \A t \in IoThreads : PartAt(t) /\ ServesOwn(t) /\ Travel(t) /\ BatchLeft(t)

\* The players created so far, and nobody else, have a loop, a connection and
\* a place on the map.
Created ==
  \A p \in Pids :
    IF p < global_player_id
    THEN /\ owner[p] \in IoThreads
         /\ conn[p] # "none"
         /\ pos[p] \in Coordinates /\ OnMap(pos[p])
    ELSE owner[p] = NoThread /\ conn[p] = "none"

\* Whether player p is registered ...
Registered(p) ==
  LET t == owner[p] IN
  IF t \in IoThreads /\ cur[t] = p THEN pc[t] # "AddPlayer" ELSE conn[p] = "up"

\* ... whether it is on the map ...
OnSomeGrid(p) ==
  LET t == owner[p] IN
  IF t \in IoThreads /\ cur[t] = p
  THEN pc[t] \notin {"AddPlayer", "AddPlayerToGrid", "enterGrid", "erase"}
  ELSE conn[p] = "up"

\* ... and in which grid.
GridOf(p) ==
  LET t == owner[p] IN
  GetGridByPosition(IF t \in IoThreads /\ cur[t] = p /\ pc[t] = "leaveGrid"
                    THEN from[t] ELSE pos[p])

Whereabouts ==
  \A p \in Pids :
    /\ p \in players_ <=> Registered(p)
    /\ \A g \in Grids : p \in grid[g] <=> (OnSomeGrid(p) /\ g = GridOf(p))

\* rw_mutex_ is held shared while grids are read and exclusively while a
\* player is being removed, never both, and by one remover at a time.
Locking ==
  /\ readers = {t \in IoThreads : pc[t] = "read"}
  /\ \A t \in IoThreads : pc[t] = "erase" <=> writer = t
  /\ writer # NoThread => readers = {}

\* A snapshot is gone when its loop is over, it holds players that exist, and
\* what was read from the grids stays registered while the lock is held.
Snapshot(t) ==
  /\ pc[t] \notin {"read", "send"} => snap[t] = {}
  /\ \A q \in snap[t] : q < global_player_id
  /\ pc[t] = "read" => snap[t] \subseteq players_

Snapshots == \A t \in IoThreads : Snapshot(t)

\* The inductive invariant: in every state between two steps, the control
\* state of the threads fixes who is registered (WorldManager::players_), who
\* is on which grid (Grid::players_) and who holds rw_mutex_.
IndInv ==
  /\ TypeOK
  /\ Control
  /\ Created
  /\ Whereabouts
  /\ Locking
  /\ Snapshots

-----------------------------------------------------------------------------
(***************************************************************************)
(* What the threads know of the network.                                   *)
(***************************************************************************)

\* A functor waits in the loop of the connection it writes to.
QueuedInLoop ==
  \A t \in IoThreads : \A i \in DOMAIN pending[t] :
    owner[pending[t][i].dest] = t

\* A client that has not been told its pid has been told nothing, and initPlayer
\* is still on its way to SyncPid in the thread of its loop: no functor can run
\* there and no other callback can write to it before.
Unannounced(p) ==
  /\ client[p].view = NoSight
  /\ client[p].heard = {}
  /\ p < global_player_id =>
       /\ cur[owner[p]] = p
       /\ pc[owner[p]] \in {"AddPlayer", "AddPlayerToGrid", "SyncPid"}

PidAnnounced == \A p \in Pids : ~client[p].synced => Unannounced(p)

\* SyncWithSurrounding finds the new player itself: its grid is still to be
\* read, or the player is in the snapshot, or its position is already noted.
FindsItself(t) ==
  LET p == cur[t] IN
  job[t] = "sync" =>
    /\ pc[t] = "read" => GetGridByPosition(pos[p]) \in toRead[t] \/ p \in snap[t]
    /\ pc[t] = "send" => p \in snap[t] \/ info[t][p] = pos[p]
    /\ pc[t] = "syncPlayers" => info[t][p] = pos[p]

\* The inductive invariant of what is sent: functors wait in the right loop, a
\* client that does not know its pid knows nothing, and a new player is among
\* the players around it.  It is inductive together with IndInv.
NetworkInv ==
  /\ QueuedInLoop
  /\ PidAnnounced
  /\ \A t \in IoThreads : FindsItself(t)

=============================================================================

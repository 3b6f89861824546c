-------------------------- MODULE OneLoopInvariant --------------------------
(***************************************************************************)
(* What clients see in every state of World when all connections are in    *)
(* one event loop: the callbacks then run one after the other, and between *)
(* two of them every client sees exactly the players around its own.       *)
(***************************************************************************)
EXTENDS WorldInvariant

OneLoop == \A t, u \in IoThreads : t = u

\* Player p is on a grid that can be seen from position a.
Near(a, p) == GetGridByPosition(pos[p]) \in GetSudokuByPosition(a)

\* All packets are for connections of the loop they are sent in.
NothingQueued == \A t \in IoThreads : pending[t] = <<>> /\ pc[t] # "functors"

\* A client that is not there yet sees nobody.
NotThere == \A p \in Pids : conn[p] = "none" => client[p].view = NoSight

\* Players no callback is working for see each other where they are, if they
\* are close enough, and nobody else.
Settled ==
  \A p, q \in Pids :
    Online(p) /\ ~Serving(p) /\ ~Serving(q) =>
      client[p].view[q] = IF Online(q) /\ Near(pos[p], q) THEN pos[q] ELSE NoPos

\* The players on the grids of a snapshot.
Around(t) == {q \in Pids : \E g \in GridsToRead(t) : q \in grid[g]}

\* A snapshot misses nobody and has nobody twice.
Exact(t) ==
  /\ pc[t] = "read" =>
       /\ toRead[t] \subseteq GridsToRead(t)
       /\ snap[t] = {q \in Pids : \E g \in GridsToRead(t) \ toRead[t] : q \in grid[g]}
  /\ pc[t] = "send" /\ job[t] # "chat" => snap[t] \subseteq Around(t)

\* Only SyncWithSurrounding collects positions.
NoInfo(t) == job[t] # "sync" => info[t] = NoSight

\* HandleCrossedGrid runs when the player is where it moved to.
Arrived(t) == job[t] \in {"vanish", "emerge"} => to[t] = pos[cur[t]]

\* Before SyncWithSurrounding nobody sees the new player, and it sees nobody.
Entering(t) ==
  pc[t] \in {"AddPlayer", "AddPlayerToGrid", "SyncPid"} =>
    /\ client[cur[t]].view = NoSight
    /\ \A p \in Pids : Online(p) => client[p].view[cur[t]] = NoPos

\* SyncWithSurrounding: those around it see the new player once its loop has
\* come to them, and then their positions are noted.
Syncing(t) ==
  job[t] = "sync" =>
    LET c == cur[t]
        Told(p) == /\ Online(p) /\ Near(pos[c], p)
                   /\ pc[t] = "syncPlayers" \/ (pc[t] = "send" /\ p \notin snap[t])
    IN  /\ \A p \in Pids : Online(p) =>
             client[p].view[c] = IF Told(p) THEN pos[c] ELSE NoPos
        /\ \A p \in Pids : info[t][p] = IF Told(p) THEN pos[p] ELSE NoPos
        /\ \A p \in Pids \ {c} : client[c].view[p] = NoPos

\* Whether another player and the one that moves see each other at this point
\* of UpdatePos: as before the move until HandleCrossedGrid comes to it.
Mutual(t, p) ==
  IF pc[t] \in {"leaveGrid", "enterGrid"} \/ job[t] = "vanish"
  THEN Near(from[t], p) /\ (pc[t] = "send" => Near(to[t], p) \/ p \in snap[t])
  ELSE IF job[t] = "emerge"
  THEN Near(to[t], p) /\ (Near(from[t], p) \/ (pc[t] = "send" /\ p \notin snap[t]))
  ELSE Near(pos[cur[t]], p)

\* Whether p has been told where the player of t is now.
UpToDate(t, p) ==
  \/ job[t] = "chat"
  \/ job[t] = "move" /\ pc[t] \in {"lookup", "write"}
  \/ job[t] = "move" /\ pc[t] = "send" /\ p \notin snap[t]

\* UpdatePos and WorldChat.
Playing(t) ==
  job[t] \in {"move", "chat", "vanish", "emerge"} =>
    LET c == cur[t] IN
    /\ \A p \in Pids \ {c} :
         client[c].view[p] = IF Online(p) /\ Mutual(t, p) THEN pos[p] ELSE NoPos
    /\ \A p \in Pids : Online(p) =>
         /\ client[p].view[c] # NoPos <=> (p = c \/ Mutual(t, p))
         /\ UpToDate(t, p) => client[p].view[c] \in {pos[c], NoPos}

\* destroyPlayer: the loop of Disappear takes the player off every screen.
Closing(t) ==
  job[t] = "close" =>
    LET c == cur[t] IN
    \A p \in Pids : Online(p) =>
      client[p].view[c] =
        IF /\ Near(pos[c], p)
           /\ pc[t] \in {"lookup", "lock", "read"} \/ (pc[t] = "send" /\ p \in snap[t])
        THEN pos[c] ELSE NoPos

\* Everything that the place of a thread says about screens.
View(t) ==
  /\ Exact(t) /\ NoInfo(t) /\ Arrived(t)
  /\ Entering(t) /\ Syncing(t) /\ Playing(t) /\ Closing(t)

\* The inductive invariant of what clients see, for one loop.  It is inductive
\* together with IndInv.
ViewInv ==
  /\ NothingQueued
  /\ NotThere
  /\ Settled
  /\ \A t \in IoThreads : View(t)
=============================================================================

-------------------------- MODULE MeetingInvariant --------------------------
(***************************************************************************)
(* What clients see in every state of World with any number of event      *)
(* loops, as long as no player crosses from one grid to another: for each  *)
(* pair of players, one of the two still has to look for the other, or     *)
(* each is on the other's screen, or the packet that puts it there waits   *)
(* in a loop.                                                              *)
(***************************************************************************)
EXTENDS WorldInvariant

\* No thread is taking a player to another grid.
Staying ==
  \A t \in IoThreads : /\ job[t] \notin {"vanish", "emerge"}
                       /\ pc[t] \notin {"leaveGrid", "enterGrid"}

\* The snapshot of thread t will hold player q, or does and its loop has not
\* come to q.
StillToServe(t, q) ==
  \/ pc[t] = "lock"
  \/ pc[t] = "read" /\ (GetGridByPosition(pos[q]) \in toRead[t] \/ q \in snap[t])
  \/ pc[t] = "send" /\ q \in snap[t]

\* initPlayer of p has not come to q.
StillToMeet(p, q) ==
  LET t == owner[p] IN
  /\ cur[t] = p
  /\ \/ pc[t] \in {"AddPlayer", "AddPlayerToGrid", "SyncPid"}
     \/ job[t] = "sync" /\ StillToServe(t, q)

\* UpdatePos of q has not told p.
StillToTell(q, p) ==
  LET t == owner[q] IN
  cur[t] = q /\ job[t] = "move" /\ (pc[t] = "write" \/ StillToServe(t, p))

\* The functors queued for p that say where q is.
AboutPlayer(p, q, f) == f.dest = p /\ f.packet.pid = q /\ f.packet.type # "TALK"

Coming(p, q) ==
  {i \in DOMAIN pending[owner[p]] : AboutPlayer(p, q, pending[owner[p]][i])}

Packet(p, i) == pending[owner[p]][i].packet

\* What is queued for p about q comes from another thread, and q has not left.
FromElsewhere(p, q) ==
  \A i \in Coming(p, q) :
    /\ owner[p] # owner[q]
    /\ Packet(p, i).type \in {"POS", "MOVE"}
    /\ Packet(p, i).p # NoPos

\* The last packet queued about q has the position of q.
LastIsCurrent(p, q) ==
  \A i \in Coming(p, q) :
    (\A j \in Coming(p, q) : j <= i) => Packet(p, i).p = pos[q]

\* The first packet queued about q makes it appear.
FirstIsPos(p, q) ==
  \E i \in Coming(p, q) :
    Packet(p, i).type = "POS" /\ \A j \in Coming(p, q) : i <= j

\* Where the client of p shows q before it gets what is queued: while initPlayer
\* collects positions for SYNC_PLAYERS, they are the ones that count.
Shown(p, q) ==
  LET t == owner[p] IN
  IF cur[t] = p /\ job[t] = "sync" THEN info[t][q] ELSE client[p].view[q]

\* initPlayer of neither has to come to the other any more.
Met(p, q) == ~StillToMeet(p, q) /\ ~StillToMeet(q, p)

\* What p is shown of q.  Nothing about q is queued before q has met p; once they
\* have met, q is shown or the first packet makes it appear; unless q still has
\* a new position to tell, the last packet has its position, and without any
\* packet the position shown is right.
Meeting(p, q) ==
  /\ FromElsewhere(p, q)
  /\ StillToMeet(q, p) => Coming(p, q) = {}
  /\ Met(p, q) => Shown(p, q) # NoPos \/ FirstIsPos(p, q)
  /\ ~StillToTell(q, p) => LastIsCurrent(p, q)
  /\ Met(p, q) /\ ~StillToTell(q, p) /\ Coming(p, q) = {} => Shown(p, q) = pos[q]

\* The packets in the queues are about players that exist.
QueuedPids ==
  \A t \in IoThreads : \A i \in DOMAIN pending[t] :
    pending[t][i].packet.pid < global_player_id

\* initPlayer has not put the player on the map.
Arriving(p) ==
  /\ Online(p)
  /\ cur[owner[p]] = p
  /\ pc[owner[p]] \in {"AddPlayer", "AddPlayerToGrid"}

\* A player that is not on the map is in no snapshot but the one of WorldChat,
\* so that nothing about others is queued for it.
Unseen(p) ==
  /\ \A q \in Pids : Coming(p, q) = {}
  /\ \A t \in IoThreads : job[t] # "chat" => p \notin snap[t]

AllUnseen == \A p \in Pids : Arriving(p) => Unseen(p)

AllMeet ==
  \A p, q \in Pids :
    Online(p) /\ Online(q) /\ Visible(p, q) => Meeting(p, q)

\* The inductive invariant of what clients see without crossings, for any number
\* of loops.  It is inductive together with IndInv and QueuedInLoop as long as
\* Staying holds.
MeetingInv == QueuedPids /\ AllUnseen /\ AllMeet

-----------------------------------------------------------------------------

\* All positions clients ask for are in the grid where players start.
NoCrossing ==
  \A a \in SpawnPositions \cup Positions, b \in Positions :
    GetGridByPosition(a) = GetGridByPosition(b)

\* Then players stay there.
Confined ==
  /\ \A p \in Pids : p < global_player_id => pos[p] \in SpawnPositions \cup Positions
  /\ \A t \in IoThreads : job[t] = "move" => to[t] \in Positions
  /\ Staying
=============================================================================

---------------------------- MODULE MeetingProofs ----------------------------
(***************************************************************************)
(* Proofs about what clients see with any number of event loops, as long   *)
(* as no player crosses from one grid to another, for every number of      *)
(* players and requests and every size of the map.                         *)
(***************************************************************************)
EXTENDS WorldNetworkProofs, MeetingInvariant

USE PlayersAssumption, MarkersAssumption

-----------------------------------------------------------------------------
(***************************************************************************)
(* Queues.                                                                 *)
(***************************************************************************)

\* A step leaves what is queued for p about q as it is.
SameQueue(p, q) ==
  /\ Coming(p, q)' = Coming(p, q)
  /\ \A i \in Coming(p, q) : Packet(p, i)' = Packet(p, i)

\* It does when it leaves the queue alone ...
LEMMA QueueKept ==
  ASSUME NEW p \in Pids, NEW q \in Pids,
         pending'[owner[p]] = pending[owner[p]], owner'[p] = owner[p]
  PROVE  SameQueue(p, q)
BY DEF SameQueue, Coming, Packet

\* ... when it sends to another player, or about another one, or talk ...
LEMMA QueueGrown ==
  ASSUME TypeOK, NEW p \in Pids, NEW q \in Pids, NEW r \in Pids, NEW m \in Packets,
         NEW t \in IoThreads, owner[p] \in IoThreads, owner' = owner,
         pending' = SendLater(t, r, m),
         ~AboutPlayer(p, q, [dest |-> r, packet |-> m])
  PROVE  SameQueue(p, q)
<1> DEFINE f == [dest |-> r, packet |-> m]
           s == pending[owner[p]]
<1>1. CASE owner[r] = owner[p] /\ owner[r] # t
  <2>1. s \in Seq(Functors) /\ f \in Functors
    BY DEF TypeOK, Functors
  <2>2. pending'[owner[p]] = Append(s, f)
    BY <1>1 DEF SendLater, TypeOK
  <2> HIDE DEF s, f
  <2>3. /\ DOMAIN Append(s, f) = DOMAIN s \cup {Len(s) + 1}
        /\ Len(s) + 1 \notin DOMAIN s
        /\ \A i \in DOMAIN s : Append(s, f)[i] = s[i]
        /\ Append(s, f)[Len(s) + 1] = f
    BY <2>1, AppendProperties
  <2>4. ~AboutPlayer(p, q, f)
    BY DEF f
  <2> QED
    BY <2>2, <2>3, <2>4 DEF SameQueue, Coming, Packet, s
<1>2. CASE ~(owner[r] = owner[p] /\ owner[r] # t)
  <2>1. pending'[owner[p]] = pending[owner[p]]
    BY <1>2 DEF SendLater, TypeOK
  <2> QED
    BY <2>1, QueueKept
<1> QED
  BY <1>1, <1>2

\* ... and a packet about a player that another thread sends comes last.
LEMMA QueueEnd ==
  ASSUME TypeOK, NEW r \in Pids, NEW m \in Packets, m.type # "TALK",
         NEW t \in IoThreads, owner[r] \in IoThreads, owner[r] # t, owner' = owner,
         pending' = SendLater(t, r, m)
  PROVE  \E n \in Nat :
           /\ Coming(r, m.pid)' = Coming(r, m.pid) \cup {n}
           /\ \A i \in Coming(r, m.pid) : i \in Nat /\ i < n
           /\ \A i \in Coming(r, m.pid) : Packet(r, i)' = Packet(r, i)
           /\ Packet(r, n)' = m
<1> DEFINE f == [dest |-> r, packet |-> m]
           s == pending[owner[r]]
           n == Len(s) + 1
<1>1. s \in Seq(Functors) /\ f \in Functors
  BY DEF TypeOK, Functors
<1>2. pending'[owner[r]] = Append(s, f)
  BY DEF SendLater, TypeOK
<1> HIDE DEF s, f
<1>3. /\ DOMAIN Append(s, f) = DOMAIN s \cup {n}
      /\ n \in Nat
      /\ \A i \in DOMAIN s : i \in Nat /\ i < n
      /\ \A i \in DOMAIN s : Append(s, f)[i] = s[i]
      /\ Append(s, f)[n] = f
  BY <1>1, AppendProperties
<1>4. AboutPlayer(r, m.pid, f) /\ f.packet = m
  BY DEF f, AboutPlayer
<1> HIDE DEF n
<1>5. /\ Coming(r, m.pid)' = Coming(r, m.pid) \cup {n}
      /\ \A i \in Coming(r, m.pid) : i \in DOMAIN s
  BY <1>2, <1>3, <1>4 DEF Coming, s
<1> QED
  BY <1>2, <1>3, <1>4, <1>5 DEF Packet, s

-----------------------------------------------------------------------------
(***************************************************************************)
(* Two players, one step.                                                  *)
(***************************************************************************)

\* A player that is connected has a loop and a place.
LEMMA Connected ==
  ASSUME IndInv, NEW p \in Pids, Online(p)
  PROVE  /\ p < global_player_id /\ owner[p] \in IoThreads
         /\ pos[p] \in Coordinates /\ OnMap(pos[p]) /\ pos[p] # NoPos
<1>1. p < global_player_id
  BY DEF IndInv, Created, Online
<1> QED
  BY <1>1 DEF IndInv, Created

\* A step changes nothing of what a player in another loop has still to do.
LEMMA Elsewhere ==
  ASSUME IndInv, NEW w \in IoThreads, Environment(w) \/ Step(w),
         NEW p \in Pids, NEW q \in Pids, Online(p), owner[p] # w, owner'[p] = owner[p],
         GetGridByPosition(pos'[q]) = GetGridByPosition(pos[q])
  PROVE  /\ StillToMeet(p, q)' <=> StillToMeet(p, q)
         /\ StillToTell(p, q)' <=> StillToTell(p, q)
         /\ client'[p].view[q] = client[p].view[q] => Shown(p, q)' = Shown(p, q)
<1>1. PICK u \in IoThreads : u = owner[p]
  BY Connected
<1>2. u # w /\ owner'[p] = u
  BY <1>1
<1>3. UNCHANGED <<pc[u], job[u], cur[u], toRead[u], snap[u], info[u]>>
  BY <1>2, LocalsOfOthers DEF IndInv
<1>4. StillToServe(u, q)' <=> StillToServe(u, q)
  BY <1>3 DEF StillToServe
<1>5. /\ StillToMeet(p, q)' <=> StillToMeet(p, q)
      /\ StillToTell(p, q)' <=> StillToTell(p, q)
  BY <1>1, <1>2, <1>3, <1>4 DEF StillToMeet, StillToTell
<1> QED
  BY <1>1, <1>2, <1>3, <1>5 DEF Shown

\* A thread has nothing to do for a player it does not work for.
LEMMA NotServed ==
  ASSUME NEW p \in Pids, NEW q \in Pids, cur[owner[p]] # p
  PROVE  /\ ~StillToMeet(p, q) /\ ~StillToTell(p, q)
         /\ Shown(p, q) = client[p].view[q]
BY DEF StillToMeet, StillToTell, Shown

\* The loop of p skips q only when q has still to look around itself, and changes
\* nothing of what p is shown.
LooksOn(p, q) ==
  /\ StillToMeet(p, q) /\ ~StillToMeet(p, q)' => StillToMeet(q, p)'
  /\ ~StillToMeet(p, q)' => Shown(p, q)' = Shown(p, q)

\* The loop of q looks for p only once, and skips it, with a new position to tell,
\* only when p has still to look around itself.
SeenBy(q, p) ==
  /\ StillToMeet(q, p)' => StillToMeet(q, p)
  /\ StillToMeet(q, p) /\ ~StillToMeet(q, p)' => StillToMeet(p, q)'
  /\ StillToTell(q, p) /\ ~StillToTell(q, p)' =>
       Coming(p, q) = {} /\ StillToMeet(p, q)'
  /\ pos'[q] = pos[q] \/ StillToTell(q, p)'

\* What p is shown of q stays right in a step that sends nothing about q to p,
\* if the thread of the step is careful about the players of its loop.
LEMMA PairKept ==
  ASSUME IndInv, NEW w \in IoThreads, Environment(w) \/ Step(w),
         NEW p \in Pids, NEW q \in Pids, Online(p), Online(q), Meeting(p, q),
         owner'[p] = owner[p], owner'[q] = owner[q],
         SameQueue(p, q), client'[p].view[q] = client[p].view[q],
         GetGridByPosition(pos'[p]) = GetGridByPosition(pos[p]),
         GetGridByPosition(pos'[q]) = GetGridByPosition(pos[q]),
         owner[p] = w => LooksOn(p, q),
         owner[q] = w => SeenBy(q, p),
         owner[q] # w => pos'[q] = pos[q]
  PROVE  Meeting(p, q)'
<1>1. LooksOn(p, q)
  BY Elsewhere DEF LooksOn
<1>2. SeenBy(q, p)
  BY Elsewhere DEF SeenBy
<1>3. /\ Met(p, q)' => Met(p, q) /\ Shown(p, q)' = Shown(p, q)
      /\ StillToTell(q, p) /\ ~StillToTell(q, p)' => Coming(p, q) = {} /\ ~Met(p, q)'
  BY <1>1, <1>2 DEF Met, LooksOn, SeenBy
<1>4. /\ Coming(p, q)' = Coming(p, q) /\ owner'[p] = owner[p] /\ owner'[q] = owner[q]
      /\ \A i \in Coming(p, q) : Packet(p, i)' = Packet(p, i)
  BY DEF SameQueue
<1>5. FromElsewhere(p, q)' /\ (FirstIsPos(p, q)' <=> FirstIsPos(p, q))
  BY <1>4 DEF Meeting, FromElsewhere, FirstIsPos
<1>6. StillToMeet(q, p)' => Coming(p, q)' = {}
  BY <1>2, <1>4 DEF Meeting, SeenBy
<1>7. Met(p, q)' => Shown(p, q)' # NoPos \/ FirstIsPos(p, q)'
  BY <1>3, <1>5 DEF Meeting
<1>8. ASSUME ~StillToTell(q, p)'
      PROVE  LastIsCurrent(p, q)'
  <2>1. pos'[q] = pos[q]
    BY <1>2, <1>8 DEF SeenBy
  <2>2. LastIsCurrent(p, q) \/ Coming(p, q) = {}
    BY <1>3, <1>8 DEF Meeting
  <2> QED
    BY <1>4, <2>1, <2>2 DEF LastIsCurrent
<1>9. ASSUME Met(p, q)', ~StillToTell(q, p)', Coming(p, q)' = {}
      PROVE  Shown(p, q)' = pos'[q]
  BY <1>2, <1>3, <1>4, <1>9 DEF Meeting, SeenBy
<1> QED
  BY <1>5, <1>6, <1>7, <1>8, <1>9 DEF Meeting

-----------------------------------------------------------------------------
(***************************************************************************)
(* Packets that wait.                                                      *)
(***************************************************************************)

\* Packets in queues stay about players that exist after a send about the player
\* the thread works for ...
LEMMA SendPids ==
  ASSUME IndInv, QueuedPids, NEW t \in IoThreads, NEW q \in Pids, NEW m \in Packets,
         m.pid < global_player_id, pending' = SendLater(t, q, m),
         global_player_id' = global_player_id
  PROVE  QueuedPids'
<1> SUFFICES ASSUME NEW u \in IoThreads, NEW i \in DOMAIN pending'[u]
             PROVE  pending'[u][i].packet.pid < global_player_id
  BY DEF QueuedPids
<1> DEFINE f == [dest |-> q, packet |-> m]
           s == pending[u]
<1>1. s \in Seq(Functors) /\ f \in Functors
  BY DEF IndInv, TypeOK, Functors
<1>2. pending'[u] = s \/ pending'[u] = Append(s, f)
  BY DEF SendLater, IndInv, TypeOK
<1>3. \A j \in DOMAIN s : s[j].packet.pid < global_player_id
  BY DEF QueuedPids
<1>4. f.packet.pid < global_player_id
  OBVIOUS
<1> HIDE DEF s, f
<1>5. /\ DOMAIN Append(s, f) = DOMAIN s \cup {Len(s) + 1}
      /\ \A j \in DOMAIN s : Append(s, f)[j] = s[j]
      /\ Append(s, f)[Len(s) + 1] = f
  BY <1>1, AppendProperties
<1> QED
  BY <1>2, <1>3, <1>4, <1>5

\* ... and after the run of a functor.
LEMMA RunPids ==
  ASSUME IndInv, QueuedPids, NEW t \in IoThreads, RunFunctor(t)
  PROVE  QueuedPids'
<1>1. pending[t] \in Seq(Functors) /\ pending[t] # <<>>
  BY DEF RunFunctor, IndInv, TypeOK, Control, BatchLeft
<1>2. /\ pending'[t] = Tail(pending[t]) /\ global_player_id' = global_player_id
      /\ \A u \in IoThreads \ {t} : pending'[u] = pending[u]
  BY DEF RunFunctor, IndInv, TypeOK, world
<1>3. /\ Len(pending[t]) \in Nat /\ DOMAIN pending[t] = 1 .. Len(pending[t])
      /\ DOMAIN Tail(pending[t]) = 1 .. Len(pending[t]) - 1
      /\ \A i \in 1 .. Len(pending[t]) - 1 : Tail(pending[t])[i] = pending[t][i + 1]
  BY <1>1, HeadTailProperties
<1>4. ASSUME NEW i \in DOMAIN Tail(pending[t])
      PROVE  Tail(pending[t])[i].packet.pid < global_player_id
  <2>1. i + 1 \in DOMAIN pending[t] /\ Tail(pending[t])[i] = pending[t][i + 1]
    BY <1>3
  <2> QED
    BY <2>1 DEF QueuedPids
<1> QED
  BY <1>2, <1>4 DEF QueuedPids

\* The packet of a step of a loop over a snapshot, without crossings.
LEMMA SentPacket ==
  ASSUME IndInv, Staying, NEW t \in IoThreads, NEW q \in snap[t],
         \/ SendSync(t, q) \/ SendVanish(t, q) \/ SendEmerge(t, q)
         \/ SendMove(t, q) \/ SendTalk(t, q) \/ SendLeave(t, q)
  PROVE  /\ UNCHANGED <<world, pc, job, cur, to, toRead>>
         /\ snap' = [snap EXCEPT ![t] = @ \ {q}]
         /\ q \in Pids /\ q < global_player_id
         /\ pc[t] = "send" /\ cur[t] \in Pids /\ cur[t] < global_player_id
         /\ owner[cur[t]] = t /\ pos[cur[t]] \in Coordinates
         /\ \E m \in {Pos(cur[t], pos[cur[t]]), Move(cur[t], pos[cur[t]]),
                      Leave(cur[t]), Talk(cur[t])} :
              /\ m \in Packets /\ m.pid = cur[t]
              /\ m.type = "POS" => job[t] = "sync"
              /\ m.type = "MOVE" => job[t] = "move"
              /\ m.type = "LEAVE" => job[t] = "close"
              /\ m.type = "TALK" => job[t] = "chat"
              /\ SendPacket(t, q, m)
<1>1. q \in Pids /\ q < global_player_id
  BY DEF IndInv, TypeOK, Snapshots, Snapshot
<1>2. UNCHANGED <<world, pc, job, cur, to, toRead>> /\ pc[t] = "send"
      /\ snap' = [snap EXCEPT ![t] = @ \ {q}]
  BY DEF SendSync, SendVanish, SendEmerge, SendMove, SendTalk, SendLeave, Sending
<1>3. /\ cur[t] \in Pids /\ cur[t] < global_player_id /\ owner[cur[t]] = t
      /\ pos[cur[t]] \in Coordinates
  BY <1>2, ServedPlayer
<1>4. job[t] \notin {"vanish", "emerge"}
  BY DEF Staying
<1>5. \E m \in {Pos(cur[t], pos[cur[t]]), Move(cur[t], pos[cur[t]]),
                Leave(cur[t]), Talk(cur[t])} :
         /\ m \in Packets /\ m.pid = cur[t]
         /\ m.type = "POS" => job[t] = "sync"
         /\ m.type = "MOVE" => job[t] = "move"
         /\ m.type = "LEAVE" => job[t] = "close"
         /\ m.type = "TALK" => job[t] = "chat"
         /\ SendPacket(t, q, m)
  <2>1. CASE SendSync(t, q)
    BY <1>3, <2>1, PacketType DEF SendSync, Sending, Pos
  <2>2. CASE SendMove(t, q)
    BY <1>3, <2>2, PacketType DEF SendMove, Sending, Move
  <2>3. CASE SendTalk(t, q)
    BY <1>3, <2>3, PacketType DEF SendTalk, Sending, Talk
  <2>4. CASE SendLeave(t, q)
    BY <1>3, <2>4, PacketType DEF SendLeave, Sending, Leave
  <2>5. ~SendVanish(t, q) /\ ~SendEmerge(t, q)
    BY <1>4 DEF SendVanish, SendEmerge, Sending
  <2> QED
    BY <2>1, <2>2, <2>3, <2>4, <2>5
<1> QED
  BY <1>1, <1>2, <1>3, <1>5

\* Packets in queues stay about players that exist in every step.
LEMMA PidsStep ==
  ASSUME IndInv, Staying, QueuedPids, [Next]_vars
  PROVE  QueuedPids'
<1> USE DEF lock, locals, network
<1>1. ASSUME pending' = pending, global_player_id' >= global_player_id,
             global_player_id' \in Nat
      PROVE  QueuedPids'
  <2>1. \A t \in IoThreads : \A i \in DOMAIN pending[t] : pending[t][i].packet.pid \in Nat
    <3>1. ASSUME NEW t \in IoThreads, NEW i \in DOMAIN pending[t]
          PROVE  pending[t][i].packet.pid \in Nat
      <4>1. pending[t] \in Seq(Functors)
        BY DEF IndInv, TypeOK
      <4>2. pending[t][i] \in Functors
        BY <4>1
      <4> QED
        BY <4>2 DEF Functors, Packets, Pids
    <3> QED
      BY <3>1
  <2>2. global_player_id \in Nat
    BY DEF IndInv, TypeOK
  <2> QED
    BY <1>1, <2>1, <2>2 DEF QueuedPids
<1>2. global_player_id \in Nat
  BY DEF IndInv, TypeOK
<1>3. ASSUME NEW t \in IoThreads, NEW q \in snap[t],
             \/ SendSync(t, q) \/ SendVanish(t, q) \/ SendEmerge(t, q)
             \/ SendMove(t, q) \/ SendTalk(t, q) \/ SendLeave(t, q)
      PROVE  QueuedPids'
  <2>1. /\ global_player_id' = global_player_id /\ q \in Pids
        /\ \E m \in Packets : /\ m.pid < global_player_id
                              /\ pending' = SendLater(t, q, m)
    BY <1>3, SentPacket DEF SendPacket, world
  <2> QED
    BY <2>1, SendPids
<1>4. ASSUME NEW t \in IoThreads, Environment(t)
      PROVE  QueuedPids'
  <2>1. pending' = pending /\ global_player_id' \in {global_player_id, global_player_id + 1}
    BY <1>4 DEF Environment, CreateNewPlayer, RequestMove, RequestChat, Disconnect, Serve
  <2> QED
    BY <1>1, <1>2, <2>1
<1>5. ASSUME NEW t \in IoThreads, RunFunctor(t)
      PROVE  QueuedPids'
  BY <1>5, RunPids
<1>6. ASSUME NEW t \in IoThreads,
             \/ AddPlayer(t) \/ AddPlayerToGrid(t) \/ SyncPid(t)
             \/ GetPlayerByPid(t) \/ UpdatePos(t) \/ LeaveGrid(t) \/ EnterGrid(t)
             \/ LockShared(t) \/ ReadGrid(t) \/ UnlockShared(t) \/ GetAllPlayers(t)
      PROVE  QueuedPids'
  <2>1. pending' = pending /\ global_player_id' = global_player_id
    BY <1>6 DEF AddPlayer, AddPlayerToGrid, SyncPid, GetPlayerByPid, UpdatePos,
                LeaveGrid, EnterGrid, LockShared, ReadGrid, UnlockShared, GetAllPlayers, world
  <2> QED
    BY <1>1, <1>2, <2>1
<1>7. ASSUME NEW t \in IoThreads,
             \/ NextPart(t) \/ SendSyncPlayers(t)
             \/ RemovePlayerFromGrid(t) \/ ErasePlayer(t) \/ TakeFunctors(t)
      PROVE  QueuedPids'
  <2>1. pending' = pending /\ global_player_id' = global_player_id
    BY <1>7 DEF NextPart, SendSyncPlayers, RemovePlayerFromGrid, ErasePlayer, TakeFunctors, world
  <2> QED
    BY <1>1, <1>2, <2>1
<1>8. CASE UNCHANGED vars
  BY <1>1, <1>2, <1>8 DEF vars, world
<1> QED
  BY <1>3, <1>4, <1>5, <1>6, <1>7, <1>8 DEF Next, Step, Polling

-----------------------------------------------------------------------------
(***************************************************************************)
(* Players that are not on the map yet.                                    *)
(***************************************************************************)

\* They stay unseen in a step that queues nothing about others for them and
\* takes none of them into a snapshot, unless it is the one of WorldChat.
LEMMA UnseenKept ==
  ASSUME IndInv, AllUnseen, owner' = owner,
         \A p \in Pids : Online(p)' => Online(p),
         \A t \in IoThreads : pc'[t] \in {"AddPlayer", "AddPlayerToGrid"} =>
           pc[t] \in {"AddPlayer", "AddPlayerToGrid"} /\ cur'[t] = cur[t],
         \A p, q \in Pids : Arriving(p) => Coming(p, q)' \subseteq Coming(p, q),
         \A p \in Pids, t \in IoThreads :
           Arriving(p) /\ job'[t] # "chat" => p \notin snap'[t]
  PROVE  AllUnseen'
<1> SUFFICES ASSUME NEW p \in Pids, Arriving(p)'
             PROVE  Unseen(p)'
  BY DEF AllUnseen
<1>1. Online(p) /\ owner[p] \in IoThreads
  BY Connected DEF Arriving, Online
<1>2. Arriving(p)
  BY <1>1 DEF Arriving
<1> QED
  BY <1>2 DEF AllUnseen, Unseen

\* A snapshot does not change where it holds nobody or only whom it held.
LEMMA NoneAdded ==
  ASSUME IndInv, AllUnseen,
         \A t \in IoThreads : snap'[t] = {} \/ (snap'[t] \subseteq snap[t] /\ job'[t] = job[t])
  PROVE  \A p \in Pids, t \in IoThreads :
           Arriving(p) /\ job'[t] # "chat" => p \notin snap'[t]
BY DEF AllUnseen, Unseen

\* A loop that runs a functor has fewer of them.
LEMMA RunComing ==
  ASSUME IndInv, NEW t \in IoThreads, RunFunctor(t), NEW p \in Pids, NEW q \in Pids
  PROVE  /\ owner[p] # t => SameQueue(p, q)
         /\ owner[p] = t =>
              /\ Coming(p, q)' = {i \in Nat \ {0} : i + 1 \in Coming(p, q)}
              /\ \A i \in Coming(p, q)' : Packet(p, i)' = Packet(p, i + 1)
              /\ \A i \in Coming(p, q) : i \in Nat \ {0}
              /\ 1 \in Coming(p, q) <=> AboutPlayer(p, q, Head(pending[t]))
              /\ 1 \in Coming(p, q) => Packet(p, 1) = Head(pending[t]).packet
<1>1. pending[t] \in Seq(Functors) /\ pending[t] # <<>>
  BY DEF RunFunctor, IndInv, TypeOK, Control, BatchLeft
<1>2. /\ pending'[t] = Tail(pending[t]) /\ owner' = owner
      /\ \A u \in IoThreads \ {t} : pending'[u] = pending[u]
  BY DEF RunFunctor, IndInv, TypeOK, world
<1>3. CASE owner[p] # t
  <2>1. pending'[owner[p]] = pending[owner[p]]
    BY <1>2, <1>3 DEF RunFunctor, IndInv, TypeOK
  <2> QED
    BY <1>2, <1>3, <2>1, QueueKept
<1>4. CASE owner[p] = t
  <2> DEFINE s == pending[t]
  <2>1. /\ Len(s) \in Nat \ {0} /\ DOMAIN s = 1 .. Len(s) /\ s[1] = Head(s)
        /\ DOMAIN Tail(s) = 1 .. Len(s) - 1
        /\ \A i \in 1 .. Len(s) - 1 : Tail(s)[i] = s[i + 1]
    BY <1>1, HeadTailProperties
  <2>2. /\ Coming(p, q) = {i \in DOMAIN s : AboutPlayer(p, q, s[i])}
        /\ Coming(p, q)' = {i \in DOMAIN Tail(s) : AboutPlayer(p, q, Tail(s)[i])}
        /\ \A i : Packet(p, i) = s[i].packet
        /\ \A i : Packet(p, i)' = Tail(s)[i].packet
    BY <1>2, <1>4 DEF Coming, Packet
  <2> HIDE DEF s
  <2>3. DOMAIN Tail(s) = {i \in Nat \ {0} : i + 1 \in DOMAIN s}
    BY <2>1
  <2>4. /\ Coming(p, q)' = {i \in Nat \ {0} : i + 1 \in Coming(p, q)}
        /\ \A i \in Coming(p, q)' : Packet(p, i)' = Packet(p, i + 1)
    BY <2>1, <2>2, <2>3
  <2>5. /\ \A i \in Coming(p, q) : i \in Nat \ {0}
        /\ 1 \in Coming(p, q) <=> AboutPlayer(p, q, Head(s))
        /\ 1 \in Coming(p, q) => Packet(p, 1) = Head(s).packet
    BY <2>1, <2>2
  <2> QED
    BY <1>4, <2>4, <2>5 DEF s
<1> QED
  BY <1>3, <1>4

\* Others learn of a player only once it is on the map.
LEMMA UnseenStep ==
  ASSUME IndInv, QueuedInLoop, Staying, AllUnseen, [Next]_vars
  PROVE  AllUnseen'
<1> USE DEF Goto, Begin, Return, lock, locals, network
<1> DEFINE Early == {"AddPlayer", "AddPlayerToGrid"}
<1>0. /\ TypeOK
      /\ \A t \in IoThreads : pc[t] \notin {"read", "send"} => snap[t] = {}
  BY DEF IndInv, Snapshots, Snapshot
<1>1. ASSUME owner' = owner, pending' = pending
      PROVE  \A p, q \in Pids : Arriving(p) => Coming(p, q)' \subseteq Coming(p, q)
  BY <1>1 DEF Coming
<1>2. ASSUME NEW t \in IoThreads, NEW at \in SpawnPositions, CreateNewPlayer(t, at)
      PROVE  AllUnseen'
  <2>0. PICK n \in Pids : n = global_player_id
    BY <1>2 DEF CreateNewPlayer
  <2>1. /\ UNCHANGED <<job, snap, pending>> /\ pc[t] = "idle"
        /\ \A p \in Pids \ {n} : owner'[p] = owner[p] /\ conn'[p] = conn[p]
        /\ \A u \in IoThreads \ {t} : pc'[u] = pc[u] /\ cur'[u] = cur[u]
        /\ cur'[t] = n /\ owner'[n] = t
    BY <1>0, <1>2, <2>0 DEF CreateNewPlayer, TypeOK
  <2>2. owner[n] = NoThread /\ \A u \in IoThreads : n \notin snap[u]
    BY <2>0 DEF IndInv, Created, Snapshots, Snapshot, Pids
  <2>3. ASSUME NEW u \in IoThreads, NEW i \in DOMAIN pending[u]
        PROVE  pending[u][i].dest # n
    BY <2>2 DEF QueuedInLoop
  <2>4. Unseen(n)'
    BY <2>1, <2>2, <2>3 DEF Unseen, Coming, AboutPlayer
  <2>5. ASSUME NEW p \in Pids \ {n}, Arriving(p)'
        PROVE  Unseen(p)'
    <3>1. Online(p) /\ owner[p] \in IoThreads
      BY <2>1, <2>5, Connected DEF Arriving, Online
    <3>2. Arriving(p)
      BY <2>1, <2>5, <3>1 DEF Arriving
    <3> QED
      BY <2>1, <3>2 DEF AllUnseen, Unseen, Coming
  <2> QED
    BY <2>4, <2>5 DEF AllUnseen
<1>3. ASSUME NEW t \in IoThreads, NEW p \in Pids, NEW kind \in Kinds, Serve(t, p, kind),
             conn' = conn \/ conn' = [conn EXCEPT ![p] = "down"]
      PROVE  AllUnseen'
  <2>1. /\ owner' = owner /\ pending' = pending /\ snap' = snap
        /\ \A r \in Pids : Online(r)' => Online(r)
        /\ \A u \in IoThreads : pc'[u] \in Early => pc[u] \in Early /\ cur'[u] = cur[u]
        /\ \A u \in IoThreads \ {t} : job'[u] = job[u]
        /\ snap[t] = {}
    BY <1>0, <1>3 DEF Serve, TypeOK, Online
  <2>2. ASSUME NEW u \in IoThreads
        PROVE  snap'[u] = {} \/ (snap'[u] \subseteq snap[u] /\ job'[u] = job[u])
    <3>1. CASE u = t
      BY <2>1, <3>1
    <3>2. CASE u # t
      BY <2>1, <3>2
    <3> QED
      BY <3>1, <3>2
  <2> QED
    BY <1>1, <2>1, <2>2, UnseenKept, NoneAdded
<1>4. ASSUME NEW t \in IoThreads,
             \/ AddPlayer(t) \/ AddPlayerToGrid(t) \/ GetPlayerByPid(t) \/ UpdatePos(t)
             \/ LockShared(t) \/ UnlockShared(t) \/ RemovePlayerFromGrid(t)
             \/ TakeFunctors(t)
      PROVE  AllUnseen'
  <2>1. UNCHANGED <<owner, conn, pending, snap, job, cur>>
    BY <1>4 DEF AddPlayer, AddPlayerToGrid, GetPlayerByPid, UpdatePos, LockShared,
                UnlockShared, RemovePlayerFromGrid, TakeFunctors, world
  <2>2. \A u \in IoThreads : pc'[u] \in Early => pc[u] \in Early
    BY <1>0, <1>4 DEF AddPlayer, AddPlayerToGrid, GetPlayerByPid, UpdatePos, LockShared,
                      UnlockShared, RemovePlayerFromGrid, TakeFunctors, TypeOK
  <2>3. \A r \in Pids : Online(r)' => Online(r)
    BY <2>1 DEF Online
  <2> QED
    BY <1>1, <2>1, <2>2, <2>3, UnseenKept, NoneAdded
<1>5. ASSUME NEW t \in IoThreads,
             SyncPid(t) \/ NextPart(t) \/ SendSyncPlayers(t) \/ ErasePlayer(t)
      PROVE  AllUnseen'
  <2>1. UNCHANGED <<owner, conn, pending, snap>> /\ snap[t] = {}
    BY <1>0, <1>5 DEF SyncPid, NextPart, SendSyncPlayers, ErasePlayer, world
  <2>2. /\ \A u \in IoThreads \ {t} : pc'[u] = pc[u] /\ cur'[u] = cur[u] /\ job'[u] = job[u]
        /\ pc'[t] \notin Early
    BY <1>0, <1>5 DEF SyncPid, NextPart, SendSyncPlayers, ErasePlayer, TypeOK
  <2>3. \A r \in Pids : Online(r)' => Online(r)
    BY <2>1 DEF Online
  <2>4. ASSUME NEW u \in IoThreads
        PROVE  snap'[u] = {} \/ (snap'[u] \subseteq snap[u] /\ job'[u] = job[u])
    <3>1. CASE u = t
      BY <2>1, <3>1
    <3>2. CASE u # t
      BY <2>1, <2>2, <3>2
    <3> QED
      BY <3>1, <3>2
  <2> QED
    BY <1>1, <2>1, <2>2, <2>3, <2>4, UnseenKept, NoneAdded
<1>6. ASSUME NEW t \in IoThreads, ReadGrid(t)
      PROVE  AllUnseen'
  <2>1. PICK g \in toRead[t] : snap' = [snap EXCEPT ![t] = @ \cup grid[g]]
    BY <1>6 DEF ReadGrid
  <2>2. UNCHANGED <<owner, conn, pending, pc, cur, job>> /\ g \in Grids
    BY <1>0, <1>6 DEF ReadGrid, world, TypeOK
  <2>3. ASSUME NEW p \in Pids, Arriving(p)
        PROVE  p \notin grid[g]
    <3>1. owner[p] \in IoThreads
      BY <2>3, Connected DEF Arriving
    <3> QED
      BY <2>2, <2>3, <3>1 DEF IndInv, Whereabouts, OnSomeGrid, Arriving
  <2>4. \A p \in Pids, u \in IoThreads : Arriving(p) /\ job'[u] # "chat" => p \notin snap'[u]
    BY <1>0, <2>1, <2>2, <2>3 DEF AllUnseen, Unseen, TypeOK
  <2>5. \A r \in Pids : Online(r)' => Online(r)
    BY <2>2 DEF Online
  <2> QED
    BY <1>1, <2>2, <2>4, <2>5, UnseenKept
<1>7. ASSUME NEW t \in IoThreads, GetAllPlayers(t)
      PROVE  AllUnseen'
  <2>1. /\ UNCHANGED <<owner, conn, pending, cur, job>> /\ job[t] = "chat"
        /\ snap' = [snap EXCEPT ![t] = players_] /\ pc' = [pc EXCEPT ![t] = "send"]
    BY <1>7 DEF GetAllPlayers, world
  <2>2. \A p \in Pids, u \in IoThreads : Arriving(p) /\ job'[u] # "chat" => p \notin snap'[u]
    BY <1>0, <2>1 DEF AllUnseen, Unseen, TypeOK
  <2>3. /\ \A r \in Pids : Online(r)' => Online(r)
        /\ \A u \in IoThreads : pc'[u] \in Early => pc[u] \in Early
    BY <1>0, <2>1 DEF Online, TypeOK
  <2> QED
    BY <1>1, <2>1, <2>2, <2>3, UnseenKept
<1>8. ASSUME NEW t \in IoThreads, NEW r \in snap[t],
             \/ SendSync(t, r) \/ SendVanish(t, r) \/ SendEmerge(t, r)
             \/ SendMove(t, r) \/ SendTalk(t, r) \/ SendLeave(t, r)
      PROVE  AllUnseen'
  <2>1. PICK m \in {Pos(cur[t], pos[cur[t]]), Move(cur[t], pos[cur[t]]),
                    Leave(cur[t]), Talk(cur[t])} :
          /\ m \in Packets /\ (m.type = "TALK" => job[t] = "chat")
          /\ (m.type = "POS" => job[t] = "sync") /\ (m.type = "MOVE" => job[t] = "move")
          /\ (m.type = "LEAVE" => job[t] = "close")
          /\ SendPacket(t, r, m)
    BY <1>8, SentPacket
  <2>2. /\ UNCHANGED <<owner, conn, pc, cur, job>> /\ r \in Pids
        /\ snap' = [snap EXCEPT ![t] = @ \ {r}]
    BY <1>8, SentPacket DEF world
  <2>3. m.type \in {"POS", "MOVE", "LEAVE", "TALK"} /\ pending' = SendLater(t, r, m)
    BY <2>1 DEF Packets, SendPacket
  <2>4. ASSUME NEW p \in Pids, NEW q \in Pids, Arriving(p)
        PROVE  Coming(p, q)' \subseteq Coming(p, q)
    <3>1. job[t] # "chat" => r # p
      BY <2>4 DEF AllUnseen, Unseen
    <3>2. ~AboutPlayer(p, q, [dest |-> r, packet |-> m])
      BY <2>1, <2>3, <3>1 DEF AboutPlayer
    <3>3. owner[p] \in IoThreads
      BY <2>4, Connected DEF Arriving
    <3>4. SameQueue(p, q)
      BY <1>0, <2>1, <2>2, <2>3, <3>2, <3>3, QueueGrown
    <3> QED
      BY <3>4 DEF SameQueue
  <2>5. /\ \A p \in Pids : Online(p)' => Online(p)
        /\ \A u \in IoThreads : snap'[u] \subseteq snap[u] /\ job'[u] = job[u]
    BY <1>0, <2>2 DEF Online, TypeOK
  <2> QED
    BY <2>2, <2>4, <2>5, UnseenKept, NoneAdded
<1>9. ASSUME NEW t \in IoThreads, RunFunctor(t)
      PROVE  AllUnseen'
  <2>1. UNCHANGED <<owner, conn, cur, job, snap>> /\ pc[t] = "functors"
    BY <1>9 DEF RunFunctor, world
  <2>2. /\ \A p \in Pids : Online(p)' => Online(p)
        /\ \A u \in IoThreads : pc'[u] \in Early => pc[u] \in Early
    BY <1>0, <1>9, <2>1 DEF Online, RunFunctor, TypeOK
  <2>3. ASSUME NEW p \in Pids, NEW q \in Pids, Arriving(p)
        PROVE  Coming(p, q)' \subseteq Coming(p, q)
    <3>1. owner[p] # t
      BY <2>1, <2>3 DEF Arriving
    <3> QED
      BY <1>9, <3>1, RunComing DEF SameQueue
  <2> QED
    BY <2>1, <2>2, <2>3, UnseenKept, NoneAdded
<1>10. ASSUME NEW t \in IoThreads, LeaveGrid(t) \/ EnterGrid(t)
       PROVE  AllUnseen'
  BY <1>10 DEF LeaveGrid, EnterGrid, Staying
<1>11. CASE UNCHANGED vars
  <2>1. UNCHANGED <<owner, conn, pc, pending, snap, job, cur>>
    BY <1>11 DEF vars, world
  <2> QED
    BY <1>1, <2>1, UnseenKept, NoneAdded DEF Online
<1>12. ASSUME NEW t \in IoThreads, Environment(t)
       PROVE  AllUnseen'
  <2>1. ASSUME NEW p \in Pids, NEW at \in Positions, RequestMove(t, p, at)
        PROVE  AllUnseen'
    BY <1>3, <2>1 DEF RequestMove, Kinds
  <2>2. ASSUME NEW p \in Pids, RequestChat(t, p)
        PROVE  AllUnseen'
    BY <1>3, <2>2 DEF RequestChat, Kinds
  <2>3. ASSUME NEW p \in Pids, Disconnect(t, p)
        PROVE  AllUnseen'
    BY <1>3, <2>3 DEF Disconnect, Kinds
  <2> QED
    BY <1>2, <1>12, <2>1, <2>2, <2>3 DEF Environment
<1> QED
  BY <1>4, <1>5, <1>6, <1>7, <1>8, <1>9, <1>10, <1>11, <1>12 DEF Next, Step, Polling

-----------------------------------------------------------------------------
(***************************************************************************)
(* Steps that send nothing.                                                *)
(***************************************************************************)

\* Players that see each other stay so while nobody crosses.
LEMMA AllPairs ==
  ASSUME IndInv,
         \A p \in Pids : Online(p)' =>
           Online(p) /\ GetGridByPosition(pos'[p]) = GetGridByPosition(pos[p]),
         \A p, q \in Pids :
           /\ Online(p) /\ Online(q) /\ Visible(p, q) /\ Visible(q, p)
           /\ Online(p)' /\ Online(q)'
           => Meeting(p, q)'
  PROVE  AllMeet'
<1> SUFFICES ASSUME NEW p \in Pids, NEW q \in Pids,
                    Online(p)', Online(q)', Visible(p, q)'
             PROVE  Meeting(p, q)'
  BY DEF AllMeet
<1>1. /\ Online(p) /\ Online(q)
      /\ GetGridByPosition(pos'[p]) = GetGridByPosition(pos[p])
      /\ GetGridByPosition(pos'[q]) = GetGridByPosition(pos[q])
  OBVIOUS
<1>2. Visible(p, q)
  BY <1>1, SudokuOfGrid DEF Visible
<1>3. Visible(q, p)
  BY <1>1, <1>2, Connected, SightIsMutual DEF Visible
<1> QED
  BY <1>1, <1>2, <1>3

\* A thread that sends nothing has to be careful about the player it works for.
LEMMA SilentStep ==
  ASSUME IndInv, AllMeet, NEW w \in IoThreads, Environment(w) \/ Step(w),
         UNCHANGED <<owner, pending>>,
         \A p, q \in Pids : client'[p].view[q] = client[p].view[q],
         \A p \in Pids : Online(p)' => Online(p),
         \A p \in Pids : p # cur[w] => pos'[p] = pos[p],
         cur'[w] \in {0, cur[w]} \/ (job'[w] # "sync" /\ pc'[w] = "lookup"),
         \A p, q \in Pids :
           /\ p = cur[w] /\ Online(p) /\ Online(q) /\ Visible(p, q) /\ Online(p)'
           => /\ GetGridByPosition(pos'[p]) = GetGridByPosition(pos[p])
              /\ LooksOn(p, q) /\ SeenBy(p, q)
  PROVE  AllMeet'

<1>2. ASSUME NEW p \in Pids, NEW q \in Pids, p # cur[w], owner[p] = w
      PROVE  LooksOn(p, q) /\ SeenBy(p, q)
  <2>1. /\ ~StillToMeet(p, q) /\ ~StillToTell(p, q)
        /\ Shown(p, q) = client[p].view[q]
    BY <1>2, NotServed
  <2>2. /\ ~StillToMeet(p, q)'
        /\ Shown(p, q)' = client'[p].view[q]
    <3>1. CASE cur'[w] # p
      BY <1>2, <3>1 DEF StillToMeet, Shown
    <3>2. CASE cur'[w] = p
      <4>1. job'[w] # "sync" /\ pc'[w] = "lookup"
        BY <1>2, <3>2 DEF Pids
      <4> QED
        BY <1>2, <4>1 DEF StillToMeet, Shown
    <3> QED
      BY <3>1, <3>2
  <2> QED
    BY <1>2, <2>1, <2>2 DEF LooksOn, SeenBy
<1>3. \A p \in Pids : Online(p)' =>
        Online(p) /\ GetGridByPosition(pos'[p]) = GetGridByPosition(pos[p])
  <2> SUFFICES ASSUME NEW p \in Pids, Online(p)'
               PROVE  GetGridByPosition(pos'[p]) = GetGridByPosition(pos[p])
    OBVIOUS
  <2>1. Visible(p, p) /\ Online(p)
    BY Connected, SudokuHasCentre DEF Visible
  <2> QED
    BY <2>1
<1> SUFFICES ASSUME NEW p \in Pids, NEW q \in Pids, Online(p), Online(q),
                    Visible(p, q), Visible(q, p), Online(p)', Online(q)'
             PROVE  Meeting(p, q)'
  BY <1>3, AllPairs
<1>4. SameQueue(p, q)
  BY QueueKept
<1>5. owner[p] = w => LooksOn(p, q)
  BY <1>2
<1>6. owner[q] = w => SeenBy(q, p)
  BY <1>2
<1>7. owner[q] # w => pos'[q] = pos[q]
  <2>1. q = cur[w] => owner[q] = w
    BY DEF IndInv, Control, ServesOwn, Pids
  <2> QED
    BY <2>1
<1>8. Meeting(p, q) /\ owner'[p] = owner[p] /\ owner'[q] = owner[q]
  BY DEF AllMeet
<1> QED
  BY <1>3, <1>4, <1>5, <1>6, <1>7, <1>8, PairKept

\* initPlayer has everyone around still to meet until the snapshot is taken.
LEMMA EnterMeet ==
  ASSUME IndInv, AllMeet, NEW w \in IoThreads,
         AddPlayer(w) \/ AddPlayerToGrid(w) \/ SyncPid(w)
  PROVE  AllMeet'
<1>1. /\ UNCHANGED <<owner, pending, pos, conn, cur>>
      /\ pc[w] \in {"AddPlayer", "AddPlayerToGrid", "SyncPid"}
      /\ \/ pc'[w] \in {"AddPlayer", "AddPlayerToGrid", "SyncPid"} /\ job'[w] = job[w]
         \/ pc'[w] = "lock" /\ job'[w] = "sync"
  BY DEF AddPlayer, AddPlayerToGrid, SyncPid, Goto, Begin, world, locals, network,
         IndInv, TypeOK
<1>2. \A p, q \in Pids : client'[p].view[q] = client[p].view[q]
  <2>1. CASE SyncPid(w)
    <3>1. cur[w] \in Pids
      BY <1>1, ServedPlayer
    <3> QED
      BY <2>1, <3>1 DEF SyncPid, IndInv, TypeOK, Clients
  <2>2. CASE AddPlayer(w) \/ AddPlayerToGrid(w)
    BY <2>2 DEF AddPlayer, AddPlayerToGrid, network
  <2> QED
    BY <2>1, <2>2
<1>3. ASSUME NEW p \in Pids, NEW q \in Pids, p = cur[w]
      PROVE  LooksOn(p, q) /\ SeenBy(p, q)
  <2>1. owner[p] = w /\ job[w] = "none"
    BY <1>1, <1>3 DEF IndInv, Control, PartAt, ServesOwn, Pids
  <2>2. StillToMeet(p, q) /\ StillToMeet(p, q)' /\ ~StillToTell(p, q)
    BY <1>1, <1>3, <2>1 DEF StillToMeet, StillToTell, StillToServe
  <2> QED
    BY <1>1, <2>2 DEF LooksOn, SeenBy
<1>4. Environment(w) \/ Step(w)
  BY DEF Step
<1>5. \A p \in Pids : Online(p)' => Online(p)
  BY <1>1 DEF Online
<1> QED
  BY <1>1, <1>2, <1>3, <1>4, <1>5, SilentStep

\* A request begins: nobody is told anything yet.
LEMMA ServeMeet ==
  ASSUME IndInv, AllMeet, NEW w \in IoThreads, NEW p \in Pids,
         \/ \E at \in Positions : RequestMove(w, p, at)
         \/ RequestChat(w, p)
         \/ Disconnect(w, p)
  PROVE  AllMeet'
<1>1. /\ UNCHANGED <<owner, pending, client, pos>> /\ pc[w] = "idle" /\ pc'[w] = "lookup"
      /\ job'[w] \in {"move", "chat", "close"}
      /\ conn' = conn \/ conn' = [conn EXCEPT ![p] = "down"]
  BY DEF RequestMove, RequestChat, Disconnect, Serve, Goto, Begin, network, IndInv, TypeOK
<1>2. \A r \in Pids : r # cur[w]
  BY <1>1 DEF IndInv, Control, ServesOwn, Pids
<1>3. Environment(w) \/ Step(w)
  BY DEF Environment
<1>4. \A r \in Pids : Online(r)' => Online(r)
  BY <1>1 DEF Online, IndInv, TypeOK
<1> QED
  BY <1>1, <1>2, <1>3, <1>4, SilentStep

\* GetPlayerByPid goes on to UpdatePos with everyone to be told.
LEMMA LookupMeet ==
  ASSUME IndInv, AllMeet, NEW w \in IoThreads, GetPlayerByPid(w)
  PROVE  AllMeet'
<1>1. /\ UNCHANGED <<owner, pending, client, pos, conn, cur, job, info>> /\ pc[w] = "lookup"
      /\ job[w] \in Kinds
  BY DEF GetPlayerByPid, world, locals, network, IndInv, Control, PartAt
<1>2. ASSUME NEW p \in Pids, NEW q \in Pids, p = cur[w]
      PROVE  LooksOn(p, q) /\ SeenBy(p, q)
  <2>1. owner[p] = w
    BY <1>1, <1>2 DEF IndInv, Control, ServesOwn, Pids
  <2>2. ~StillToMeet(p, q) /\ ~StillToMeet(p, q)' /\ ~StillToTell(p, q)
    BY <1>1, <2>1, <1>2 DEF StillToMeet, StillToTell, StillToServe, GetPlayerByPid,
                            Goto, Kinds, IndInv, TypeOK
  <2>3. Shown(p, q)' = Shown(p, q)
    BY <1>1 DEF Shown
  <2> QED
    BY <1>1, <2>2, <2>3 DEF LooksOn, SeenBy
<1>3. Environment(w) \/ Step(w)
  BY DEF Step
<1>4. \A p \in Pids : Online(p)' => Online(p)
  BY <1>1 DEF Online
<1> QED
  BY <1>1, <1>2, <1>3, <1>4, SilentStep

\* UpdatePos has everyone to tell of the new position.
LEMMA UpdatePosMeet ==
  ASSUME IndInv, Staying', AllMeet, NEW w \in IoThreads, UpdatePos(w)
  PROVE  AllMeet'
<1>1. /\ UNCHANGED <<owner, pending, client, conn, cur, job, info>> /\ pc[w] = "write"
      /\ job[w] = "move" /\ pos' = [pos EXCEPT ![cur[w]] = to[w]]
      /\ cur[w] \in Pids /\ cur[w] < global_player_id
  BY ServedPlayer DEF UpdatePos, network, IndInv, Control, PartAt
<1>2. GetGridByPosition(pos[cur[w]]) = GetGridByPosition(to[w])
  BY DEF Staying, UpdatePos, Goto, IndInv, TypeOK
<1>3. pc'[w] = "lock"
  BY <1>2 DEF UpdatePos, Goto, IndInv, TypeOK
<1>4. ASSUME NEW p \in Pids, NEW q \in Pids, p = cur[w]
      PROVE  LooksOn(p, q) /\ SeenBy(p, q)
  <2>1. owner[p] = w
    BY <1>1, <1>4 DEF IndInv, Control, ServesOwn, Pids
  <2>2. ~StillToMeet(p, q) /\ ~StillToMeet(p, q)' /\ StillToTell(p, q)'
    BY <1>1, <1>3, <1>4, <2>1 DEF StillToMeet, StillToTell, StillToServe
  <2>3. Shown(p, q)' = Shown(p, q)
    BY <1>1 DEF Shown
  <2> QED
    BY <1>1, <2>2, <2>3 DEF LooksOn, SeenBy
<1>5. Environment(w) \/ Step(w)
  BY DEF Step
<1>6. \A p \in Pids : Online(p)' => Online(p)
  BY <1>1 DEF Online
<1>7. /\ \A p \in Pids : p # cur[w] => pos'[p] = pos[p]
      /\ pos'[cur[w]] = to[w]
  BY <1>1 DEF IndInv, TypeOK
<1> QED
  BY <1>1, <1>2, <1>4, <1>5, <1>6, <1>7, SilentStep

\* While a snapshot is taken and served, it matters only whether the loop has
\* still to come to somebody.
LEMMA SnapshotPair ==
  ASSUME NEW w \in IoThreads, NEW p \in Pids, NEW q \in Pids,
         cur[w] = p, owner[p] = w,
         UNCHANGED <<owner, client, pos, cur, job, info>>,
         pc[w] \in {"lock", "read", "send", "syncPlayers"},
         pc'[w] \in {"lock", "read", "send", "syncPlayers"},
         StillToServe(w, q)' => StillToServe(w, q),
         StillToServe(w, q) /\ ~StillToServe(w, q)' =>
           StillToMeet(q, p)' /\ Coming(q, p) = {}
  PROVE  LooksOn(p, q) /\ SeenBy(p, q)
<1>1. /\ StillToMeet(p, q) <=> job[w] = "sync" /\ StillToServe(w, q)
      /\ StillToMeet(p, q)' <=> job[w] = "sync" /\ StillToServe(w, q)'
      /\ StillToTell(p, q) <=> job[w] = "move" /\ StillToServe(w, q)
      /\ StillToTell(p, q)' <=> job[w] = "move" /\ StillToServe(w, q)'
  BY DEF StillToMeet, StillToTell
<1>2. Shown(p, q)' = Shown(p, q)
  BY DEF Shown
<1> QED
  BY <1>1, <1>2 DEF LooksOn, SeenBy

\* The grids around the player cover everyone it sees.
LEMMA LockMeet ==
  ASSUME IndInv, Staying, AllMeet, NEW w \in IoThreads, LockShared(w)
  PROVE  AllMeet'
<1>1. /\ UNCHANGED <<owner, pending, client, pos, conn, cur, job, info>>
      /\ pc[w] = "lock" /\ pc'[w] = "read"
      /\ toRead'[w] = GetSudokuByPosition(pos[cur[w]])
  BY DEF LockShared, GridsToRead, Staying, Goto, world, network, IndInv, TypeOK
<1>2. ASSUME NEW p \in Pids, NEW q \in Pids, p = cur[w], Visible(p, q)
      PROVE  LooksOn(p, q) /\ SeenBy(p, q)
  <2>1. owner[p] = w
    BY <1>1, <1>2 DEF IndInv, Control, ServesOwn, Pids
  <2>2. StillToServe(w, q) /\ StillToServe(w, q)'
    BY <1>1, <1>2 DEF StillToServe, Visible
  <2> QED
    BY <1>1, <1>2, <2>1, <2>2, SnapshotPair
<1>3. Environment(w) \/ Step(w)
  BY DEF Step
<1>4. \A p \in Pids : Online(p)' => Online(p)
  BY <1>1 DEF Online
<1> QED
  BY <1>1, <1>2, <1>3, <1>4, SilentStep

\* Who is connected and not on the grid of its position yet has still to look
\* around itself, and is unseen.
LEMMA MissedArrives ==
  ASSUME IndInv, Staying, AllUnseen, NEW w \in IoThreads, pc[w] = "read",
         NEW q \in Pids, Online(q), q \notin grid[GetGridByPosition(pos[q])]
  PROVE  /\ owner[q] \in IoThreads \ {w} /\ cur[owner[q]] = q
         /\ pc[owner[q]] \in {"AddPlayer", "AddPlayerToGrid"}
         /\ \A p \in Pids : Coming(q, p) = {}
<1>1. /\ owner[q] \in IoThreads /\ GetGridByPosition(pos[q]) \in Grids
      /\ ~(pc[owner[q]] \in {"leaveGrid", "enterGrid"})
  BY Connected, GridOnMap DEF Staying
<1>2. ~OnSomeGrid(q)
  BY <1>1 DEF IndInv, Whereabouts, GridOf
<1>3. cur[owner[q]] = q /\ pc[owner[q]] \in {"AddPlayer", "AddPlayerToGrid", "erase"}
  BY <1>1, <1>2 DEF OnSomeGrid, Online
<1>4. pc[owner[q]] # "erase"
  BY <1>1, <1>3 DEF IndInv, Control, PartAt, ServesOwn, Online, Pids
<1> QED
  BY <1>1, <1>3, <1>4 DEF AllUnseen, Unseen, Arriving

\* A grid that is read leaves out only such players.
LEMMA ReadMeet ==
  ASSUME IndInv, Staying, AllUnseen, AllMeet, NEW w \in IoThreads, ReadGrid(w)
  PROVE  AllMeet'
<1>1. /\ UNCHANGED <<owner, pending, client, pos, conn, cur, job, info, pc>>
      /\ pc[w] = "read"
  BY DEF ReadGrid, world, network
<1>2. PICK g \in toRead[w] :
        toRead'[w] = toRead[w] \ {g} /\ snap'[w] = snap[w] \cup grid[g]
  BY DEF ReadGrid, IndInv, TypeOK
<1>3. ASSUME NEW p \in Pids, NEW q \in Pids, p = cur[w], Online(p), Online(q)
      PROVE  LooksOn(p, q) /\ SeenBy(p, q)
  <2>1. owner[p] = w
    BY <1>1, <1>3 DEF IndInv, Control, ServesOwn, Pids
  <2>2. ASSUME StillToServe(w, q), ~StillToServe(w, q)'
        PROVE  StillToMeet(q, p)' /\ Coming(q, p) = {}
    <3>1. q \notin grid[GetGridByPosition(pos[q])]
      BY <1>1, <1>2, <2>2 DEF StillToServe
    <3>2. /\ owner[q] \in IoThreads \ {w} /\ cur[owner[q]] = q /\ Coming(q, p) = {}
          /\ pc[owner[q]] \in {"AddPlayer", "AddPlayerToGrid"}
      BY <1>1, <1>3, <3>1, MissedArrives
    <3> QED
      BY <1>1, <3>2 DEF StillToMeet
  <2>3. ASSUME StillToServe(w, q)'
        PROVE  StillToServe(w, q)
    <3>1. GetGridByPosition(pos[q]) \in toRead[w] \/ q \in snap[w] \/ q \in grid[g]
      BY <1>1, <1>2, <2>3 DEF StillToServe
    <3>2. g \in Grids /\ (q \in grid[g] => g = GridOf(q))
      BY <1>2, <1>3 DEF IndInv, TypeOK, Whereabouts
    <3>3. GridOf(q) = GetGridByPosition(pos[q])
      BY DEF GridOf, Staying
    <3> QED
      BY <1>1, <1>2, <3>1, <3>2, <3>3 DEF StillToServe
  <2> QED
    BY <1>1, <1>3, <2>1, <2>2, <2>3, SnapshotPair
<1>4. Environment(w) \/ Step(w)
  BY DEF Step
<1>5. \A p \in Pids : Online(p)' => Online(p)
  BY <1>1 DEF Online
<1> QED
  BY <1>1, <1>3, <1>4, <1>5, SilentStep

\* Once all grids are read, the snapshot holds everyone that is left.
LEMMA UnlockMeet ==
  ASSUME IndInv, AllMeet, NEW w \in IoThreads, UnlockShared(w)
  PROVE  AllMeet'
<1>1. /\ UNCHANGED <<owner, pending, client, pos, conn, cur, job, info, snap>>
      /\ pc[w] = "read" /\ pc'[w] = "send" /\ toRead[w] = {}
  BY DEF UnlockShared, Goto, world, locals, network, IndInv, TypeOK
<1>2. ASSUME NEW p \in Pids, NEW q \in Pids, p = cur[w]
      PROVE  LooksOn(p, q) /\ SeenBy(p, q)
  <2>1. owner[p] = w
    BY <1>1, <1>2 DEF IndInv, Control, ServesOwn, Pids
  <2>2. StillToServe(w, q)' <=> StillToServe(w, q)
    BY <1>1 DEF StillToServe
  <2> QED
    BY <1>1, <1>2, <2>1, <2>2, SnapshotPair
<1>3. Environment(w) \/ Step(w)
  BY DEF Step
<1>4. \A p \in Pids : Online(p)' => Online(p)
  BY <1>1 DEF Online
<1> QED
  BY <1>1, <1>2, <1>3, <1>4, SilentStep

\* WorldChat and destroyPlayer have nobody to tell where the player is, and a
\* loop that is over has come to everyone.
LEMMA OtherJobsMeet ==
  ASSUME IndInv, Staying, AllMeet, NEW w \in IoThreads,
         \/ GetAllPlayers(w) \/ NextPart(w)
         \/ RemovePlayerFromGrid(w) \/ ErasePlayer(w) \/ TakeFunctors(w)
  PROVE  AllMeet'
<1> USE DEF Goto, Begin, Return, locals, network
<1>1. /\ UNCHANGED <<owner, pending, client, pos, conn>>
      /\ cur'[w] \in {0, cur[w]}
  BY DEF GetAllPlayers, NextPart, RemovePlayerFromGrid, ErasePlayer, TakeFunctors,
         world, IndInv, TypeOK
<1>2. ASSUME NEW p \in Pids, NEW q \in Pids, p = cur[w], Online(p)
      PROVE  LooksOn(p, q) /\ SeenBy(p, q)
  <2>0. owner[p] = w /\ pc[w] \notin {"idle", "functors"} /\ job[w] # "close"
    BY <1>2 DEF IndInv, Control, ServesOwn, Online, Pids
  <2>1. /\ ~TakeFunctors(w) /\ ~RemovePlayerFromGrid(w) /\ ~ErasePlayer(w)
    BY <2>0 DEF TakeFunctors, RemovePlayerFromGrid, ErasePlayer, IndInv, Control, PartAt
  <2>2. CASE GetAllPlayers(w)
    <3>1. job[w] = "chat" /\ pc[w] = "lock" /\ pc'[w] = "send" /\ UNCHANGED <<job, cur, info>>
      BY <2>2 DEF GetAllPlayers, IndInv, TypeOK
    <3>2. /\ ~StillToMeet(p, q) /\ ~StillToTell(p, q) /\ ~StillToMeet(p, q)'
          /\ Shown(p, q)' = Shown(p, q)
      BY <1>1, <1>2, <2>0, <3>1 DEF StillToMeet, StillToTell, Shown
    <3> QED
      BY <1>1, <3>2 DEF LooksOn, SeenBy
  <2>3. CASE NextPart(w)
    <3>1. pc[w] = "send" /\ ~StillToServe(w, q)
      BY <2>3 DEF NextPart, StillToServe
    <3>2. ~StillToMeet(p, q) /\ ~StillToTell(p, q)
      BY <1>2, <2>0, <3>1 DEF StillToMeet, StillToTell
    <3>3. CASE job[w] = "sync"
      <4>1. /\ pc'[w] = "syncPlayers" /\ job'[w] = "sync" /\ UNCHANGED <<cur, info>>
        BY <2>3, <3>3 DEF NextPart, IndInv, TypeOK
      <4>2. ~StillToServe(w, q)'
        BY <4>1 DEF StillToServe
      <4>3. ~StillToMeet(p, q)' /\ Shown(p, q)' = Shown(p, q)
        BY <1>1, <1>2, <2>0, <3>3, <4>1, <4>2 DEF StillToMeet, Shown
      <4> QED
        BY <1>1, <3>2, <4>3 DEF LooksOn, SeenBy
    <3>4. CASE job[w] # "sync"
      <4>1. job[w] \in {"move", "chat"} /\ cur'[w] = 0
        BY <2>0, <2>3, <3>4 DEF NextPart, Staying, IndInv, TypeOK
      <4>2. ~StillToMeet(p, q)' /\ Shown(p, q)' = Shown(p, q)
        BY <1>1, <1>2, <2>0, <3>4, <4>1 DEF StillToMeet, Shown, Pids
      <4> QED
        BY <1>1, <3>2, <4>2 DEF LooksOn, SeenBy
    <3> QED
      BY <3>3, <3>4
  <2> QED
    BY <2>1, <2>2, <2>3
<1>3. Environment(w) \/ Step(w)
  BY DEF Step
<1>4. \A p \in Pids : Online(p)' => Online(p)
  BY <1>1 DEF Online
<1> QED
  BY <1>1, <1>2, <1>3, <1>4, SilentStep

-----------------------------------------------------------------------------
(***************************************************************************)
(* New players.                                                            *)
(***************************************************************************)

\* While one of two has still to look for the other, nothing about the other
\* has to be queued.
LEMMA MeetingBegins ==
  ASSUME NEW p \in Pids, NEW q \in Pids, Coming(p, q)' = {},
         StillToMeet(p, q)' \/ StillToMeet(q, p)'
  PROVE  Meeting(p, q)'
BY DEF Meeting, Met, FromElsewhere, LastIsCurrent

\* A new player has everybody still to meet, and nothing is queued about it.
LEMMA CreateMeet ==
  ASSUME IndInv, QueuedInLoop, QueuedPids, AllMeet, NEW w \in IoThreads,
         NEW at \in SpawnPositions, CreateNewPlayer(w, at)
  PROVE  AllMeet'
<1>0. PICK n \in Pids : n = global_player_id
  BY DEF CreateNewPlayer
<1>1. /\ UNCHANGED <<client, job, pending, info, toRead, snap>> /\ pc[w] = "idle"
      /\ pc'[w] = "AddPlayer" /\ cur'[w] = n /\ owner'[n] = w
      /\ \A p \in Pids \ {n} :
           owner'[p] = owner[p] /\ conn'[p] = conn[p] /\ pos'[p] = pos[p]
  <2>1. TypeOK
    BY DEF IndInv
  <2>2. UNCHANGED <<client, job, pending, info, toRead, snap>> /\ pc[w] = "idle"
    BY DEF CreateNewPlayer, network
  <2>3. pc'[w] = "AddPlayer" /\ cur'[w] = n /\ owner'[n] = w
    BY <1>0, <2>1 DEF CreateNewPlayer, Goto, TypeOK
  <2>4. \A p \in Pids \ {n} :
          owner'[p] = owner[p] /\ conn'[p] = conn[p] /\ pos'[p] = pos[p]
    BY <1>0, <2>1 DEF CreateNewPlayer, TypeOK
  <2> QED
    BY <2>2, <2>3, <2>4
<1>2. owner[n] = NoThread
  BY <1>0 DEF IndInv, Created, Pids
<1>3. ASSUME NEW p \in Pids
      PROVE  StillToMeet(n, p)'
  BY <1>1 DEF StillToMeet
<1>4. ASSUME NEW q \in Pids
      PROVE  Coming(n, q)' = {}
  <2>1. ASSUME NEW i \in DOMAIN pending[w]
        PROVE  pending[w][i].dest # n
    BY <1>2 DEF QueuedInLoop
  <2> QED
    BY <1>1, <2>1 DEF Coming, AboutPlayer
<1>5. ASSUME NEW p \in Pids \ {n}, owner[p] \in IoThreads
      PROVE  Coming(p, n)' = {}
  <2>1. ASSUME NEW i \in DOMAIN pending[owner[p]]
        PROVE  pending[owner[p]][i].packet.pid # n
    BY <1>0, <1>5 DEF QueuedPids, Pids
  <2> QED
    BY <1>1, <2>1 DEF Coming, AboutPlayer
<1>6. ASSUME NEW p \in Pids \ {n}, NEW q \in Pids \ {n},
             Online(p)', Online(q)', Visible(p, q)'
      PROVE  Meeting(p, q)'
  <2>1. /\ Online(p) /\ Online(q) /\ Visible(p, q) /\ SameQueue(p, q)
        /\ owner'[p] = owner[p] /\ owner'[q] = owner[q]
        /\ pos'[p] = pos[p] /\ pos'[q] = pos[q]
    BY <1>1, <1>6, QueueKept DEF Online, Visible
  <2>2. \A r \in Pids : cur[w] # r
    BY <1>1 DEF IndInv, Control, ServesOwn, Pids
  <2>3. owner[p] = w => LooksOn(p, q)
    <3>1. ASSUME owner[p] = w
          PROVE  ~StillToMeet(p, q) /\ Shown(p, q)' = Shown(p, q)
      BY <1>1, <2>1, <2>2, <3>1 DEF Shown, StillToMeet
    <3> QED
      BY <3>1 DEF LooksOn
  <2>4. owner[q] = w => SeenBy(q, p)
    <3>1. ASSUME owner[q] = w
          PROVE  ~StillToMeet(q, p) /\ ~StillToTell(q, p) /\ ~StillToMeet(q, p)'
      BY <1>1, <2>1, <2>2, <3>1 DEF StillToMeet, StillToTell
    <3> QED
      BY <2>1, <3>1 DEF SeenBy
  <2>5. Environment(w) \/ Step(w)
    BY DEF Environment
  <2>6. Meeting(p, q)
    BY <2>1 DEF AllMeet
  <2> QED
    BY <1>1, <2>1, <2>3, <2>4, <2>5, <2>6, PairKept
<1> SUFFICES ASSUME NEW p \in Pids, NEW q \in Pids, Online(p)', Online(q)', Visible(p, q)'
             PROVE  Meeting(p, q)'
  BY DEF AllMeet
<1>7. CASE p = n
  <2>1. Coming(p, q)' = {} /\ StillToMeet(p, q)'
    BY <1>3, <1>4, <1>7
  <2> QED
    BY <2>1, MeetingBegins
<1>8. CASE p # n /\ q = n
  <2>1. owner[p] \in IoThreads
    BY <1>1, <1>8, Connected DEF Online
  <2>2. Coming(p, q)' = {} /\ StillToMeet(q, p)'
    BY <1>3, <1>5, <1>8, <2>1
  <2> QED
    BY <2>2, MeetingBegins
<1> QED
  BY <1>6, <1>7, <1>8

-----------------------------------------------------------------------------
(***************************************************************************)
(* Steps that send.                                                        *)
(***************************************************************************)

\* A step of a loop over a snapshot sends m about player c to r and changes nothing
\* else but what c notes about r.
Sends(w, c, r, m) ==
  /\ c = cur[w] /\ pc[w] = "send"
  /\ UNCHANGED <<world, pc, job, cur, toRead>>
  /\ snap' = [snap EXCEPT ![w] = @ \ {r}]
  /\ m.pid = c /\ pending' = SendLater(w, r, m)
  /\ \A p, q \in Pids : p # r \/ q # c => client'[p].view[q] = client[p].view[q]
  /\ \A q \in Pids : q # r => info'[w][q] = info[w][q]
  /\ job[w] # "sync" => info' = info

\* What matters is what r is shown of c, and in initPlayer also what c is shown
\* of r.
LEMMA SendStep ==
  ASSUME IndInv, AllMeet, NEW w \in IoThreads, Environment(w) \/ Step(w),
         NEW c \in Pids, NEW r \in Pids, NEW m \in Packets, Sends(w, c, r, m),
         Online(r) /\ Online(c) /\ Visible(r, c) => Meeting(r, c)',
         job[w] = "sync" /\ Online(c) /\ Online(r) /\ Visible(c, r) => Meeting(c, r)'
  PROVE  AllMeet'
<1> USE DEF Sends
<1>1. owner[c] = w /\ TypeOK
  BY DEF IndInv, Control, ServesOwn, Pids
<1>2. ASSUME NEW x \in Pids, x # r
      PROVE  StillToServe(w, x)' <=> StillToServe(w, x)
  BY <1>1, <1>2 DEF StillToServe, world, TypeOK
<1>3. ASSUME NEW p \in Pids, NEW q \in Pids, p # c \/ q # r, owner[p] = w
      PROVE  /\ StillToMeet(p, q)' <=> StillToMeet(p, q)
             /\ StillToTell(p, q)' <=> StillToTell(p, q)
             /\ Shown(p, q)' = Shown(p, q) \/ (p = r /\ q = c)
  <2>1. cur'[w] = cur[w] /\ pc'[w] = pc[w] /\ job'[w] = job[w] /\ owner'[p] = w
    BY <1>3 DEF world
  <2>2. CASE p # c
    BY <1>3, <2>1, <2>2 DEF StillToMeet, StillToTell, Shown
  <2>3. CASE p = c
    <3>1. q # r /\ (StillToServe(w, q)' <=> StillToServe(w, q))
      BY <1>2, <1>3, <2>3
    <3>2. info'[w][q] = info[w][q]
      BY <3>1
    <3> QED
      BY <1>3, <2>1, <2>3, <3>1, <3>2 DEF StillToMeet, StillToTell, Shown
  <2> QED
    BY <2>2, <2>3
<1>4. \A p \in Pids : Online(p)' =>
        Online(p) /\ GetGridByPosition(pos'[p]) = GetGridByPosition(pos[p])
  BY DEF world, Online
<1> SUFFICES ASSUME NEW p \in Pids, NEW q \in Pids, Online(p), Online(q),
                    Visible(p, q), Visible(q, p)
             PROVE  Meeting(p, q)'
  BY <1>4, AllPairs
<1>5. CASE (p = r /\ q = c) \/ (p = c /\ q = r /\ job[w] = "sync")
  BY <1>5
<1>6. CASE ~((p = r /\ q = c) \/ (p = c /\ q = r /\ job[w] = "sync"))
  <2>1. ~AboutPlayer(p, q, [dest |-> r, packet |-> m])
    BY <1>6 DEF AboutPlayer
  <2>2. owner[p] \in IoThreads /\ UNCHANGED <<owner, pos>>
    BY Connected DEF world
  <2>3. SameQueue(p, q)
    BY <1>1, <2>1, <2>2, QueueGrown
  <2>4. owner[p] = w => LooksOn(p, q)
    <3>1. CASE p = c /\ q = r
      <4>1. job[w] # "sync" /\ job'[w] = job[w] /\ cur'[w] = cur[w]
        BY <1>6, <3>1
      <4>2. ~StillToMeet(p, q) /\ Shown(p, q)' = Shown(p, q)
        BY <1>1, <1>6, <2>2, <3>1, <4>1 DEF StillToMeet, Shown, StillToServe
      <4> QED
        BY <4>2 DEF LooksOn
    <3>2. CASE p # c \/ q # r
      BY <1>3, <1>6, <3>2 DEF LooksOn
    <3> QED
      BY <3>1, <3>2
  <2>5. owner[q] = w => SeenBy(q, p)
    BY <1>3, <1>6, <2>2 DEF SeenBy
  <2>6. Meeting(p, q)
    BY DEF AllMeet
  <2>7. client'[p].view[q] = client[p].view[q]
    BY <1>6
  <2> QED
    BY <2>2, <2>3, <2>4, <2>5, <2>6, <2>7, PairKept
<1> QED
  BY <1>5, <1>6

\* The packet of a move reaches everyone the player has met, and nobody is moved
\* on a screen on which it has not appeared.
LEMMA MoveMeet ==
  ASSUME IndInv, Staying, AllMeet, NEW w \in IoThreads, NEW r \in snap[w], SendMove(w, r)
  PROVE  AllMeet'
<1> DEFINE m == Move(cur[w], pos[cur[w]])
<1>1. /\ UNCHANGED <<world, pc, job, cur, toRead, info>>
      /\ snap' = [snap EXCEPT ![w] = @ \ {r}]
      /\ r \in Pids /\ r < global_player_id
      /\ pc[w] = "send" /\ cur[w] \in Pids /\ job[w] = "move"
      /\ owner[cur[w]] = w /\ pos[cur[w]] \in Coordinates
      /\ SendPacket(w, r, m)
  BY SentPacket DEF SendMove, Sending
<1>2. PICK c \in Pids : c = cur[w]
  BY <1>1
<1>3. m \in Packets /\ m.pid = c /\ m.type = "MOVE" /\ m.p = pos[c] /\ m.p # NoPos
  BY <1>1, <1>2, PacketType DEF Move
<1>4. \A p, q \in Pids : client'[p].view[q] =
        IF Online(r) /\ owner[r] = w /\ p = r /\ q = c /\ client[p].view[q] # NoPos
        THEN pos[c] ELSE client[p].view[q]
  <2>1. client \in [Pids -> Clients]
    BY DEF IndInv, TypeOK
  <2> QED
    BY <1>1, <1>2, <2>1, MoveShown DEF SendPacket, SendNow
<1> HIDE DEF m
<1>5. pending' = SendLater(w, r, m) /\ UNCHANGED <<owner, pos, conn>>
  BY <1>1 DEF SendPacket, world
<1>6. ASSUME Online(r), Online(c), Visible(r, c)
      PROVE  Meeting(r, c)'
  <2>1. Meeting(r, c) /\ owner[r] \in IoThreads
    BY <1>1, <1>6, Connected DEF AllMeet
  <2>2. ~StillToMeet(c, r) /\ ~StillToMeet(c, r)'
    BY <1>1, <1>2, <1>5 DEF StillToMeet
  <2>3. CASE owner[r] = w
    <3>1. /\ Coming(r, c) = {} /\ pending' = pending
          /\ client'[r].view[c] = IF client[r].view[c] # NoPos THEN pos[c] ELSE NoPos
      BY <1>1, <1>2, <1>4, <1>5, <1>6, <2>1, <2>3 DEF Meeting, FromElsewhere, SendLater
    <3>2. /\ ~StillToMeet(r, c) /\ Shown(r, c) = client[r].view[c]
          /\ Shown(r, c)' = client'[r].view[c]
      BY <1>1, <1>5, <2>3 DEF StillToMeet, Shown
    <3>3. Shown(r, c) # NoPos
      BY <2>1, <2>2, <3>1, <3>2 DEF Meeting, Met, FirstIsPos
    <3>4. Coming(r, c)' = {} /\ Shown(r, c)' = pos[c] /\ pos'[c] # NoPos
      BY <1>3, <1>5, <3>1, <3>2, <3>3 DEF Coming
    <3> QED
      BY <1>5, <3>4 DEF Meeting, FromElsewhere, LastIsCurrent
  <2>4. CASE owner[r] # w
    <3>1. PICK n \in Nat :
            /\ Coming(r, c)' = Coming(r, c) \cup {n}
            /\ \A i \in Coming(r, c) : i \in Nat /\ i < n
            /\ \A i \in Coming(r, c) : Packet(r, i)' = Packet(r, i)
            /\ Packet(r, n)' = m
      <4>1. TypeOK /\ m.type # "TALK"
        BY <1>3 DEF IndInv
      <4> QED
        BY <1>1, <1>3, <1>5, <2>1, <2>4, <4>1, QueueEnd
    <3>2. FromElsewhere(r, c)'
      BY <1>1, <1>2, <1>3, <1>5, <2>1, <2>4, <3>1 DEF Meeting, FromElsewhere
    <3>3. Met(r, c)' => Met(r, c) /\ Shown(r, c)' = Shown(r, c)
      <4>1. Environment(w) \/ Step(w)
        BY DEF Step
      <4>2. client'[r].view[c] = client[r].view[c]
        BY <1>1, <1>4, <2>4
      <4> QED
        BY <1>1, <1>5, <1>6, <2>2, <2>4, <4>1, <4>2, Elsewhere DEF Met
    <3>4. FirstIsPos(r, c) => FirstIsPos(r, c)'
      BY <3>1 DEF FirstIsPos
    <3>5. LastIsCurrent(r, c)'
      <4> SUFFICES ASSUME NEW i \in Coming(r, c)',
                          \A j \in Coming(r, c)' : j <= i
                   PROVE  Packet(r, i)'.p = pos[c]
        BY <1>5 DEF LastIsCurrent
      <4>1. i = n
        BY <3>1
      <4> QED
        BY <1>3, <3>1, <4>1
    <3> QED
      BY <2>1, <2>2, <3>1, <3>2, <3>3, <3>4, <3>5 DEF Meeting
  <2> QED
    BY <2>3, <2>4
<1>7. \A p, q \in Pids : p # r \/ q # c => client'[p].view[q] = client[p].view[q]
  BY <1>4
<1>8. Environment(w) \/ Step(w)
  BY DEF Step
<1>9. Sends(w, c, r, m)
  BY <1>1, <1>2, <1>3, <1>5, <1>7 DEF Sends
<1> QED
  BY <1>1, <1>3, <1>6, <1>8, <1>9, SendStep

\* What is said and who has gone does not tell where those are who stay.
LEMMA TalkMeet ==
  ASSUME IndInv, Staying, AllMeet, NEW w \in IoThreads, NEW r \in snap[w],
         SendTalk(w, r) \/ SendLeave(w, r)
  PROVE  AllMeet'
<1>1. /\ UNCHANGED <<world, pc, job, cur, toRead, info>>
      /\ snap' = [snap EXCEPT ![w] = @ \ {r}]
      /\ r \in Pids /\ r < global_player_id
      /\ pc[w] = "send" /\ cur[w] \in Pids /\ job[w] \in {"chat", "close"}
      /\ owner[cur[w]] = w
  BY SentPacket DEF SendTalk, SendLeave, Sending
<1>2. PICK c \in Pids : c = cur[w]
  BY <1>1
<1>3. PICK m \in {Talk(c), Leave(c)} :
        /\ m \in Packets /\ m.pid = c /\ m.type \in {"TALK", "LEAVE"}
        /\ m.type = "LEAVE" => SendLeave(w, r) /\ m = Leave(c)
        /\ m.type = "TALK" => SendTalk(w, r) /\ m = Talk(c)
        /\ SendPacket(w, r, m)
  BY <1>2, PacketType DEF SendTalk, SendLeave, Talk, Leave
<1>4. pending' = SendLater(w, r, m) /\ UNCHANGED <<owner, pos, conn>>
  BY <1>1, <1>3 DEF SendPacket, world
<1>5. m.type = "LEAVE" => ~Online(c)
  BY <1>1, <1>2, <1>3 DEF SendLeave, Sending, IndInv, Control, ServesOwn, Online, Pids
<1>6. /\ \A p, q \in Pids : p # r \/ q # c => client'[p].view[q] = client[p].view[q]
      /\ m.type = "TALK" => client'[r].view[c] = client[r].view[c]
  <2>1. client \in [Pids -> Clients]
    BY DEF IndInv, TypeOK
  <2>2. CASE m = Talk(c)
    BY <1>1, <1>2, <1>3, <2>1, <2>2, TalkShown DEF SendPacket, SendNow
  <2>3. CASE m = Leave(c)
    <3>1. m.type = "LEAVE"
      BY <2>3 DEF Leave
    <3> QED
      BY <1>1, <1>2, <1>3, <2>1, <2>3, <3>1, LeaveShown DEF SendPacket, SendNow
  <2> QED
    BY <2>2, <2>3
<1>7. Environment(w) \/ Step(w)
  BY <1>3 DEF Step
<1>8. ASSUME Online(r), Online(c), Visible(r, c)
      PROVE  Meeting(r, c)'
  <2>1. /\ m.type = "TALK" /\ Meeting(r, c) /\ owner[r] \in IoThreads
    BY <1>1, <1>3, <1>5, <1>8, Connected DEF AllMeet
  <2>2. ~AboutPlayer(r, c, [dest |-> r, packet |-> m])
    BY <2>1 DEF AboutPlayer
  <2>3. SameQueue(r, c)
    <3>1. TypeOK
      BY DEF IndInv
    <3> QED
      BY <1>1, <1>3, <1>4, <2>1, <2>2, <3>1, QueueGrown
  <2>4. LooksOn(r, c)
    <3>1. CASE owner[r] = w
      BY <1>1, <1>2, <1>4, <1>6, <2>1, <3>1 DEF LooksOn, StillToMeet, Shown
    <3>2. CASE owner[r] # w
      BY <1>1, <1>2, <1>4, <1>6, <1>7, <1>8, <2>1, <3>2, Elsewhere DEF LooksOn
    <3> QED
      BY <3>1, <3>2
  <2>5. SeenBy(c, r)
    BY <1>1, <1>2, <1>4 DEF SeenBy, StillToMeet, StillToTell
  <2> QED
    BY <1>1, <1>4, <1>6, <1>7, <1>8, <2>1, <2>3, <2>4, <2>5, PairKept
<1>9. Sends(w, c, r, m)
  BY <1>1, <1>2, <1>3, <1>4, <1>6 DEF Sends
<1> QED
  BY <1>1, <1>3, <1>7, <1>8, <1>9, SendStep

\* Where initPlayer reads that another player is, it is, unless that one has
\* still to tell.
LEMMA PositionsReadRight ==
  ASSUME IndInv, NEW w \in IoThreads, pc[w] # "write",
         NEW q \in Pids, Online(q), NEW p \in Pids, NEW at \in PositionsRead(q)
  PROVE  /\ at \in Coordinates /\ at # NoPos
         /\ at = pos[q] \/ (owner[q] # w /\ StillToTell(q, p))
<1>1. at \in Coordinates
  BY Connected, PositionsReadType
<1>2. at = pos[q] \/ (pc[owner[q]] = "write" /\ cur[owner[q]] = q /\ owner[q] \in IoThreads)
  BY DEF PositionsRead
<1> QED
  BY <1>1, <1>2 DEF StillToTell, IndInv, Control, PartAt

\* Somebody around is shown the new player, and the new player notes where that
\* one is.
LEMMA SyncMeet ==
  ASSUME IndInv, Staying, AllMeet, NEW w \in IoThreads, NEW r \in snap[w], SendSync(w, r)
  PROVE  AllMeet'
<1> DEFINE m == Pos(cur[w], pos[cur[w]])
<1>1. /\ UNCHANGED <<world, pc, job, cur, toRead>>
      /\ snap' = [snap EXCEPT ![w] = @ \ {r}]
      /\ r \in Pids /\ r < global_player_id
      /\ pc[w] = "send" /\ cur[w] \in Pids /\ job[w] = "sync"
      /\ owner[cur[w]] = w /\ pos[cur[w]] \in Coordinates
      /\ SendPacket(w, r, m)
  BY SentPacket DEF SendSync, Sending
<1>2. PICK c \in Pids : c = cur[w]
  BY <1>1
<1>3. m \in Packets /\ m.pid = c /\ m.type = "POS" /\ m.p = pos[c] /\ m.p # NoPos
  BY <1>1, <1>2, PacketType DEF Pos
<1>4. \A p, q \in Pids : client'[p].view[q] =
        IF Online(r) /\ owner[r] = w /\ p = r /\ q = c
        THEN pos[c] ELSE client[p].view[q]
  <2>1. client \in [Pids -> Clients]
    BY DEF IndInv, TypeOK
  <2> QED
    BY <1>1, <1>2, <2>1, PosShown DEF SendPacket, SendNow
<1> HIDE DEF m
<1>5. pending' = SendLater(w, r, m) /\ UNCHANGED <<owner, pos, conn>>
  BY <1>1 DEF SendPacket, world
<1>6. PICK at \in PositionsRead(r) : info' = [info EXCEPT ![w][r] = at]
  BY DEF SendSync
<1>7. info'[w][r] = at /\ \A q \in Pids : q # r => info'[w][q] = info[w][q]
  <2>1. info[w] \in [Pids -> Coordinates \cup {NoPos}] /\ info \in [IoThreads -> Sights]
    BY DEF IndInv, TypeOK, Sights
  <2> QED
    BY <1>1, <1>6, <2>1
<1>8. /\ \A q \in Pids : ~StillToTell(c, q) /\ ~StillToTell(c, q)'
      /\ StillToMeet(c, r) /\ ~StillToMeet(c, r)'
  <2>1. StillToServe(w, r) /\ ~StillToServe(w, r)'
    BY <1>1 DEF StillToServe, IndInv, TypeOK
  <2> QED
    BY <1>1, <1>2, <1>5, <2>1 DEF StillToTell, StillToMeet
<1>9. Environment(w) \/ Step(w)
  BY DEF Step
<1>10. ASSUME Online(r), Online(c), Visible(r, c), r # c
       PROVE  Meeting(r, c)'
  <2>1. Coming(r, c) = {} /\ owner[r] \in IoThreads
    BY <1>1, <1>8, <1>10, Connected DEF AllMeet, Meeting
  <2>2. CASE owner[r] = w
    <3>1. Shown(r, c)' = pos[c] /\ Coming(r, c)' = {}
      BY <1>1, <1>2, <1>4, <1>5, <1>10, <2>1, <2>2 DEF Shown, SendLater, Coming
    <3> QED
      BY <1>3, <1>5, <3>1 DEF Meeting, FromElsewhere, LastIsCurrent
  <2>3. CASE owner[r] # w
    <3>1. PICK n \in Nat : Coming(r, c)' = {n} /\ Packet(r, n)' = m
      <4>1. TypeOK /\ m.type # "TALK"
        BY <1>3 DEF IndInv
      <4>2. \E n \in Nat : Coming(r, c)' = Coming(r, c) \cup {n} /\ Packet(r, n)' = m
        BY <1>1, <1>3, <1>5, <2>1, <2>3, <4>1, QueueEnd
      <4> QED
        BY <2>1, <4>2
    <3>2. FromElsewhere(r, c)' /\ FirstIsPos(r, c)' /\ LastIsCurrent(r, c)'
      BY <1>1, <1>2, <1>3, <1>5, <2>3, <3>1 DEF FromElsewhere, FirstIsPos, LastIsCurrent
    <3> QED
      BY <1>8, <3>1, <3>2 DEF Meeting
  <2> QED
    BY <2>2, <2>3
<1>11. ASSUME Online(c), Online(r), Visible(c, r)
       PROVE  Meeting(c, r)'
  <2>1. /\ Meeting(c, r) /\ owner[r] \in IoThreads /\ owner[c] \in IoThreads
        /\ Shown(c, r)' = at /\ at # NoPos
        /\ at = pos[r] \/ (owner[r] # w /\ StillToTell(r, c))
    BY <1>1, <1>2, <1>5, <1>7, <1>11, Connected, PositionsReadRight DEF AllMeet, Shown
  <2>2. SameQueue(c, r)
    <3>1. TypeOK
      BY DEF IndInv
    <3>2. CASE r = c
      BY <1>1, <1>2, <1>5, <3>2, QueueKept DEF SendLater
    <3>3. CASE r # c
      <4>1. ~AboutPlayer(c, r, [dest |-> r, packet |-> m])
        BY <3>3 DEF AboutPlayer
      <4> QED
        BY <1>1, <1>3, <1>5, <2>1, <3>1, <4>1, QueueGrown
    <3> QED
      BY <3>2, <3>3
  <2>3. /\ StillToMeet(r, c)' => StillToMeet(r, c)
        /\ owner[r] # w => (StillToTell(r, c)' <=> StillToTell(r, c))
    <3>1. CASE owner[r] = w
      BY <1>1, <1>2, <1>5, <1>8, <3>1 DEF StillToMeet
    <3>2. CASE owner[r] # w
      BY <1>1, <1>5, <1>9, <1>11, <3>2, Elsewhere
    <3> QED
      BY <3>1, <3>2
  <2>4. ~StillToTell(r, c)' => at = pos[r]
    BY <2>1, <2>3
  <2>5. ~StillToTell(r, c)' => LastIsCurrent(c, r)
    <3>1. CASE owner[r] # w
      BY <2>1, <2>3, <3>1 DEF Meeting
    <3>2. CASE owner[r] = w
      <4>1. Coming(c, r) = {}
        BY <1>1, <1>2, <2>1, <3>2 DEF Meeting, FromElsewhere
      <4> QED
        BY <4>1 DEF LastIsCurrent
    <3> QED
      BY <3>1, <3>2
  <2>6. /\ FromElsewhere(c, r)'
        /\ LastIsCurrent(c, r) => LastIsCurrent(c, r)'
        /\ Coming(c, r)' = Coming(c, r)
    BY <1>5, <2>1, <2>2 DEF Meeting, SameQueue, FromElsewhere, LastIsCurrent
  <2> QED
    BY <1>5, <2>1, <2>3, <2>4, <2>5, <2>6 DEF Meeting
<1>12. Online(r) /\ Online(c) /\ Visible(r, c) => Meeting(r, c)'
  BY <1>10, <1>11
<1>13. \A p, q \in Pids : p # r \/ q # c => client'[p].view[q] = client[p].view[q]
  BY <1>4
<1>14. Sends(w, c, r, m)
  BY <1>1, <1>2, <1>3, <1>5, <1>7, <1>13 DEF Sends
<1> QED
  BY <1>1, <1>3, <1>9, <1>11, <1>12, <1>14, SendStep

\* SYNC_PLAYERS shows the new player what it has noted.
LEMMA SyncPlayersMeet ==
  ASSUME IndInv, AllMeet, NEW w \in IoThreads, SendSyncPlayers(w)
  PROVE  AllMeet'
<1>1. /\ UNCHANGED <<owner, pending, pos, conn>> /\ Return(w)
      /\ pc[w] = "syncPlayers" /\ job[w] = "sync" /\ cur[w] \in Pids
      /\ owner[cur[w]] = w
  BY ServedPlayer DEF SendSyncPlayers, world, IndInv, Control, PartAt
<1>2. PICK c \in Pids : c = cur[w]
  BY <1>1
<1>3. cur'[w] = 0
  BY <1>1 DEF Return, IndInv, TypeOK
<1>4. /\ \A p, q \in Pids : p # c => client'[p].view[q] = client[p].view[q]
      /\ \A q \in Pids : client'[c].view[q] =
           IF info[w][q] = NoPos THEN client[c].view[q] ELSE info[w][q]
  BY <1>2 DEF SendSyncPlayers, IndInv, TypeOK, Clients
<1>5. ASSUME NEW p \in Pids, NEW q \in Pids, owner[p] = w
      PROVE  /\ ~StillToMeet(p, q) /\ ~StillToMeet(p, q)'
             /\ ~StillToTell(p, q) /\ ~StillToTell(p, q)'
             /\ Shown(p, q) = IF p = c THEN info[w][q] ELSE client[p].view[q]
             /\ Shown(p, q)' = client'[p].view[q]
  BY <1>1, <1>2, <1>3, <1>5
  DEF StillToMeet, StillToTell, StillToServe, Shown, Pids
<1>6. Environment(w) \/ Step(w)
  BY DEF Step
<1>7. \A p \in Pids : Online(p)' =>
        Online(p) /\ GetGridByPosition(pos'[p]) = GetGridByPosition(pos[p])
  BY <1>1 DEF Online
<1> SUFFICES ASSUME NEW p \in Pids, NEW q \in Pids, Online(p), Online(q),
                    Visible(p, q), Visible(q, p)
             PROVE  Meeting(p, q)'
  BY <1>7, AllPairs
<1>8. Meeting(p, q) /\ SameQueue(p, q)
  BY <1>1, QueueKept DEF AllMeet
<1>9. SeenBy(q, p) \/ owner[q] # w
  BY <1>1, <1>5 DEF SeenBy
<1>10. CASE p # c
  <2>1. owner[p] = w => LooksOn(p, q)
    BY <1>4, <1>5, <1>10 DEF LooksOn
  <2> QED
    BY <1>1, <1>4, <1>6, <1>8, <1>9, <1>10, <2>1, PairKept
<1>11. CASE p = c
  <2>1. owner[p] = w /\ pos[q] # NoPos
    BY <1>1, <1>2, <1>11, Connected
  <2>2. /\ StillToMeet(q, p)' => StillToMeet(q, p)
        /\ StillToMeet(q, p) => StillToMeet(q, p)'
        /\ StillToTell(q, p)' <=> StillToTell(q, p)
    <3>1. CASE owner[q] = w
      BY <1>5, <3>1
    <3>2. CASE owner[q] # w
      BY <1>1, <1>6, <3>2, Elsewhere
    <3> QED
      BY <3>1, <3>2
  <2>3. /\ Shown(p, q) = info[w][q]
        /\ Shown(p, q) # NoPos => Shown(p, q)' = Shown(p, q)
        /\ Met(p, q)' <=> Met(p, q)
    BY <1>4, <1>5, <1>11, <2>1, <2>2 DEF Met
  <2>4. /\ FromElsewhere(p, q)' /\ Coming(p, q)' = Coming(p, q)
        /\ LastIsCurrent(p, q) => LastIsCurrent(p, q)'
        /\ FirstIsPos(p, q) => FirstIsPos(p, q)'
    BY <1>1, <1>8
    DEF Meeting, SameQueue, FromElsewhere, LastIsCurrent, FirstIsPos
  <2> QED
    BY <1>1, <1>8, <2>1, <2>2, <2>3, <2>4 DEF Meeting
<1> QED
  BY <1>10, <1>11

-----------------------------------------------------------------------------
(***************************************************************************)
(* Steps that run what was sent.                                           *)
(***************************************************************************)

\* What the first functor of a queue makes of a screen.
LEMMA HeadShown ==
  ASSUME TypeOK, NEW f \in Functors, client' = SendInLoop(client, f.dest, f.packet)
  PROVE  \A p, q \in Pids :
           /\ ~AboutPlayer(p, q, f) => client'[p].view[q] = client[p].view[q]
           /\ AboutPlayer(p, q, f) /\ Online(p) =>
                /\ f.packet.type = "POS" => client'[p].view[q] = f.packet.p
                /\ f.packet.type = "MOVE" /\ client[p].view[q] # NoPos =>
                     client'[p].view[q] = f.packet.p
<1> SUFFICES ASSUME NEW p \in Pids, NEW q \in Pids
             PROVE  /\ ~AboutPlayer(p, q, f) => client'[p].view[q] = client[p].view[q]
                    /\ AboutPlayer(p, q, f) /\ Online(p) =>
                         /\ f.packet.type = "POS" => client'[p].view[q] = f.packet.p
                         /\ f.packet.type = "MOVE" /\ client[p].view[q] # NoPos =>
                              client'[p].view[q] = f.packet.p
  OBVIOUS
<1> DEFINE m == f.packet
           c == client[p]
<1>1. f.dest \in Pids /\ m \in Packets
  BY DEF Functors
<1>2. /\ m.type \in {"POS", "MOVE", "LEAVE", "TALK"} /\ m.pid \in Pids
      /\ c \in Clients /\ client \in [Pids -> Clients]
  BY <1>1 DEF Packets, TypeOK
<1>3. client'[p] = IF f.dest = p /\ Online(p) THEN Receive(c, m) ELSE c
  BY <1>1, <1>2 DEF SendInLoop, Online
<1> HIDE DEF m, c
<1>4. c.view \in Sights
  BY <1>2 DEF Clients
<1>5. m.type = "POS" => Receive(c, m).view = [c.view EXCEPT ![m.pid] = m.p]
  BY <1>2 DEF Receive, Clients
<1>6. m.type = "MOVE" => Receive(c, m).view =
        IF c.view[m.pid] = NoPos THEN c.view ELSE [c.view EXCEPT ![m.pid] = m.p]
  BY <1>2 DEF Receive, Clients
<1>7. m.type = "LEAVE" => Receive(c, m).view = [c.view EXCEPT ![m.pid] = NoPos]
  BY <1>2 DEF Receive, Clients
<1>8. m.type = "TALK" => Receive(c, m).view = c.view
  BY <1>2 DEF Receive, Clients
<1>9. CASE f.dest # p \/ ~Online(p)
  BY <1>3, <1>9 DEF AboutPlayer, c
<1>10. CASE f.dest = p /\ Online(p)
  <2>1. client'[p].view = Receive(c, m).view
    BY <1>3, <1>10
  <2>2. AboutPlayer(p, q, f) <=> m.pid = q /\ m.type # "TALK"
    BY <1>10 DEF AboutPlayer, m
  <2>3. ~AboutPlayer(p, q, f) => client'[p].view[q] = c.view[q]
    BY <1>2, <1>4, <1>5, <1>6, <1>7, <1>8, <2>1, <2>2 DEF Sights
  <2>4. AboutPlayer(p, q, f) =>
          /\ m.type = "POS" => client'[p].view[q] = m.p
          /\ m.type = "MOVE" /\ c.view[q] # NoPos => client'[p].view[q] = m.p
    BY <1>2, <1>4, <1>5, <1>6, <2>1, <2>2 DEF Sights
  <2> QED
    BY <2>3, <2>4 DEF c, m
<1> QED
  BY <1>9, <1>10

\* The order of a queue survives the removal of its first functor.
LEMMA ShiftedQueue ==
  ASSUME NEW p \in Pids, NEW q \in Pids, UNCHANGED <<owner, pos>>,
         Coming(p, q)' = {i \in Nat \ {0} : i + 1 \in Coming(p, q)},
         \A i \in Coming(p, q)' : Packet(p, i)' = Packet(p, i + 1),
         \A i \in Coming(p, q) : i \in Nat \ {0}
  PROVE  /\ FromElsewhere(p, q) => FromElsewhere(p, q)'
         /\ LastIsCurrent(p, q) => LastIsCurrent(p, q)'
         /\ 1 \notin Coming(p, q) /\ FirstIsPos(p, q) => FirstIsPos(p, q)'
         /\ Coming(p, q)' = {} => Coming(p, q) \subseteq {1}
<1>1. ASSUME NEW i \in Coming(p, q)'
      PROVE  i \in Nat \ {0} /\ i + 1 \in Coming(p, q)
  BY <1>1
<1>2. ASSUME NEW i \in Coming(p, q), i # 1
      PROVE  /\ i - 1 \in Coming(p, q)' /\ i \in Nat
             /\ Packet(p, i - 1)' = Packet(p, i)
  <2>1. i - 1 \in Nat \ {0} /\ (i - 1) + 1 = i
    BY <1>2
  <2>2. i - 1 \in Coming(p, q)'
    BY <2>1
  <2> QED
    BY <2>1, <2>2
<1>3. FromElsewhere(p, q) => FromElsewhere(p, q)'
  BY <1>1 DEF FromElsewhere
<1>4. ASSUME LastIsCurrent(p, q), NEW i \in Coming(p, q)', \A j \in Coming(p, q)' : j <= i
      PROVE  Packet(p, i)'.p = pos'[q]
  <2>1. i \in Nat /\ i + 1 \in Coming(p, q)
    BY <1>1
  <2>2. ASSUME NEW j \in Coming(p, q)
        PROVE  j <= i + 1
    <3>1. CASE j = 1
      BY <2>1, <3>1
    <3>2. CASE j # 1
      <4>1. j \in Nat /\ j - 1 <= i
        BY <1>2, <1>4, <3>2
      <4> QED
        BY <2>1, <4>1
    <3> QED
      BY <3>1, <3>2
  <2>3. Packet(p, i + 1).p = pos[q]
    BY <1>4, <2>1, <2>2 DEF LastIsCurrent
  <2> QED
    BY <2>3
<1>5. ASSUME 1 \notin Coming(p, q), FirstIsPos(p, q)
      PROVE  FirstIsPos(p, q)'
  <2>1. PICK i \in Coming(p, q) :
          Packet(p, i).type = "POS" /\ \A j \in Coming(p, q) : i <= j
    BY <1>5 DEF FirstIsPos
  <2>2. i \in Nat /\ i - 1 \in Coming(p, q)' /\ Packet(p, i - 1)'.type = "POS"
    BY <1>2, <1>5, <2>1
  <2>3. ASSUME NEW j \in Coming(p, q)'
        PROVE  i - 1 <= j
    BY <1>1, <2>1, <2>2, <2>3
  <2> QED
    BY <2>2, <2>3 DEF FirstIsPos
<1>6. Coming(p, q)' = {} => Coming(p, q) \subseteq {1}
  BY <1>2
<1> QED
  BY <1>3, <1>4, <1>5, <1>6 DEF LastIsCurrent

\* What a functor shows is what was to be shown next.
LEMMA RunMeet ==
  ASSUME IndInv, QueuedInLoop, AllMeet, NEW w \in IoThreads, RunFunctor(w)
  PROVE  AllMeet'
<1>1. PICK f : f = Head(pending[w])
  OBVIOUS
<1>2. /\ f \in Functors /\ owner[f.dest] = w
      /\ client' = SendInLoop(client, f.dest, f.packet)
  <2>1. pending[w] \in Seq(Functors) /\ pending[w] # <<>>
    BY DEF RunFunctor, IndInv, TypeOK, Control, BatchLeft
  <2>2. f = pending[w][1] /\ 1 \in DOMAIN pending[w] /\ f \in Functors
    BY <1>1, <2>1
  <2> QED
    BY <1>1, <2>2 DEF QueuedInLoop, RunFunctor
<1>3. /\ UNCHANGED <<owner, pos, conn, cur, job, toRead, snap, info>>
      /\ pc[w] = "functors" /\ cur[w] = 0
  BY DEF RunFunctor, world, locals, IndInv, Control, ServesOwn
<1>4. Environment(w) \/ Step(w)
  BY DEF Step
<1>5. ASSUME NEW p \in Pids, NEW q \in Pids, owner[p] = w
      PROVE  /\ ~StillToMeet(p, q) /\ ~StillToMeet(p, q)'
             /\ ~StillToTell(p, q) /\ ~StillToTell(p, q)'
             /\ Shown(p, q) = client[p].view[q]
             /\ Shown(p, q)' = client'[p].view[q]
  BY <1>3, <1>5 DEF StillToMeet, StillToTell, Shown, Pids
<1>6. \A p \in Pids : Online(p)' =>
        Online(p) /\ GetGridByPosition(pos'[p]) = GetGridByPosition(pos[p])
  BY <1>3 DEF Online
<1> SUFFICES ASSUME NEW p \in Pids, NEW q \in Pids, Online(p), Online(q),
                    Visible(p, q), Visible(q, p)
             PROVE  Meeting(p, q)'
  BY <1>6, AllPairs
<1>7. Meeting(p, q) /\ TypeOK
  BY DEF AllMeet, IndInv
<1>8. CASE owner[p] # w
  <2>1. SameQueue(p, q)
    BY <1>8, RunComing
  <2>2. client'[p].view[q] = client[p].view[q]
    BY <1>2, <1>7, <1>8, HeadShown DEF AboutPlayer
  <2>3. owner[q] = w => SeenBy(q, p)
    BY <1>3, <1>5 DEF SeenBy
  <2> QED
    BY <1>3, <1>4, <1>7, <1>8, <2>1, <2>2, <2>3, PairKept
<1>9. CASE owner[p] = w
  <2>1. /\ Coming(p, q)' = {i \in Nat \ {0} : i + 1 \in Coming(p, q)}
        /\ \A i \in Coming(p, q)' : Packet(p, i)' = Packet(p, i + 1)
        /\ \A i \in Coming(p, q) : i \in Nat \ {0}
        /\ 1 \in Coming(p, q) <=> AboutPlayer(p, q, f)
        /\ 1 \in Coming(p, q) => Packet(p, 1) = f.packet
    BY <1>1, <1>9, RunComing
  <2>2. /\ FromElsewhere(p, q) => FromElsewhere(p, q)'
        /\ LastIsCurrent(p, q) => LastIsCurrent(p, q)'
        /\ 1 \notin Coming(p, q) /\ FirstIsPos(p, q) => FirstIsPos(p, q)'
        /\ Coming(p, q)' = {} => Coming(p, q) \subseteq {1}
    BY <1>3, <2>1, ShiftedQueue
  <2>3. /\ StillToMeet(q, p)' <=> StillToMeet(q, p)
        /\ StillToTell(q, p)' <=> StillToTell(q, p)
    <3>1. CASE owner[q] = w
      BY <1>5, <3>1
    <3>2. CASE owner[q] # w
      BY <1>3, <1>4, <3>2, Elsewhere
    <3> QED
      BY <3>1, <3>2
  <2>4. /\ Met(p, q)' <=> Met(p, q)
        /\ Met(p, q) <=> ~StillToMeet(q, p)
        /\ Shown(p, q) = client[p].view[q] /\ Shown(p, q)' = client'[p].view[q]
    BY <1>5, <1>9, <2>3 DEF Met
  <2>5. CASE ~AboutPlayer(p, q, f)
    <3>1. Shown(p, q)' = Shown(p, q)
      BY <1>2, <1>7, <2>4, <2>5, HeadShown
    <3>2. Coming(p, q) = {} <=> Coming(p, q)' = {}
      BY <2>1, <2>2, <2>5
    <3> QED
      BY <1>3, <1>7, <2>1, <2>2, <2>3, <2>4, <2>5, <3>1, <3>2 DEF Meeting
  <2>6. CASE AboutPlayer(p, q, f)
    <3>1. Met(p, q) /\ f.packet.type \in {"POS", "MOVE"} /\ f.packet.p # NoPos
      BY <1>7, <2>1, <2>4, <2>6 DEF Meeting, FromElsewhere
    <3>2. Shown(p, q) = NoPos => f.packet.type = "POS"
      <4>1. ASSUME FirstIsPos(p, q)
            PROVE  f.packet.type = "POS"
        <5>1. PICK i \in Coming(p, q) :
                Packet(p, i).type = "POS" /\ \A j \in Coming(p, q) : i <= j
          BY <4>1 DEF FirstIsPos
        <5>2. i = 1
          BY <2>1, <2>6, <5>1
        <5> QED
          BY <2>1, <5>1, <5>2
      <4> QED
        BY <1>7, <3>1, <4>1 DEF Meeting
    <3>3. Shown(p, q)' = f.packet.p
      BY <1>2, <1>7, <2>4, <2>6, <3>1, <3>2, HeadShown
    <3>4. ASSUME ~StillToTell(q, p)', Coming(p, q)' = {}
          PROVE  Shown(p, q)' = pos'[q]
      <4>1. Coming(p, q) = {1} /\ LastIsCurrent(p, q)
        BY <1>7, <2>1, <2>2, <2>3, <2>6, <3>4 DEF Meeting
      <4>2. Packet(p, 1).p = pos[q]
        BY <4>1 DEF LastIsCurrent
      <4> QED
        BY <1>3, <2>1, <2>6, <3>3, <4>2
    <3> QED
      BY <1>7, <2>2, <2>3, <2>4, <3>1, <3>3, <3>4 DEF Meeting
  <2> QED
    BY <2>5, <2>6
<1> QED
  BY <1>8, <1>9

-----------------------------------------------------------------------------
(***************************************************************************)
(* The theorems.                                                           *)
(***************************************************************************)

LEMMA InitMeeting ==
  ASSUME Init
  PROVE  MeetingInv
<1>1. \A p \in Pids : ~Online(p)
  BY DEF Init, Online
<1>2. QueuedPids
  BY DEF Init, QueuedPids
<1> QED
  BY <1>1, <1>2 DEF MeetingInv, AllUnseen, Arriving, AllMeet

\* Every step leaves each pair as it is or brings it on its way.
LEMMA NextMeet ==
  ASSUME IndInv, QueuedInLoop, MeetingInv, Staying, Staying', [Next]_vars
  PROVE  AllMeet'
<1>0. QueuedPids /\ AllUnseen /\ AllMeet
  BY DEF MeetingInv
<1>1. ASSUME NEW w \in IoThreads, Environment(w)
      PROVE  AllMeet'
  BY <1>0, <1>1, CreateMeet, ServeMeet DEF Environment
<1>2. ASSUME NEW w \in IoThreads, Step(w)
      PROVE  AllMeet'
  <2>1. CASE \/ AddPlayer(w) \/ AddPlayerToGrid(w) \/ SyncPid(w)
             \/ GetPlayerByPid(w) \/ UpdatePos(w)
    BY <1>0, <2>1, EnterMeet, LookupMeet, UpdatePosMeet
  <2>2. CASE LockShared(w) \/ ReadGrid(w) \/ UnlockShared(w)
    BY <1>0, <2>2, LockMeet, ReadMeet, UnlockMeet
  <2>3. CASE \/ GetAllPlayers(w) \/ NextPart(w)
             \/ RemovePlayerFromGrid(w) \/ ErasePlayer(w) \/ TakeFunctors(w)
    BY <1>0, <2>3, OtherJobsMeet
  <2>4. ASSUME NEW q \in snap[w],
               SendSync(w, q) \/ SendMove(w, q) \/ SendTalk(w, q) \/ SendLeave(w, q)
        PROVE  AllMeet'
    BY <1>0, <2>4, SyncMeet, MoveMeet, TalkMeet
  <2>5. CASE SendSyncPlayers(w) \/ RunFunctor(w)
    BY <1>0, <2>5, SyncPlayersMeet, RunMeet
  <2>6. /\ ~LeaveGrid(w) /\ ~EnterGrid(w)
        /\ \A q \in snap[w] : ~SendVanish(w, q) /\ ~SendEmerge(w, q)
    BY DEF Staying, LeaveGrid, EnterGrid, SendVanish, SendEmerge, Sending
  <2> QED
    BY <1>2, <2>1, <2>2, <2>3, <2>4, <2>5, <2>6 DEF Step
<1>3. CASE UNCHANGED vars
  <2>1. UNCHANGED <<pos, owner, conn, pc, job, cur, toRead, snap, info, client, pending>>
    BY <1>3 DEF vars, world, lock, locals, network
  <2>2. ASSUME NEW p \in Pids, NEW q \in Pids
        PROVE  Meeting(p, q)' <=> Meeting(p, q)
    <3>1. /\ \A r, x \in Pids : StillToMeet(r, x)' <=> StillToMeet(r, x)
          /\ \A r, x \in Pids : StillToTell(r, x)' <=> StillToTell(r, x)
      BY <2>1 DEF StillToMeet, StillToTell, StillToServe
    <3>2. /\ Coming(p, q)' = Coming(p, q) /\ \A i : Packet(p, i)' = Packet(p, i)
          /\ Shown(p, q)' = Shown(p, q)
      BY <2>1 DEF Coming, Packet, Shown
    <3>3. /\ FromElsewhere(p, q)' <=> FromElsewhere(p, q)
          /\ LastIsCurrent(p, q)' <=> LastIsCurrent(p, q)
          /\ FirstIsPos(p, q)' <=> FirstIsPos(p, q)
      BY <2>1, <3>2 DEF FromElsewhere, LastIsCurrent, FirstIsPos
    <3> QED
      BY <2>1, <3>1, <3>2, <3>3 DEF Meeting, Met
  <2> QED
    BY <1>0, <2>1, <2>2 DEF AllMeet, Online, Visible
<1> QED
  BY <1>1, <1>2, <1>3 DEF Next, Polling

\* However many event loops there are, as long as nobody crosses from one grid
\* to another, of two players that see each other one has still to look for the
\* other, or each is on the other's screen or in the packets queued for it, and
\* the last packet says where the other is.
THEOREM MeetingInvariance == Spec /\ []Staying => []MeetingInv
<1>1. Init => MeetingInv
  BY InitMeeting
<1>2. IndInv /\ QueuedInLoop /\ MeetingInv /\ Staying /\ Staying' /\ [Next]_vars =>
        MeetingInv'
  <2> SUFFICES ASSUME IndInv, QueuedInLoop, MeetingInv, Staying, Staying', [Next]_vars
               PROVE  MeetingInv'
    OBVIOUS
  <2>1. QueuedPids /\ AllUnseen
    BY DEF MeetingInv
  <2>2. QueuedPids' /\ AllUnseen'
    BY <2>1, PidsStep, UnseenStep
  <2>3. AllMeet'
    BY NextMeet
  <2> QED
    BY <2>2, <2>3 DEF MeetingInv
<1>3. NetworkInv => QueuedInLoop
  BY DEF NetworkInv
<1> QED
  BY <1>1, <1>2, <1>3, Invariance, NetworkInvariance, PTL DEF Spec

\* However many event loops there are, as long as nobody crosses from one grid
\* to another, a client is shown every player around its own, at the place where
\* it is: whoever of two comes later finds the other, and no order of initPlayer,
\* UpdatePos and the functors they queue loses a player or its last position.
THEOREM NobodyMissingWhileStaying == Spec /\ []Staying => []NobodyMissing
<1>1. ASSUME IndInv, MeetingInv
      PROVE  NobodyMissing
  <2> SUFFICES ASSUME Quiescent, NEW p \in players_, NEW q \in players_, Visible(p, q)
               PROVE  client[p].view[q] = pos[q]
    BY DEF NobodyMissing
  <2>1. p \in Pids /\ q \in Pids
    BY <1>1 DEF IndInv, TypeOK
  <2>2. /\ Online(p) /\ Online(q)
        /\ owner[p] \in IoThreads /\ owner[q] \in IoThreads
    BY <1>1, <2>1, RegisteredOnline
  <2>3. cur[owner[p]] = 0 /\ cur[owner[q]] = 0 /\ pending[owner[p]] = <<>>
    BY <1>1, <2>2 DEF Quiescent, IndInv, Control, ServesOwn
  <2>4. /\ Met(p, q) /\ ~StillToTell(q, p)
        /\ Shown(p, q) = client[p].view[q]
    BY <2>1, <2>3, NotServed DEF Met, Pids
  <2>5. Coming(p, q) = {}
    BY <2>3 DEF Coming
  <2>6. Meeting(p, q)
    BY <1>1, <2>1, <2>2 DEF MeetingInv, AllMeet
  <2> QED
    BY <2>4, <2>5, <2>6 DEF Meeting
<1> QED
  BY <1>1, Invariance, MeetingInvariance, PTL

\* No step leads out of a grid when nobody asks for a position in another one.
LEMMA ConfinedStep ==
  ASSUME NoCrossing, IndInv, Confined, [Next]_vars
  PROVE  Confined'
<1> USE DEF Staying, Goto, Begin, Return, lock, locals, network
<1>0. TypeOK
  BY DEF IndInv
<1>1. ASSUME UNCHANGED <<global_player_id, pos, to>>, NEW t \in IoThreads,
             \A u \in IoThreads : \/ job'[u] = job[u]
                                  \/ job'[u] \in {"none", "sync", "close", "chat"},
             \A u \in IoThreads : pc'[u] = pc[u] \/ pc'[u] \notin {"leaveGrid", "enterGrid"}
      PROVE  Confined'
  BY <1>1 DEF Confined
<1>2. ASSUME NEW t \in IoThreads, NEW at \in SpawnPositions, CreateNewPlayer(t, at)
      PROVE  Confined'
  BY <1>0, <1>2 DEF CreateNewPlayer, Confined, TypeOK, Pids
<1>3. ASSUME NEW t \in IoThreads, NEW p \in Pids, NEW at \in Positions, RequestMove(t, p, at)
      PROVE  Confined'
  BY <1>0, <1>3 DEF RequestMove, Serve, Confined, TypeOK
<1>4. ASSUME NEW t \in IoThreads, NEW p \in Pids, RequestChat(t, p) \/ Disconnect(t, p)
      PROVE  Confined'
  <2>1. UNCHANGED <<global_player_id, pos, to>>
    BY <1>4 DEF RequestChat, Disconnect, Serve
  <2>2. CASE RequestChat(t, p)
    BY <1>0, <1>1, <2>1, <2>2, ZenonT(60) DEF RequestChat, Serve, TypeOK
  <2>3. CASE Disconnect(t, p)
    BY <1>0, <1>1, <2>1, <2>3, ZenonT(60) DEF Disconnect, Serve, TypeOK
  <2> QED
    BY <1>4, <2>2, <2>3
<1>5. ASSUME NEW t \in IoThreads,
             AddPlayer(t) \/ AddPlayerToGrid(t) \/ SyncPid(t) \/ GetPlayerByPid(t)
      PROVE  Confined'
  <2>1. UNCHANGED <<global_player_id, pos, to>>
    BY <1>5 DEF AddPlayer, AddPlayerToGrid, SyncPid, GetPlayerByPid, world
  <2>2. CASE AddPlayer(t) \/ AddPlayerToGrid(t)
    BY <1>0, <1>1, <2>1, <2>2, ZenonT(60) DEF AddPlayer, AddPlayerToGrid, TypeOK
  <2>3. CASE SyncPid(t) \/ GetPlayerByPid(t)
    BY <1>0, <1>1, <2>1, <2>3, ZenonT(60) DEF SyncPid, GetPlayerByPid, TypeOK
  <2> QED
    BY <1>5, <2>2, <2>3
<1>6. ASSUME NEW t \in IoThreads, UpdatePos(t)
      PROVE  Confined'
  <2>1. job[t] = "move" /\ cur[t] \in Pids /\ cur[t] < global_player_id
    BY <1>6, ServedPlayer DEF UpdatePos, IndInv, Control, PartAt
  <2>2. to[t] \in Positions /\ pos[cur[t]] \in SpawnPositions \cup Positions
    BY <2>1 DEF Confined
  <2>3. GetGridByPosition(pos[cur[t]]) = GetGridByPosition(to[t])
    BY <2>2 DEF NoCrossing
  <2> QED
    BY <1>0, <1>6, <2>1, <2>2, <2>3 DEF UpdatePos, Confined, TypeOK
<1>7. ASSUME NEW t \in IoThreads, LeaveGrid(t) \/ EnterGrid(t)
      PROVE  Confined'
  BY <1>7 DEF LeaveGrid, EnterGrid, Confined
<1>8. ASSUME NEW t \in IoThreads,
             LockShared(t) \/ ReadGrid(t) \/ UnlockShared(t) \/ GetAllPlayers(t)
      PROVE  Confined'
  BY <1>0, <1>1, <1>8 DEF LockShared, ReadGrid, UnlockShared, GetAllPlayers, TypeOK, world
<1>9. ASSUME NEW t \in IoThreads, NEW q \in snap[t],
             \/ SendSync(t, q) \/ SendVanish(t, q) \/ SendEmerge(t, q)
             \/ SendMove(t, q) \/ SendTalk(t, q) \/ SendLeave(t, q)
      PROVE  Confined'
  <2>1. UNCHANGED <<world, pc, job, to>>
    BY <1>9, SentPacket DEF Confined
  <2> QED
    BY <1>1, <2>1 DEF world
<1>10. ASSUME NEW t \in IoThreads, NextPart(t)
      PROVE  Confined'
  <2>1. job[t] \notin {"vanish", "emerge"}
    BY DEF Confined
  <2>2. \/ UNCHANGED <<pos, global_player_id, to>> /\ job'[t] \in {"none", "sync", "close"}
        \/ /\ UNCHANGED <<pos, global_player_id>> /\ job'[t] = "none"
    BY <1>0, <1>10, <2>1 DEF NextPart, TypeOK, world
  <2>3. /\ pc'[t] \notin {"leaveGrid", "enterGrid"}
        /\ \A u \in IoThreads \ {t} : pc'[u] = pc[u] /\ job'[u] = job[u] /\ to'[u] = to[u]
    BY <1>0, <1>10, <2>1 DEF NextPart, TypeOK
  <2> QED
    BY <2>2, <2>3 DEF Confined
<1>11. ASSUME NEW t \in IoThreads, SendSyncPlayers(t) \/ ErasePlayer(t)
      PROVE  Confined'
  <2>1. UNCHANGED <<global_player_id, pos>> /\ Return(t)
    BY <1>11 DEF SendSyncPlayers, ErasePlayer, world
  <2>2. /\ job'[t] = "none" /\ pc'[t] = "idle"
        /\ \A u \in IoThreads \ {t} : pc'[u] = pc[u] /\ job'[u] = job[u] /\ to'[u] = to[u]
    BY <1>0, <2>1 DEF TypeOK
  <2> QED
    BY <2>1, <2>2 DEF Confined
<1>12. ASSUME NEW t \in IoThreads, RemovePlayerFromGrid(t) \/ TakeFunctors(t) \/ RunFunctor(t)
      PROVE  Confined'
  BY <1>0, <1>1, <1>12 DEF RemovePlayerFromGrid, TakeFunctors, RunFunctor, TypeOK, world
<1>13. CASE UNCHANGED vars
  BY <1>13 DEF vars, world, Confined
<1> QED
  BY <1>2, <1>3, <1>4, <1>5, <1>6, <1>7, <1>8, <1>9, <1>10, <1>11, <1>12, <1>13
  DEF Next, Environment, Step, Polling

\* That is how it is when all the positions clients ask for are in the grid where
\* players start.
THEOREM AlwaysStaying ==
  ASSUME NoCrossing
  PROVE  Spec => []Staying
<1>1. Init => Confined
  BY DEF Init, Confined, Staying, Pids
<1>2. IndInv /\ Confined /\ [Next]_vars => Confined'
  BY ConfinedStep
<1>3. Confined => Staying
  BY DEF Confined
<1> QED
  BY <1>1, <1>2, <1>3, Invariance, PTL DEF Spec

\* So in one grid nobody is ever missing, however many event loops there are.
THEOREM OneGridNobodyMissing ==
  ASSUME NoCrossing
  PROVE  Spec => []NobodyMissing
BY AlwaysStaying, NobodyMissingWhileStaying, PTL
=============================================================================

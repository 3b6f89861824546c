------------------------------ MODULE AiClient ------------------------------
(***************************************************************************)
(* The AI client: main starts THREAD_NUM threads, each with one Player     *)
(* that joins the game and waits until its connection is gone.  All        *)
(* callbacks and timers of all Players run in the one event loop of main,  *)
(* one at a time; they interleave with the steps of the threads.           *)
(*                                                                         *)
(* The server is here what one connection sees of it: SYNC_PID, then the   *)
(* player's own position, later the positions of other players, and the    *)
(* own one again when a move leads out of sight of where the player was    *)
(* (it is then in one of its own nascent grids).  Packets that the client  *)
(* ignores are left out, and so are packets that do not parse: the server  *)
(* sends none.  A Player is named by the pid the server gives it.          *)
(***************************************************************************)
EXTENDS AOI, Sequences, FiniteSets

CONSTANTS
  ThreadNum,       \* THREAD_NUM
  SpawnPositions,  \* what getRandomPosition of the server may return
  MaxStep,         \* largest distance a robot moves along an axis
  MaxActions,      \* bound: actions of a robot
  NoPos            \* no position

Clients == 1 .. ThreadNum

\* A robot's timers are numbered: its own position can reach it once at the
\* login and twice after each move.
Timers == 1 .. 2 * MaxActions + 1

\* The distances a robot draws.
Distances == 0 .. MaxStep

ASSUME RobotAssumption ==
  /\ ThreadNum \in Nat \ {0}
  /\ MaxStep \in Nat
  /\ MaxActions \in Nat
  /\ NoPos \notin Coordinates
  /\ SpawnPositions \subseteq Coordinates

\* exited_client_num, which counts the threads, has 16 bits.
ASSUME CounterAssumption == ThreadNum < 65536

\* A move goes left and down, or right and up, from pos_.
Targets(p) ==
  {[X |-> p.X + s * x, Z |-> p.Z + s * z] : s \in {-1, 1}, x, z \in Distances}

\* Robots move by up to 10, grids are 20 long, and players appear at least 160
\* away from the borders of the map.
ASSUME StrideAssumption ==
  /\ MaxStep + MaxStep <= CellSize
  /\ \A p \in SpawnPositions : \A q \in Targets(p) : OnMap(q)

VARIABLES
  main,       \* where main is: "start", "Loop", "join" or "done"
  quit,       \* quit flag of the loop
  exited_client_num,
  thread,     \* where each client thread is
  alive,      \* whether its Player exists
  promise_,   \* whether the Player's promise_ is set
  conn,       \* state of its connection
  inbox,      \* packets it has not handled yet
  id_,        \* Player::id_
  pos_,       \* Player::pos_
  timerId_,   \* Player::timerId_
  starts,     \* how often the robot was started
  timers,     \* periodic timers of the loop that call AiRobotAction
  shutdowns,  \* one-shot timers of the loop that call Shutdown
  at,         \* where the server has the player
  actions     \* actions of the robot so far

process == <<main, quit, exited_client_num, thread, alive>>
net     == <<conn, inbox, at>>
robot   == <<id_, pos_, timerId_, starts, timers, shutdowns, actions>>
vars    == <<process, promise_, net, robot>>

Packet(type, pid, p) == [type |-> type, pid |-> pid, p |-> p]

Places == Coordinates \cup {NoPos}
Packets == [type : {"SYNC_PID", "POS"}, pid : Clients, p : Places]

TypeOK ==
  /\ main \in {"start", "Loop", "join", "done"}
  /\ quit \in BOOLEAN
  /\ exited_client_num \in 0 .. ThreadNum
  /\ thread \in [Clients -> {"NewClient", "Join", "WaitPlayExit", "fetch_add",
                             "destroy", "done"}]
  /\ alive \in [Clients -> BOOLEAN]
  /\ promise_ \in [Clients -> BOOLEAN]
  /\ conn \in [Clients -> {"none", "connecting", "up", "shutdown", "down"}]
  /\ inbox \in [Clients -> Seq(Packets)]
  /\ id_ \in [Clients -> Clients \cup {-1}]
  /\ pos_ \in [Clients -> Places]
  /\ timerId_ \in [Clients -> Timers \cup {-1}]
  /\ starts \in [Clients -> {0} \cup Timers]
  /\ timers \in [Clients -> SUBSET Timers]
  /\ shutdowns \in [Clients -> SUBSET Timers]
  /\ at \in [Clients -> Places]
  /\ actions \in [Clients -> 0 .. MaxActions]

Init ==
  /\ main = "start"
  /\ quit = FALSE
  /\ exited_client_num = 0
  /\ thread = [c \in Clients |-> "NewClient"]
  /\ alive = [c \in Clients |-> FALSE]
  /\ promise_ = [c \in Clients |-> FALSE]
  /\ conn = [c \in Clients |-> "none"]
  /\ inbox = [c \in Clients |-> <<>>]
  /\ id_ = [c \in Clients |-> -1]
  /\ pos_ = [c \in Clients |-> NoPos]
  /\ timerId_ = [c \in Clients |-> -1]
  /\ timers = [c \in Clients |-> {}]
  /\ starts = [c \in Clients |-> 0]
  /\ shutdowns = [c \in Clients |-> {}]
  /\ at = [c \in Clients |-> NoPos]
  /\ actions = [c \in Clients |-> 0]

-----------------------------------------------------------------------------
(***************************************************************************)
(* main and the client threads.                                            *)
(***************************************************************************)

EnterLoop ==
  /\ main = "start"
  /\ main' = "Loop"
  /\ UNCHANGED <<quit, exited_client_num, thread, alive, promise_, net, robot>>

LeaveLoop ==
  /\ main = "Loop"
  /\ quit
  /\ main' = "join"
  /\ UNCHANGED <<quit, exited_client_num, thread, alive, promise_, net, robot>>

JoinThreads ==
  /\ main = "join"
  /\ \A c \in Clients : thread[c] = "done"
  /\ main' = "done"
  /\ UNCHANGED <<quit, exited_client_num, thread, alive, promise_, net, robot>>

Main == EnterLoop \/ LeaveLoop \/ JoinThreads

NewClient(c) ==
  /\ thread[c] = "NewClient"
  /\ thread' = [thread EXCEPT ![c] = "Join"]
  /\ alive' = [alive EXCEPT ![c] = TRUE]
  /\ UNCHANGED <<main, quit, exited_client_num, promise_, net, robot>>

\* client_->Connect(): the loop will connect.
Join(c) ==
  /\ thread[c] = "Join"
  /\ thread' = [thread EXCEPT ![c] = "WaitPlayExit"]
  /\ conn' = [conn EXCEPT ![c] = "connecting"]
  /\ UNCHANGED <<main, quit, exited_client_num, alive, promise_, inbox, at, robot>>

\* future_.wait() returns.
WaitPlayExit(c) ==
  /\ thread[c] = "WaitPlayExit"
  /\ promise_[c]
  /\ thread' = [thread EXCEPT ![c] = "fetch_add"]
  /\ UNCHANGED <<main, quit, exited_client_num, alive, promise_, net, robot>>

\* Mutant: the client before the last one makes the loop quit.
CountExitEarly(c) ==
  /\ thread[c] = "fetch_add"
  /\ exited_client_num' = exited_client_num + 1
  /\ quit' = (quit \/ exited_client_num + 1 >= ThreadNum - 1)
  /\ thread' = [thread EXCEPT ![c] = "destroy"]
  /\ UNCHANGED <<main, alive, promise_, net, robot>>

\* The last client to exit makes the loop quit.
CountExit(c) ==
  /\ thread[c] = "fetch_add"
  /\ exited_client_num' = exited_client_num + 1
  /\ quit' = (quit \/ exited_client_num + 1 = ThreadNum)
  /\ thread' = [thread EXCEPT ![c] = "destroy"]
  /\ UNCHANGED <<main, alive, promise_, net, robot>>

\* Mutant: the thread goes on with a new Player.
PlayAgain(c) ==
  /\ thread[c] = "destroy"
  /\ thread' = [thread EXCEPT ![c] = "NewClient"]
  /\ alive' = [alive EXCEPT ![c] = FALSE]
  /\ promise_' = [promise_ EXCEPT ![c] = FALSE]
  /\ UNCHANGED <<main, quit, exited_client_num, net, robot>>

\* The function of the thread returns and destroys its Player.
DestroyPlayer(c) ==
  /\ thread[c] = "destroy"
  /\ thread' = [thread EXCEPT ![c] = "done"]
  /\ alive' = [alive EXCEPT ![c] = FALSE]
  /\ UNCHANGED <<main, quit, exited_client_num, promise_, net, robot>>

Thread(c) ==
  \/ NewClient(c) \/ Join(c) \/ WaitPlayExit(c) \/ CountExit(c) \/ DestroyPlayer(c)

-----------------------------------------------------------------------------
(***************************************************************************)
(* Connections.                                                            *)
(***************************************************************************)

\* Clients whose connection can still carry packets of the server.
Reachable == {c \in Clients : conn[c] \in {"up", "shutdown"}}

\* The server tells all of them something.
Broadcast(m) ==
  [d \in Clients |-> IF d \in Reachable THEN Append(inbox[d], m) ELSE inbox[d]]

\* Mutant: the server sends the position before the pid.
EstablishedPosFirst(c, p) ==
  /\ main = "Loop"
  /\ conn[c] = "connecting"
  /\ conn' = [conn EXCEPT ![c] = "up"]
  /\ at' = [at EXCEPT ![c] = p]
  /\ inbox' = [Broadcast(Packet("POS", c, p)) EXCEPT
                 ![c] = <<Packet("POS", c, p), Packet("SYNC_PID", c, NoPos)>>]
  /\ UNCHANGED <<process, promise_, robot>>

\* The connection is up, and the server runs initPlayer for it.
Established(c, p) ==
  /\ main = "Loop"
  /\ conn[c] = "connecting"
  /\ conn' = [conn EXCEPT ![c] = "up"]
  /\ at' = [at EXCEPT ![c] = p]
  /\ inbox' = [Broadcast(Packet("POS", c, p)) EXCEPT
                 ![c] = <<Packet("SYNC_PID", c, NoPos), Packet("POS", c, p)>>]
  /\ UNCHANGED <<process, promise_, robot>>

\* The connection goes down, at any time or in answer to the shutdown: the
\* connection callback cancels the timer it knows of and sets the promise.
ConnectionDown(c) ==
  /\ main = "Loop"
  /\ c \in Reachable
  /\ conn' = [conn EXCEPT ![c] = "down"]
  /\ inbox' = [inbox EXCEPT ![c] = <<>>]
  /\ timers' = [timers EXCEPT ![c] = @ \ {timerId_[c]}]
  /\ promise_' = [promise_ EXCEPT ![c] = TRUE]
  /\ UNCHANGED <<process, at, id_, pos_, timerId_, starts, shutdowns, actions>>

-----------------------------------------------------------------------------
(***************************************************************************)
(* HandleMessage, one packet at a time.                                    *)
(***************************************************************************)

Handling(c) ==
  /\ main = "Loop"
  /\ c \in Reachable
  /\ inbox[c] # <<>>
  /\ inbox' = [inbox EXCEPT ![c] = Tail(@)]
  /\ UNCHANGED <<process, promise_, conn, at, actions>>

SyncPid(c) ==
  /\ Handling(c)
  /\ Head(inbox[c]).type = "SYNC_PID"
  /\ id_' = [id_ EXCEPT ![c] = Head(inbox[c]).pid]
  /\ UNCHANGED <<pos_, timerId_, starts, timers, shutdowns>>

\* Mutant: any position starts the robot.
HandleAnyBroadcast(c) ==
  LET m == Head(inbox[c])
      k == starts[c] + 1
  IN
  /\ Handling(c)
  /\ m.type = "POS"
  /\ pos_' = [pos_ EXCEPT ![c] = m.p]
  /\ starts' = [starts EXCEPT ![c] = k]
  /\ timerId_' = [timerId_ EXCEPT ![c] = k]
  /\ timers' = [timers EXCEPT ![c] = @ \cup {k}]
  /\ shutdowns' = [shutdowns EXCEPT ![c] = @ \cup {k}]
  /\ UNCHANGED id_

\* The own position starts the robot: RunEvery and RunAfter.
HandleBroadcast(c) ==
  LET m == Head(inbox[c])
      k == starts[c] + 1
  IN
  /\ Handling(c)
  /\ m.type = "POS"
  /\ \/ /\ m.pid = id_[c]
        /\ pos_' = [pos_ EXCEPT ![c] = m.p]
        /\ starts' = [starts EXCEPT ![c] = k]
        /\ timerId_' = [timerId_ EXCEPT ![c] = k]
        /\ timers' = [timers EXCEPT ![c] = @ \cup {k}]
        /\ shutdowns' = [shutdowns EXCEPT ![c] = @ \cup {k}]
     \/ /\ m.pid # id_[c]
        /\ UNCHANGED <<pos_, timerId_, starts, timers, shutdowns>>
  /\ UNCHANGED id_

-----------------------------------------------------------------------------
(***************************************************************************)
(* The timers.                                                             *)
(***************************************************************************)

\* What the server does with a move: MoveHandler, UpdatePos.  When its new grid
\* is one of the nascent ones, the player is in its own snapshot: it is shown to
\* itself once as the other player and once as the one that moved.
ServeMove(c, p) ==
  LET own == Packet("POS", c, p) IN
  IF conn[c] # "up" THEN UNCHANGED net
  ELSE /\ at' = [at EXCEPT ![c] = p]
       /\ inbox' = IF GetGridByPosition(p) \in NascentGrids(at[c], p)
                   THEN [inbox EXCEPT ![c] = @ \o <<own, own>>]
                   ELSE inbox
       /\ UNCHANGED conn

Acting(c) ==
  /\ main = "Loop"
  /\ timers[c] # {}
  /\ actions[c] < MaxActions
  /\ actions' = [actions EXCEPT ![c] = @ + 1]
  /\ UNCHANGED <<process, promise_, id_, timerId_, starts, timers, shutdowns>>

\* Mutant: the robot moves on from where it has moved to.
AiRobotWalk(c) ==
  /\ Acting(c)
  /\ \/ UNCHANGED <<net, pos_>>
     \/ \E p \in Targets(pos_[c]) :
          ServeMove(c, p) /\ pos_' = [pos_ EXCEPT ![c] = p]

\* A periodic timer expires: the robot talks, which no client reacts to, or moves.
AiRobotAction(c) ==
  /\ Acting(c)
  /\ UNCHANGED net \/ \E p \in Targets(pos_[c]) : ServeMove(c, p)
  /\ UNCHANGED pos_

\* A one-shot timer expires: client_->Shutdown(), if there is a connection left.
ShutdownTimer(c) ==
  /\ main = "Loop"
  /\ \E k \in shutdowns[c] : shutdowns' = [shutdowns EXCEPT ![c] = @ \ {k}]
  /\ conn' = [conn EXCEPT ![c] = IF @ = "up" THEN "shutdown" ELSE @]
  /\ UNCHANGED <<process, promise_, inbox, at, id_, pos_, timerId_, starts,
                 timers, actions>>

-----------------------------------------------------------------------------
\* main has returned, or its loop sits in poll.
Over    == main = "done" /\ UNCHANGED vars
Polling == main = "Loop" /\ ~quit /\ UNCHANGED vars

Next ==
  \/ Main
  \/ \E c \in Clients :
       \/ Thread(c)
       \/ \E p \in SpawnPositions : Established(c, p)
       \/ ConnectionDown(c)
       \/ SyncPid(c) \/ HandleBroadcast(c)
       \/ AiRobotAction(c) \/ ShutdownTimer(c)
  \/ Over \/ Polling

Spec == Init /\ [][Next]_vars

\* Threads are scheduled, the server accepts connections and closes those that
\* were shut down, packets arrive, and the shutdown timer expires.
Fairness ==
  /\ WF_vars(Main)
  /\ \A c \in Clients :
       /\ WF_vars(Thread(c))
       /\ WF_vars(\E p \in SpawnPositions : Established(c, p))
       /\ WF_vars(SyncPid(c) \/ HandleBroadcast(c))
       /\ WF_vars(ShutdownTimer(c))
       /\ WF_vars(conn[c] = "shutdown" /\ ConnectionDown(c))

FairSpec == Spec /\ Fairness

-----------------------------------------------------------------------------
(***************************************************************************)
(* Properties.                                                             *)
(***************************************************************************)

\* The periodic timer only runs while there are a Player and a connection:
\* AiRobotAction asserts the connection (ai_client.cpp:129) and counts on the
\* connection callback to cancel the timer before the Player goes
\* (ai_client.cpp:103).  The callback cancels one timer, so the robot must not
\* be started twice: no move may lead out of the player's own sight.
RobotHasConnection ==
  \A c \in Clients : timers[c] # {} => alive[c] /\ c \in Reachable

\* A robot only asks for positions on the map, which the server does not check.
RequestsOnMap == \A c \in Clients : at[c] # NoPos => OnMap(at[c])

\* The loop runs until the last client is gone: when main has left it, every
\* connection that was asked for has been up and is down again, and no robot is
\* left that would never be stopped.
LoopServesAll ==
  main \in {"join", "done"} =>
    \A c \in Clients : conn[c] = "down" /\ timers[c] = {}

\* No timer is left that would call into a Player that is gone.
\* (ai_client.cpp:103 "doesn't worry about that the callback accessing the
\* destroyed Player instance".)
NoStrayTimer ==
  \A c \in Clients :
    timers[c] # {} \/ shutdowns[c] # {} => alive[c]

\* Every client joins, plays and exits, the loop quits and main returns.
\* The robot is started by its own position only when the pid has come first.
AllExit == <>(main = "done")
=============================================================================

------------------------------- MODULE Server -------------------------------
(***************************************************************************)
(* The life of the MMO server process: main builds the server from the     *)
(* configuration, serves until SIGINT stops its loop, and takes everything *)
(* apart again, while the I/O threads run callbacks.                       *)
(*                                                                         *)
(* A part of the process is named by the variable that holds it.  alive is *)
(* the set of parts that exist and are set.  The members of the server     *)
(* are destroyed in the reverse of the order of their declarations.        *)
(***************************************************************************)
EXTENDS Config, FiniteSets

CONSTANTS
  MaxEvents,    \* bound: events the I/O threads see
  MaxPackets,   \* bound: packets one read event brings
  MaxSignals    \* bound: SIGINTs

ASSUME BoundsAssumption ==
  MaxEvents \in Nat /\ MaxPackets \in Nat /\ MaxSignals \in Nat

\* What main sets up before it serves, in order: the members of the server,
\* made by the constructors of AbstractServer and ZinxServer, ...
AbstractServer == <<"loop_", "tcpServer_">>
ZinxServer     == <<"workerPool_", "router_", "decoder_">>

\* ... then the pointer the signal handler uses, the callbacks and handlers, and
\* the world.
Start == <<"g_zinx_server", "onStartCb_", "onCloseCb_", "ChatHandler",
           "MoveHandler", "GlobalWorldManager">>

Setup == AbstractServer \o ZinxServer \o Start

\* Mutant: the loop is declared after the members that use it.
LoopDeclaredLate == <<"tcpServer_", "loop_", "router_", "decoder_", "onStartCb_",
                      "onCloseCb_", "workerPool_">>

\* The members of AbstractServer and ZinxServer as they are declared.
Members == <<"loop_", "tcpServer_", "router_", "decoder_", "onStartCb_",
             "onCloseCb_", "workerPool_">>

Destruction == [i \in 1 .. Len(Members) |-> Members[Len(Members) + 1 - i]]

\* The parts that go with a member: the router holds the handlers.
Owned(m) == IF m = "router_" THEN {m, "ChatHandler", "MoveHandler"} ELSE {m}

Parts == {Setup[i] : i \in 1 .. Len(Setup)} \cup {"protobuf"}

VARIABLES
  pc,       \* where main is
  step,     \* how far it is in Setup or Destruction
  alive,    \* the parts that exist
  quit,     \* quit flag of loop_
  io,       \* what each I/O loop does
  packets,  \* packets left in the input buffer of a HandleOnMessage
  accepted, \* connections handed to each I/O loop and not started yet
  open,     \* connections up in each I/O loop
  events,   \* events seen
  signals   \* SIGINTs sent

threads == <<io, packets, accepted, open, events>>
vars    == <<configVars, pc, step, alive, quit, threads, signals>>

\* io_thread_num loops with a thread each; with none, loop_ does it all (the
\* loop of number 0).
Loops == IF config.io_thread_num = 0 THEN {0} ELSE 1 .. config.io_thread_num

Most(S) == CHOOSE m \in S : \A n \in S : n <= m
LoopIds == 0 .. Most({Defaults.io_thread_num} \cup
                     {f.json["io_thread_num"].value :
                        f \in {g \in ConfigFiles : g.json["io_thread_num"].kind = "number"}})

Labels == {"InitConfig", "setup", "Loop", "ShutdownProtobuf", "destroy",
           "statics", "exited", "aborted"}

\* Where a loop is: in poll or in a callback, while it has a thread.
Places == {"none", "poll", "start", "decode", "route", "close", "ended"}

TypeOK ==
  /\ pc \in Labels
  /\ step \in 1 .. Len(Setup) + 1
  /\ alive \subseteq Parts
  /\ quit \in BOOLEAN
  /\ io \in [LoopIds -> Places]
  /\ packets \in [LoopIds -> 0 .. MaxPackets]
  /\ accepted \in [LoopIds -> 0 .. MaxEvents]
  /\ open \in [LoopIds -> 0 .. MaxEvents]
  /\ events \in 0 .. MaxEvents
  /\ signals \in 0 .. MaxSignals
  /\ loading \in {"open", "parse", "fields", "loaded"}
  /\ field \in 1 .. Len(Keys) + 1

Init ==
  /\ ConfigInit
  /\ pc = "InitConfig"
  /\ step = 1
  /\ alive = {"protobuf"}
  /\ quit = FALSE
  /\ io = [t \in LoopIds |-> "none"]
  /\ packets = [t \in LoopIds |-> 0]
  /\ accepted = [t \in LoopIds |-> 0]
  /\ open = [t \in LoopIds |-> 0]
  /\ events = 0
  /\ signals = 0

-----------------------------------------------------------------------------
(***************************************************************************)
(* main.                                                                   *)
(***************************************************************************)

\* NewZinxServer loads the configuration first.
LoadConfig ==
  /\ pc = "InitConfig"
  /\ \/ InitConfig /\ UNCHANGED pc
     \/ loading = "loaded" /\ pc' = "setup" /\ UNCHANGED configVars
  /\ UNCHANGED <<step, alive, quit, threads, signals>>

Construct ==
  /\ pc = "setup"
  /\ step <= Len(Setup)
  /\ alive' = alive \cup {Setup[step]}
  /\ step' = step + 1
  /\ UNCHANGED <<configVars, pc, quit, threads, signals>>

\* Mutant: the server listens before main has set up everything.
ListenEarly ==
  /\ pc = "setup"
  /\ "tcpServer_" \in alive
  /\ pc' = "Loop"
  /\ step' = 1
  /\ io' = [t \in LoopIds |-> IF t \in Loops THEN "poll" ELSE "none"]
  /\ UNCHANGED <<configVars, alive, quit, packets, accepted, open, events, signals>>

\* ListenAndServe starts the I/O loops and then runs loop_.
ListenAndServe ==
  /\ pc = "setup"
  /\ step > Len(Setup)
  /\ pc' = "Loop"
  /\ step' = 1
  /\ io' = [t \in LoopIds |-> IF t \in Loops THEN "poll" ELSE "none"]
  /\ UNCHANGED <<configVars, alive, quit, packets, accepted, open, events, signals>>

\* loop_.Loop() returns once the quit flag is set, after the callback it runs.
LeaveLoop ==
  /\ pc = "Loop"
  /\ quit
  /\ io[0] \in {"none", "poll"}
  /\ pc' = "ShutdownProtobuf"
  /\ io' = [io EXCEPT ![0] = IF @ = "poll" THEN "ended" ELSE @]
  /\ UNCHANGED <<configVars, step, alive, quit, packets, accepted, open, events, signals>>

ShutdownProtobufLibrary ==
  /\ pc = "ShutdownProtobuf"
  /\ alive' = alive \ {"protobuf"}
  /\ pc' = "destroy"
  /\ UNCHANGED <<configVars, step, quit, threads, signals>>

\* Mutant: the TcpServer does not wait for its threads.
DestroyUnjoined ==
  /\ pc = "destroy"
  /\ alive' = alive \ Owned(Destruction[step])
  /\ pc' = IF step = Len(Destruction) THEN "statics" ELSE "destroy"
  /\ step' = step + 1
  /\ UNCHANGED <<configVars, quit, threads, signals>>

\* main returns and its unique_ptr destroys the server, member by member.  The
\* destructor of the TcpServer joins the threads of the I/O loops.
Destroy ==
  /\ pc = "destroy"
  /\ Destruction[step] = "tcpServer_" => \A t \in Loops : io[t] = "ended"
  /\ alive' = alive \ Owned(Destruction[step])
  /\ pc' = IF step = Len(Destruction) THEN "statics" ELSE "destroy"
  /\ step' = step + 1
  /\ UNCHANGED <<configVars, quit, threads, signals>>

\* The destructors of static objects, GlobalWorldManager among them.
DestroyStatics ==
  /\ pc = "statics"
  /\ alive' = alive \ {"GlobalWorldManager"}
  /\ pc' = "exited"
  /\ UNCHANGED <<configVars, step, quit, threads, signals>>

Main ==
  \/ LoadConfig \/ Construct \/ ListenAndServe \/ LeaveLoop
  \/ ShutdownProtobufLibrary \/ Destroy \/ DestroyStatics

-----------------------------------------------------------------------------
(***************************************************************************)
(* SIGINT: g_zinx_server->Stop().  The pointer is null until main sets it  *)
(* and points to nothing once the server is destroyed.                     *)
(***************************************************************************)

\* loop_.Quit().  Whether a request made before Loop() is kept is up to muduo.
Stop == quit' \in IF pc = "setup" THEN {quit, TRUE} ELSE {TRUE}

Sigint ==
  /\ pc \notin {"exited", "aborted"}
  /\ signals < MaxSignals
  /\ signals' = signals + 1
  /\ \/ /\ {"g_zinx_server", "loop_"} \subseteq alive
        /\ Stop
        /\ UNCHANGED pc
     \/ /\ "g_zinx_server" \notin alive
        /\ pc' = "aborted"
        /\ UNCHANGED quit
     \/ /\ "g_zinx_server" \in alive /\ "loop_" \notin alive
        /\ pc' \in {pc, "aborted"}
        /\ UNCHANGED quit
  /\ UNCHANGED <<configVars, step, alive, threads>>

-----------------------------------------------------------------------------
(***************************************************************************)
(* The I/O loops.                                                          *)
(***************************************************************************)

\* Loop t gets a chance to run its next callback.
Ready(t) ==
  /\ pc \notin {"exited", "aborted"}
  /\ t = 0 => pc = "Loop"
  /\ io[t] = "poll"

Event(t, at) ==
  /\ Ready(t)
  /\ io' = [io EXCEPT ![t] = at]

\* loop_ accepts a connection and hands it to an I/O loop.
Accept(t) ==
  /\ pc = "Loop"
  /\ io[0] \in {"none", "poll"}
  /\ t \in Loops
  /\ events < MaxEvents
  /\ events' = events + 1
  /\ accepted' = [accepted EXCEPT ![t] = @ + 1]
  /\ UNCHANGED <<configVars, pc, step, alive, quit, io, packets, open, signals>>

\* The I/O loop establishes it: HandleNewConnection calls onStartCb_.
Established(t) ==
  /\ accepted[t] > 0
  /\ Event(t, "start")
  /\ accepted' = [accepted EXCEPT ![t] = @ - 1]
  /\ open' = [open EXCEPT ![t] = @ + 1]
  /\ UNCHANGED <<configVars, pc, step, alive, quit, packets, events, signals>>

\* Bytes arrive: HandleOnMessage.
Readable(t) ==
  /\ open[t] > 0
  /\ events < MaxEvents
  /\ events' = events + 1
  /\ Event(t, "decode")
  /\ packets' \in {[packets EXCEPT ![t] = n] : n \in 0 .. MaxPackets}
  /\ UNCHANGED <<configVars, pc, step, alive, quit, accepted, open, signals>>

\* A connection goes down: HandleNewConnection calls onCloseCb_.
Closed(t) ==
  /\ open[t] > 0
  /\ events < MaxEvents
  /\ events' = events + 1
  /\ Event(t, "close")
  /\ open' = [open EXCEPT ![t] = @ - 1]
  /\ UNCHANGED <<configVars, pc, step, alive, quit, packets, accepted, signals>>

\* Mutant: decoder_ returns a packet when there is no complete one.
DecodeIncomplete(t) ==
  /\ io[t] = "decode"
  /\ io' = [io EXCEPT ![t] = "route"]
  /\ packets' = [packets EXCEPT ![t] = @ - 1]
  /\ UNCHANGED <<configVars, pc, step, alive, quit, accepted, open, events, signals>>

\* decoder_ returns a packet, and router_ gets it.
Decode(t) ==
  /\ io[t] = "decode"
  /\ packets[t] > 0
  /\ io' = [io EXCEPT ![t] = "route"]
  /\ packets' = [packets EXCEPT ![t] = @ - 1]
  /\ UNCHANGED <<configVars, pc, step, alive, quit, accepted, open, events, signals>>

RouteAndHandle(t) ==
  /\ io[t] = "route"
  /\ io' = [io EXCEPT ![t] = "decode"]
  /\ UNCHANGED <<configVars, pc, step, alive, quit, packets, accepted, open, events, signals>>

\* Mutant: HandleOnMessage asks the decoder again when there is no packet.
ReturnNever(t) ==
  /\ \/ /\ io[t] \in {"start", "close"}
        /\ io' = [io EXCEPT ![t] = "poll"]
     \/ io[t] = "decode" /\ packets[t] = 0 /\ UNCHANGED io
  /\ UNCHANGED <<configVars, pc, step, alive, quit, packets, accepted, open, events, signals>>

\* A callback returns to its loop.
Return(t) ==
  /\ io[t] \in {"start", "close"} \/ (io[t] = "decode" /\ packets[t] = 0)
  /\ io' = [io EXCEPT ![t] = "poll"]
  /\ UNCHANGED <<configVars, pc, step, alive, quit, packets, accepted, open, events, signals>>

\* The destructor of the TcpServer has told the loop to quit.
EndThread(t) ==
  /\ pc = "destroy"
  /\ Destruction[step] = "tcpServer_"
  /\ Ready(t)
  /\ io' = [io EXCEPT ![t] = "ended"]
  /\ UNCHANGED <<configVars, pc, step, alive, quit, packets, accepted, open, events, signals>>

Callback(t) ==
  /\ pc \notin {"exited", "aborted"}
  /\ Decode(t) \/ RouteAndHandle(t) \/ Return(t)

Environment(t) == Accept(t) \/ Readable(t) \/ Closed(t)

IoStep(t) == Established(t) \/ Callback(t) \/ EndThread(t)

\* The process is gone.
Over == pc \in {"exited", "aborted"} /\ UNCHANGED vars

\* Every loop sits in poll.
Polling ==
  /\ pc = "Loop" /\ ~quit
  /\ \A t \in LoopIds : io[t] \in {"none", "poll"} /\ accepted[t] = 0
  /\ UNCHANGED vars

Next ==
  \/ Main
  \/ Sigint
  \/ \E t \in LoopIds : Environment(t) \/ IoStep(t)
  \/ Over \/ Polling

Spec == Init /\ [][Next]_vars

\* The scheduler keeps running main and every I/O thread.
Fairness == WF_vars(Main) /\ \A t \in LoopIds : WF_vars(IoStep(t))

FairSpec == Spec /\ Fairness

-----------------------------------------------------------------------------
(***************************************************************************)
(* Properties.                                                             *)
(***************************************************************************)

\* What the code a loop is running makes use of.  initPlayer, destroyPlayer and
\* the handlers work on the world and encode packets with protobuf.
Needs(t) ==
  CASE io[t] = "start"  -> {"onStartCb_", "GlobalWorldManager", "protobuf"}
    [] io[t] = "decode" -> {"decoder_"}
    [] io[t] = "route"  -> {"router_", "ChatHandler", "MoveHandler",
                            "GlobalWorldManager", "protobuf"}
    [] io[t] = "close"  -> {"onCloseCb_", "GlobalWorldManager", "protobuf"}
    [] OTHER            -> {}

\* Until main leaves its loop, no callback of any thread meets a part that is
\* not set up: the world is only used after initGlobalWorldManager
\* (WorldManager.h:13), and decoder, router, callbacks and handlers are there
\* before the first connection.
ReadyBeforeServing ==
  pc \in {"InitConfig", "setup", "Loop"} =>
    \A t \in LoopIds : Needs(t) \subseteq alive

\* As long as a thread of an I/O loop exists, so do the TcpServer that joins
\* it, loop_ (Server.h:78 "ensuring a longer lifecycle than other
\* data-members") and the world.
ThreadsOutlived ==
  pc # "aborted" =>
    \A t \in LoopIds : io[t] \notin {"none", "ended"} =>
      {"loop_", "tcpServer_", "GlobalWorldManager"} \subseteq alive

\* No callback uses a member of the server that is gone.  (RequestContext.h:12:
\* "prevent accessing destroyed data".)
NoUseAfterDestroy ==
  \A t \in LoopIds : \A i \in 1 .. Len(Members) :
    Members[i] \in Needs(t) => Members[i] \in alive

\* A server that is told to stop while it serves ends: main leaves the loop,
\* every I/O thread finishes its callback and is joined.  Only another SIGINT,
\* after loop_ is destroyed, can end the process in another way.
StopEnds ==
  (pc = "Loop" /\ quit) ~> (pc = "exited" \/ (pc = "aborted" /\ signals > 1))
=============================================================================

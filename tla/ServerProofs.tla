---------------------------- MODULE ServerProofs ----------------------------
(***************************************************************************)
(* Proofs about Server: for every set of configuration files and all       *)
(* bounds, nothing serves before it is set up and the I/O threads do not   *)
(* outlive what they stand on.                                             *)
(***************************************************************************)
EXTENDS ServerInvariant, TLAPS

\* The order of construction in Server.cpp, ZServer.cpp and mmo_server.cpp.
LEMMA SetupOrder ==
  /\ Len(Setup) = 11
  /\ Setup[1] = "loop_" /\ Setup[2] = "tcpServer_"
  /\ Setup[3] = "workerPool_" /\ Setup[4] = "router_" /\ Setup[5] = "decoder_"
  /\ Setup[6] = "g_zinx_server" /\ Setup[7] = "onStartCb_" /\ Setup[8] = "onCloseCb_"
  /\ Setup[9] = "ChatHandler" /\ Setup[10] = "MoveHandler"
  /\ Setup[11] = "GlobalWorldManager"
BY DEF Setup, AbstractServer, ZinxServer, Start

\* What main has set up when it serves.
LEMMA PartsSetUp ==
  Parts = {"loop_", "tcpServer_", "workerPool_", "router_", "decoder_",
           "g_zinx_server", "onStartCb_", "onCloseCb_", "ChatHandler",
           "MoveHandler", "GlobalWorldManager", "protobuf"}
<1>1. 1 .. 11 = {1, 2, 3, 4, 5, 6, 7, 8, 9, 10, 11}
  OBVIOUS
<1> QED
  BY <1>1, SetupOrder DEF Parts

\* The order of destruction: the reverse of the declarations in Server.h and
\* ZServer.h.
LEMMA DestructionOrder ==
  /\ Destruction = <<"workerPool_", "onCloseCb_", "onStartCb_", "decoder_",
                     "router_", "tcpServer_", "loop_">>
  /\ Len(Destruction) = 7
BY DEF Destruction, Members

\* Only the destruction of tcpServer_ and loop_ touches the ground.
LEMMA GroundKept ==
  ASSUME NEW i \in 1 .. 5
  PROVE  Owned(Destruction[i]) \cap Ground = {}
BY DestructionOrder DEF Owned, Ground

\* Every callback finds what it needs among the parts.
LEMMA NeedsAreParts ==
  ASSUME NEW t
  PROVE  Needs(t) \subseteq Parts
BY PartsSetUp DEF Needs

LEMMA GroundIsParts == Ground \subseteq Parts
BY PartsSetUp DEF Ground

-----------------------------------------------------------------------------
LEMMA LifeInit == Init => LifeInv
BY DEF Init, LifeInv, Control, SettingUp, Serving, TakingApart, Labels, Places

\* A step of an I/O loop that is not in its thread's end: main stays where it is.
LEMMA IoKeeps ==
  ASSUME LifeInv, UNCHANGED <<pc, step, alive, config>>,
         NEW t \in LoopIds, NEW p \in Places,
         io[t] \notin {"none", "ended"}, io' = [io EXCEPT ![t] = p]
  PROVE  LifeInv'
<1> USE DEF LifeInv
<1>1. t \in Loops /\ Loops' = Loops
  BY DEF Control, Loops
<1>2. Control'
  BY <1>1 DEF Control
<1>3. ~ NoThreads /\ pc \notin {"InitConfig", "setup"}
  BY DEF NoThreads, SettingUp
<1>4. SettingUp' /\ Serving'
  BY <1>3 DEF SettingUp, Serving
<1>5. TakingApart'
  BY <1>3 DEF TakingApart, Ground
<1> QED
  BY <1>2, <1>4, <1>5

\* A step that leaves io, the parts and the configuration alone, and main as
\* well or else aborts it.
LEMMA Unaffected ==
  ASSUME LifeInv, UNCHANGED <<step, alive, io, config>>, pc' \in {pc, "aborted"}
  PROVE  LifeInv'
<1> USE DEF LifeInv
<1>1. Loops' = Loops
  BY DEF Loops
<1>2. Control'
  BY <1>1 DEF Control, Labels
<1>3. SettingUp' /\ Serving'
  BY DEF SettingUp, Serving
<1>4. TakingApart'
  BY DEF TakingApart, Ground, NoThreads
<1> QED
  BY <1>2, <1>3, <1>4

\* Each step of main preserves the invariant.
LEMMA MainKeeps ==
  ASSUME LifeInv, Main
  PROVE  LifeInv'
<1> USE DEF LifeInv
<1>1. CASE LoadConfig
  <2>1. io' = io /\ step' = step /\ alive' = alive /\ pc = "InitConfig"
        /\ pc' \in {"InitConfig", "setup"}
    BY <1>1 DEF LoadConfig, threads
  <2>2. \A t \in LoopIds : io'[t] = "none"
    BY <2>1 DEF SettingUp
  <2>3. Control'
    BY <2>1, <2>2 DEF Control, Labels
  <2>4. SettingUp' /\ Serving' /\ TakingApart'
    BY <2>1, <2>2 DEF SettingUp, Serving, TakingApart
  <2> QED
    BY <2>3, <2>4
<1>2. CASE Construct
  <2>1. io' = io /\ pc = "setup" /\ pc' = pc /\ step' = step + 1
        /\ alive' = alive \cup {Setup[step]} /\ Loops' = Loops
    BY <1>2 DEF Construct, threads, configVars, Loops
  <2>2. Control'
    BY <2>1 DEF Control
  <2>3. \A i \in 1 .. Len(Setup) : i < step' => Setup[i] \in alive'
    BY <2>1, SetupOrder DEF SettingUp, Control
  <2>4. SettingUp' /\ Serving' /\ TakingApart'
    BY <2>1, <2>3 DEF SettingUp, Serving, TakingApart
  <2> QED
    BY <2>2, <2>4
<1>3. CASE ListenAndServe
  <2>1. pc = "setup" /\ pc' = "Loop" /\ step > Len(Setup) /\ step' = 1
        /\ alive' = alive /\ Loops' = Loops
        /\ io' = [t \in LoopIds |-> IF t \in Loops THEN "poll" ELSE "none"]
    BY <1>3 DEF ListenAndServe, configVars, Loops
  <2>2. Control'
    BY <2>1 DEF Control, Labels, Places
  <2>3. Parts \subseteq alive
    <3>1. \A i \in 1 .. Len(Setup) : i < step
      BY <2>1, SetupOrder DEF Control
    <3>2. \A i \in 1 .. Len(Setup) : Setup[i] \in alive
      BY <2>1, <3>1 DEF SettingUp
    <3> QED
      BY <2>1, <3>2 DEF Parts, SettingUp
  <2>4. SettingUp' /\ Serving' /\ TakingApart'
    BY <2>1, <2>3 DEF SettingUp, Serving, TakingApart
  <2> QED
    BY <2>2, <2>4
<1>4. CASE LeaveLoop
  <2>1. pc = "Loop" /\ pc' = "ShutdownProtobuf" /\ step' = step /\ alive' = alive
        /\ Loops' = Loops
        /\ io' = [io EXCEPT ![0] = IF @ = "poll" THEN "ended" ELSE @]
    BY <1>4 DEF LeaveLoop, configVars, Loops
  <2>2. Control'
    BY <2>1 DEF Control, Labels, Places
  <2>3. SettingUp' /\ Serving' /\ TakingApart'
    BY <2>1, GroundIsParts DEF SettingUp, Serving, TakingApart, Ground
  <2> QED
    BY <2>2, <2>3
<1>5. CASE ShutdownProtobufLibrary
  <2>1. pc = "ShutdownProtobuf" /\ pc' = "destroy" /\ step' = step /\ io' = io
        /\ alive' = alive \ {"protobuf"} /\ Loops' = Loops
    BY <1>5 DEF ShutdownProtobufLibrary, threads, configVars, Loops
  <2>2. Control'
    BY <2>1 DEF Control, Labels
  <2>3. SettingUp' /\ Serving' /\ TakingApart'
    BY <2>1 DEF SettingUp, Serving, TakingApart, Ground
  <2> QED
    BY <2>2, <2>3
<1>6. CASE Destroy
  <2>1. pc = "destroy" /\ step' = step + 1 /\ io' = io
        /\ alive' = alive \ Owned(Destruction[step]) /\ Loops' = Loops
        /\ pc' = IF step = Len(Destruction) THEN "statics" ELSE "destroy"
    BY <1>6 DEF Destroy, threads, configVars, Loops
  <2>2. Control'
    BY <2>1 DEF Control, Labels
  <2>3. SettingUp' /\ Serving'
    BY <2>1 DEF SettingUp, Serving
  <2>4. CASE step \in 1 .. 5
    <3>1. Ground \subseteq alive'
      BY <2>1, <2>4, GroundKept DEF TakingApart
    <3> QED
      BY <2>1, <2>2, <2>3, <2>4, <3>1, DestructionOrder DEF TakingApart, Ground
  <2>5. CASE step = 6
    <3>1. \A t \in Loops : io[t] = "ended"
      BY <1>6, <2>5, DestructionOrder DEF Destroy
    <3>2. NoThreads'
      BY <2>1, <3>1 DEF NoThreads, Control
    <3> QED
      BY <2>1, <2>2, <2>3, <2>5, <3>2, DestructionOrder DEF TakingApart
  <2>6. CASE step = 7
    <3>1. NoThreads'
      BY <2>1, <2>6 DEF NoThreads, TakingApart
    <3> QED
      BY <2>1, <2>2, <2>3, <2>6, <3>1, DestructionOrder DEF TakingApart
  <2> QED
    BY <2>1, <2>4, <2>5, <2>6 DEF TakingApart
<1>7. CASE DestroyStatics
  <2>1. pc = "statics" /\ pc' = "exited" /\ step' = step /\ io' = io /\ Loops' = Loops
    BY <1>7 DEF DestroyStatics, threads, configVars, Loops
  <2>2. Control'
    BY <2>1 DEF Control, Labels
  <2>3. SettingUp' /\ Serving' /\ TakingApart'
    BY <2>1 DEF SettingUp, Serving, TakingApart, NoThreads
  <2> QED
    BY <2>2, <2>3
<1> QED
  BY <1>1, <1>2, <1>3, <1>4, <1>5, <1>6, <1>7 DEF Main

\* Each step of an I/O loop preserves it.
LEMMA IoStepKeeps ==
  ASSUME LifeInv, NEW t \in LoopIds, Environment(t) \/ IoStep(t)
  PROVE  LifeInv'
<1>1. CASE Accept(t)
  BY <1>1, Unaffected DEF Accept, configVars
<1>2. CASE Readable(t)
  BY <1>2, IoKeeps DEF Readable, Event, Ready, configVars, Places
<1>3. CASE Closed(t)
  BY <1>3, IoKeeps DEF Closed, Event, Ready, configVars, Places
<1>4. CASE Established(t)
  BY <1>4, IoKeeps DEF Established, Event, Ready, configVars, Places
<1>5. CASE Decode(t)
  BY <1>5, IoKeeps DEF Decode, configVars, Places
<1>6. CASE RouteAndHandle(t)
  BY <1>6, IoKeeps DEF RouteAndHandle, configVars, Places
<1>7. CASE Return(t)
  BY <1>7, IoKeeps DEF Return, configVars, Places
<1>8. CASE EndThread(t)
  BY <1>8, IoKeeps DEF EndThread, Ready, configVars, Places
<1> QED
  BY <1>1, <1>2, <1>3, <1>4, <1>5, <1>6, <1>7, <1>8
     DEF Environment, IoStep, Callback

\* Every step preserves the invariant.
LEMMA LifeStep == LifeInv /\ [Next]_vars => LifeInv'
<1> SUFFICES ASSUME LifeInv, [Next]_vars
             PROVE  LifeInv'
  OBVIOUS
<1>1. CASE Main
  BY <1>1, MainKeeps
<1>2. CASE Sigint
  BY <1>2, Unaffected DEF Sigint, Stop, threads, configVars
<1>3. ASSUME NEW t \in LoopIds, Environment(t) \/ IoStep(t)
      PROVE  LifeInv'
  BY <1>3, IoStepKeeps
<1>4. CASE Over \/ Polling \/ UNCHANGED vars
  BY <1>4, Unaffected DEF Over, Polling, vars, threads, configVars
<1> QED
  BY <1>1, <1>2, <1>3, <1>4 DEF Next

\* How far main is determines which parts exist, for every configuration, every
\* number of I/O threads and every moment a SIGINT may come.
THEOREM LifeInvariance == Spec => []LifeInv
BY LifeInit, LifeStep, PTL DEF Spec

\* No callback runs before everything it uses is set up: ListenAndServe comes
\* last in main.
THEOREM AlwaysReady == Spec => []ReadyBeforeServing
<1>1. LifeInv => ReadyBeforeServing
  <2> SUFFICES ASSUME LifeInv, pc \in {"InitConfig", "setup", "Loop"},
                      NEW t \in LoopIds
               PROVE  Needs(t) \subseteq alive
    BY DEF ReadyBeforeServing
  <2>1. CASE pc = "Loop"
    BY <2>1, NeedsAreParts DEF LifeInv, Serving
  <2>2. CASE pc \in {"InitConfig", "setup"}
    BY <2>2 DEF LifeInv, SettingUp, Needs
  <2> QED
    BY <2>1, <2>2
<1> QED
  BY <1>1, LifeInvariance, PTL

\* The loop, the TcpServer and the world outlive every I/O thread: the
\* TcpServer joins the threads before the members declared before it go.
THEOREM AlwaysOutlived == Spec => []ThreadsOutlived
<1>1. LifeInv => ThreadsOutlived
  <2> SUFFICES ASSUME LifeInv, pc # "aborted", NEW t \in LoopIds,
                      io[t] \notin {"none", "ended"}
               PROVE  Ground \subseteq alive
    BY DEF ThreadsOutlived, Ground
  <2>1. pc \in {"Loop", "ShutdownProtobuf", "destroy"}
    BY DEF LifeInv, Control, SettingUp, TakingApart, NoThreads, Labels
  <2> QED
    BY <2>1, GroundIsParts DEF LifeInv, Serving, TakingApart, NoThreads
<1> QED
  BY <1>1, LifeInvariance, PTL

-----------------------------------------------------------------------------
(***************************************************************************)
(* The configuration.                                                      *)
(***************************************************************************)

\* The keys in the order of the calls of parseConfigValue, none twice.
LEMMA KeyOrder ==
  /\ Len(Keys) = 7
  /\ Key = {"server_name", "version", "host", "port", "io_thread_num",
            "worker_thread_num", "max_task_queue_size"}
  /\ \A i \in 1 .. 7 : Keys[i] \in Key
  /\ \A i \in 1 .. 7, j \in 1 .. 7 : Keys[i] = Keys[j] => i = j
<1>1. 1 .. 7 = {1, 2, 3, 4, 5, 6, 7}
  OBVIOUS
<1> QED
  BY <1>1 DEF Keys, Key

\* Quotient and remainder, for every modulus.
LEMMA Division ==
  ASSUME NEW n \in Int, NEW c \in Nat \ {0}
  PROVE  /\ n \div c \in Int
         /\ n % c \in Int /\ 0 <= n % c /\ n % c < c
         /\ n = c * (n \div c) + (n % c)
OBVIOUS

\* The only multiple of a number that is smaller than it is zero.
LEMMA SmallMultiple ==
  ASSUME NEW c \in Nat \ {0}, NEW k \in Int, c * k < c, -c < c * k
  PROVE  k = 0
<1>1. ASSUME k >= 1 PROVE FALSE
  <2>1. k - 1 \in Nat
    BY <1>1
  <2>2. c * (k - 1) \in Nat
    BY <2>1
  <2>3. c * k = c * (k - 1) + c
    OBVIOUS
  <2> QED
    BY <2>2, <2>3
<1>2. ASSUME k <= -1 PROVE FALSE
  <2>1. -1 - k \in Nat
    BY <1>2
  <2>2. c * (-1 - k) \in Nat
    BY <2>1
  <2>3. c * k = -(c * (-1 - k)) - c
    OBVIOUS
  <2> QED
    BY <2>2, <2>3
<1> QED
  BY <1>1, <1>2

\* The remainder of a multiple is zero.
LEMMA Multiple ==
  ASSUME NEW c \in Nat \ {0}, NEW q \in Int
  PROVE  (c * q) % c = 0
<1> DEFINE x == c * q
           d == x \div c
           r == x % c
<1>1. x \in Int
  OBVIOUS
<1>2. d \in Int /\ r \in Int /\ 0 <= r /\ r < c /\ x = c * d + r
  BY <1>1, Division
<1> HIDE DEF d, r
<1>3. q - d \in Int /\ r = c * (q - d)
  BY <1>2
<1>4. q - d = 0
  BY <1>2, <1>3, SmallMultiple
<1>5. c * (q - d) = 0
  BY <1>4
<1> QED
  BY <1>3, <1>5 DEF r

\* The remainder is the one number below the modulus that is congruent.
LEMMA Residue ==
  ASSUME NEW n \in Int, NEW c \in Nat \ {0}
  PROVE  Wrapped(n, c) = n % c
<1> DEFINE top == c - 1
           S == 0 .. top
           P(m) == (n - m) % c = 0
           q == n \div c
           r == n % c
           s == CHOOSE m \in S : P(m)
<1>1. q \in Int /\ r \in Int /\ 0 <= r /\ r < c /\ n = c * q + r
  BY Division
<1>2. r \in S
  <2> HIDE DEF q, r
  <2> QED
    BY <1>1
<1>3. P(r)
  <2> HIDE DEF q, r
  <2>1. n - r = c * q
    BY <1>1
  <2>2. (c * q) % c = 0
    BY <1>1, Multiple
  <2> QED
    BY <2>1, <2>2
<1>4. ASSUME NEW m \in S, P(m)
      PROVE  m = r
  <2> DEFINE b == (n - m) \div c
  <2>1. m \in Int /\ 0 <= m /\ m < c /\ n - m \in Int
    OBVIOUS
  <2>2. b \in Int /\ n - m = c * b + ((n - m) % c)
    BY <2>1, Division
  <2>3. b \in Int /\ n - m = c * b + 0
    BY <1>4, <2>2
  <2> HIDE DEF P, S, b, q, r
  <2>4. b - q \in Int /\ r - m = c * (b - q)
    BY <1>1, <2>1, <2>3
  <2>5. c * (b - q) < c /\ -c < c * (b - q)
    BY <1>1, <2>1, <2>4
  <2>6. b - q = 0
    BY <2>4, <2>5, SmallMultiple
  <2>7. c * (b - q) = 0
    BY <2>6
  <2> QED
    BY <1>1, <2>1, <2>4, <2>7
<1>5. Wrapped(n, c) = s
  BY DEF Wrapped
<1> HIDE DEF S, P, r
<1>6. s \in S /\ P(s)
  BY <1>2, <1>3, Zenon
<1> HIDE DEF s
<1>7. s = r
  BY <1>4, <1>6
<1> QED
  BY <1>5, <1>7 DEF r

\* What the file says for a field for numbers stands for its low bits: 16 of
\* them for the port, those of a size_t for the others.
LEMMA LowBits ==
  ASSUME NEW n \in Int
  PROVE  /\ Wrapped(n, 65536) = n % 65536
         /\ Wrapped(n, SizeT) = n % SizeT
<1>1. Wrapped(n, SizeT) = n % SizeT
  <2>1. SizeT \in Nat \ {0}
    BY ConfigAssumption
  <2> QED
    BY <2>1, Residue
<1>2. Wrapped(n, 65536) = n % 65536
  <2> DEFINE c == 65536
  <2>1. c \in Nat \ {0}
    BY SMT
  <2> HIDE DEF c
  <2>2. Wrapped(n, c) = n % c
    BY <2>1, Residue
  <2> QED
    BY <2>2 DEF c
<1> QED
  BY <1>1, <1>2

\* Numbers and booleans of a file are integers.
LEMMA NumbersAreIntegers ==
  ASSUME NEW f \in ConfigFiles, NEW k \in Key,
         f.json[k].kind \in {"number", "boolean"}
  PROVE  f.json[k].value \in Int
<1>1. /\ f.json[k].kind = "number" => f.json[k].value \in Int
      /\ f.json[k].kind = "boolean" => f.json[k].value \in {0, 1}
  BY ConfigAssumption, Zenon
<1> QED
  BY <1>1

\* A call of parseConfigValue adds its key to the keys read and no other.
LEMMA OneMoreKey ==
  ASSUME NEW i \in 1 .. 7
  PROVE  {Keys[j] : j \in 1 .. (i + 1) - 1} = {Keys[j] : j \in 1 .. i - 1} \cup {Keys[i]}
OBVIOUS

\* The configuration starts with the defaults ...
LEMMA ConfigStarts == ConfigInit => ConfigInv
<1> SUFFICES ASSUME ConfigInit PROVE ConfigInv
  OBVIOUS
<1>1. KeysRead = {}
  BY DEF ConfigInit, KeysRead
<1>2. DOMAIN Defaults = Key
  BY KeyOrder DEF Defaults
<1> QED
  BY <1>1, <1>2, KeyOrder DEF ConfigInit, ConfigInv

\* ... and every step of InitConfig keeps the invariant.
LEMMA ConfigStep ==
  ASSUME ConfigInv, InitConfig
  PROVE  ConfigInv'
<1>1. CASE OpenConfig
  <2>1. /\ loading = "open" /\ loading' \in {"parse", "loaded"} /\ field = 1
        /\ UNCHANGED <<local, etc, field, config>>
    BY <1>1 DEF OpenConfig, ConfigInv
  <2>2. configs' = ChosenFile' /\ configs' \in ConfigFiles
    BY <1>1 DEF OpenConfig, ConfigInv, ChosenFile
  <2>3. KeysRead = {} /\ KeysRead' = {}
    BY <2>1 DEF KeysRead
  <2> QED
    BY <1>1, <2>1, <2>2, <2>3, KeyOrder DEF OpenConfig, ConfigInv
<1>2. CASE ParseConfig
  <2>1. configs \in ConfigFiles
    BY <1>2 DEF ParseConfig, ConfigInv, ChosenFile
  <2>2. UNCHANGED <<local, etc, configs, field, config>>
        /\ KeysRead' = KeysRead /\ ChosenFile' = ChosenFile
        /\ \A k \in Key : ReadValue(k)' = ReadValue(k)
    BY <1>2 DEF ParseConfig, KeysRead, ChosenFile, ReadValue
  <2> QED
    BY <1>2, <2>1, <2>2, KeyOrder, ConfigAssumption DEF ParseConfig, ConfigInv
<1>3. CASE ParseConfigValue
  <2> DEFINE k == Keys[field]
  <2>1. field \in 1 .. 7 /\ k \in Key /\ configs = ChosenFile /\ configs.state = "ok"
    BY <1>3, KeyOrder DEF ParseConfigValue, ConfigInv
  <2>2. /\ field' = field + 1 /\ UNCHANGED <<local, etc, configs>>
        /\ loading' = IF field = 7 THEN "loaded" ELSE "fields"
        /\ ChosenFile' = ChosenFile
        /\ \A l \in Key : ReadValue(l)' = ReadValue(l)
    BY <1>3, KeyOrder DEF ParseConfigValue, NextField, ChosenFile, ReadValue
  <2>3. KeysRead' = KeysRead \cup {k}
    BY <2>1, <2>2, OneMoreKey DEF KeysRead
  <2>4. k \notin KeysRead
    BY <2>1, KeyOrder DEF KeysRead
  <2>5. config[k] = Defaults[k] /\ DOMAIN config = Key
    BY <2>1, <2>4 DEF ConfigInv
  <2>6. /\ DOMAIN config' = Key /\ config'[k] = ReadValue(k)
        /\ \A l \in Key \ {k} : config'[l] = config[l]
    BY <1>3, <2>1, <2>5 DEF ParseConfigValue, ReadValue
  <2>7. \A l \in Key : config'[l] = IF l \in KeysRead' THEN ReadValue(l)' ELSE Defaults[l]
    BY <2>2, <2>3, <2>6 DEF ConfigInv
  <2> QED
    BY <2>1, <2>2, <2>6, <2>7, KeyOrder DEF ConfigInv
<1> QED
  BY <1>1, <1>2, <1>3 DEF InitConfig

\* InitConfig never mixes up fields or files, whatever the two files hold.
THEOREM ConfigInvariance == Spec => []ConfigInv
<1>1. Init => ConfigInv
  BY ConfigStarts DEF Init
<1>2. ConfigInv /\ [Next]_vars => ConfigInv'
  <2> SUFFICES ASSUME ConfigInv, [Next]_vars PROVE ConfigInv'
    OBVIOUS
  <2>1. CASE InitConfig
    BY <2>1, ConfigStep
  <2>2. CASE UNCHANGED configVars
    BY <2>2 DEF configVars, ConfigInv, ChosenFile, KeysRead, ReadValue
  <2>3. InitConfig \/ UNCHANGED configVars
    <3>1. Main => InitConfig \/ UNCHANGED configVars
      BY DEF Main, LoadConfig, Construct, ListenAndServe, LeaveLoop,
             ShutdownProtobufLibrary, Destroy, DestroyStatics
    <3>2. Sigint \/ Over \/ Polling \/ UNCHANGED vars => UNCHANGED configVars
      BY DEF Sigint, Over, Polling, vars
    <3>3. ASSUME NEW t \in LoopIds, Environment(t) \/ IoStep(t)
          PROVE  UNCHANGED configVars
      BY <3>3 DEF Environment, IoStep, Callback, Accept, Readable, Closed,
                  Established, Decode, RouteAndHandle, Return, EndThread
    <3> QED
      BY <3>1, <3>2, <3>3 DEF Next
  <2> QED
    BY <2>1, <2>2, <2>3
<1> QED
  BY <1>1, <1>2, PTL DEF Spec

\* For every pair of configuration files, the configuration the server is built
\* from takes each field from the right file or from its own default, and its
\* numbers are those in the file modulo the width of the field, 2^16 for the port.
THEOREM FieldsAlwaysIndependent == Spec => []FieldsIndependent
<1>1. ConfigInv => FieldsIndependent
  <2> DEFINE f == IF local.state = "absent" THEN etc ELSE local
  <2> SUFFICES ASSUME ConfigInv, loading = "loaded", NEW k \in Key
               PROVE  config[k] = Expected(f, k)
    BY DEF FieldsIndependent
  <2> DEFINE v == f.json[k]
  <2>1. configs = f /\ f \in ConfigFiles
    BY DEF ConfigInv, ChosenFile
  <2>2. v.kind \in {"number", "boolean"} => v.value \in Int
    BY <2>1, NumbersAreIntegers
  <2>3. v.kind \in {"number", "boolean"} =>
          /\ Wrapped(v.value, 65536) = v.value % 65536
          /\ Wrapped(v.value, SizeT) = v.value % SizeT
    <3> HIDE DEF v
    <3> QED
      BY <2>2, LowBits
  <2> HIDE DEF f, v
  <2>4. CASE f.state # "ok"
    <3>1. KeysRead = {}
      BY <2>1, <2>4 DEF ConfigInv, KeysRead
    <3>2. Expected(f, k) = Defaults[k]
      BY <2>4 DEF Expected
    <3> QED
      BY <3>1, <3>2 DEF ConfigInv
  <2>5. CASE f.state = "ok"
    <3>1. KeysRead = Key
      BY <2>1, <2>5, KeyOrder DEF ConfigInv, KeysRead, Key
    <3>2. config[k] = IF Converts(k, v) THEN Converted(k, v) ELSE Defaults[k]
      BY <2>1, <3>1 DEF ConfigInv, ReadValue, v
    <3>3. "port" \notin Texts
      BY DEF Texts
    <3>4. CASE k \in Texts
      <4>1. Expected(f, k) = IF v.kind = "text" THEN v.value ELSE Defaults[k]
        BY <2>5, <3>3, <3>4 DEF Expected, v
      <4> QED
        BY <3>2, <3>3, <3>4, <4>1 DEF Converts, Converted
    <3>5. CASE k = "port"
      <4>1. Expected(f, k) = IF v.kind \in {"number", "boolean"}
                             THEN Wrapped(v.value, 65536) ELSE Defaults[k]
        BY <2>5, <3>3, <3>5 DEF Expected, v
      <4> QED
        BY <2>3, <3>2, <3>3, <3>5, <4>1 DEF Converts, Converted, Width
    <3>6. CASE k \notin Texts \cup {"port"}
      <4>1. Expected(f, k) = IF v.kind = "number"
                             THEN Wrapped(v.value, SizeT) ELSE Defaults[k]
        BY <2>5, <3>6 DEF Expected, v
      <4> QED
        BY <2>3, <3>2, <3>6, <4>1 DEF Converts, Converted, Width
    <3> QED
      BY <3>4, <3>5, <3>6
  <2> QED
    BY <2>4, <2>5
<1> QED
  BY <1>1, ConfigInvariance, PTL

-----------------------------------------------------------------------------
(***************************************************************************)
(* Types and bounds of the whole process.                                  *)
(***************************************************************************)

USE BoundsAssumption

\* The parts main sets up are the parts there are.
LEMMA SetupIsParts ==
  ASSUME NEW i \in 1 .. 11
  PROVE  Setup[i] \in Parts
BY SetupOrder DEF Parts

\* A step of main keeps the types: it counts no further than Setup is long.
LEMMA MainTypes ==
  ASSUME TypeOK, LifeInv, ConfigInv', Main
  PROVE  TypeOK'
<1> USE DEF TypeOK, threads
<1>0. Len(Setup) = 11 /\ loading' \in {"open", "parse", "fields", "loaded"}
      /\ field' \in 1 .. Len(Keys) + 1
  BY SetupOrder DEF ConfigInv
<1>1. CASE LoadConfig
  BY <1>0, <1>1 DEF LoadConfig, Labels
<1>2. CASE Construct
  BY <1>0, <1>2, SetupIsParts, SMTT(40) DEF Construct
<1>3. CASE ListenAndServe
  BY <1>0, <1>3 DEF ListenAndServe, Labels, Places
<1>4. CASE LeaveLoop
  BY <1>0, <1>4 DEF LeaveLoop, Labels, Places
<1>5. CASE ShutdownProtobufLibrary
  BY <1>0, <1>5 DEF ShutdownProtobufLibrary, Labels
<1>6. CASE Destroy
  <2>1. step \in 1 .. 7
    BY <1>6 DEF Destroy, LifeInv, TakingApart
  <2>2. step' \in 1 .. 12
    BY <1>6, <2>1 DEF Destroy
  <2> QED
    BY <1>0, <1>6, <2>2 DEF Destroy, Labels
<1>7. CASE DestroyStatics
  BY <1>0, <1>7 DEF DestroyStatics, Labels
<1> QED
  BY <1>1, <1>2, <1>3, <1>4, <1>5, <1>6, <1>7 DEF Main

\* A step of an I/O loop or of the network keeps the types, and a loop never
\* holds more connections than were accepted.
LEMMA LoopTypes ==
  ASSUME TypeOK, Connections, ConfigInv', NEW t \in LoopIds,
         Environment(t) \/ IoStep(t)
  PROVE  TypeOK' /\ Connections'
<1>0. /\ accepted \in [LoopIds -> 0 .. MaxEvents] /\ open \in [LoopIds -> 0 .. MaxEvents]
      /\ events \in 0 .. MaxEvents
  BY DEF TypeOK
<1> USE DEF TypeOK, Connections, configVars
<1>1. CASE Accept(t)
  <2>1. /\ accepted' = [accepted EXCEPT ![t] = @ + 1]
        /\ UNCHANGED open /\ events' = events + 1 /\ events' \in 0 .. MaxEvents
    BY <1>1 DEF Accept
  <2>2. accepted[t] + 1 \in 0 .. MaxEvents
    BY <1>1, SMTT(40) DEF Accept
  <2>3. Connections'
    <3> HIDE DEF TypeOK
    <3> QED
      BY <1>0, <2>1, SMTT(40)
  <2>4. accepted' \in [LoopIds -> 0 .. MaxEvents]
    BY <2>1, <2>2
  <2> QED
    BY <1>1, <2>1, <2>3, <2>4 DEF Accept
<1>2. CASE Readable(t)
  <2>1. packets' \in [LoopIds -> 0 .. MaxPackets]
    BY <1>2 DEF Readable
  <2>2. /\ UNCHANGED <<open, accepted>> /\ events' = events + 1
        /\ events' \in 0 .. MaxEvents
    BY <1>2 DEF Readable
  <2>3. Connections'
    <3> HIDE DEF TypeOK
    <3> QED
      BY <1>0, <2>2, SMTT(40)
  <2> QED
    BY <1>2, <2>1, <2>2, <2>3 DEF Readable, Event, Places
<1>3. CASE Closed(t)
  <2>1. open' = [open EXCEPT ![t] = @ - 1] /\ open[t] - 1 \in 0 .. MaxEvents
        /\ UNCHANGED accepted /\ events' = events + 1 /\ events' \in 0 .. MaxEvents
    BY <1>3, SMTT(40) DEF Closed
  <2>2. Connections'
    <3> HIDE DEF TypeOK
    <3> QED
      BY <1>0, <2>1, SMTT(40)
  <2>3. open' \in [LoopIds -> 0 .. MaxEvents]
    BY <2>1
  <2> QED
    BY <1>3, <2>1, <2>2, <2>3 DEF Closed, Event, Places
<1>4. CASE Established(t)
  <2>1. open[t] + 1 \in 0 .. MaxEvents /\ accepted[t] - 1 \in 0 .. MaxEvents
    BY <1>4, SMTT(40) DEF Established
  <2>2. /\ open' = [open EXCEPT ![t] = @ + 1]
        /\ accepted' = [accepted EXCEPT ![t] = @ - 1]
        /\ UNCHANGED events
    BY <1>4 DEF Established
  <2>3. ASSUME NEW u \in LoopIds
        PROVE  accepted'[u] + open'[u] = accepted[u] + open[u]
    BY <2>2
  <2>4. Connections'
    BY <2>2, <2>3
  <2>5. open' \in [LoopIds -> 0 .. MaxEvents] /\ accepted' \in [LoopIds -> 0 .. MaxEvents]
    BY <2>1, <2>2
  <2> QED
    BY <1>4, <2>2, <2>4, <2>5 DEF Established, Event, Places
<1>5. CASE Decode(t)
  BY <1>5, SMTT(40) DEF Decode, Places
<1>6. CASE RouteAndHandle(t)
  BY <1>6 DEF RouteAndHandle, Places
<1>7. CASE Return(t)
  BY <1>7 DEF Return, Places
<1>8. CASE EndThread(t)
  BY <1>8 DEF EndThread, Places
<1> QED
  BY <1>1, <1>2, <1>3, <1>4, <1>5, <1>6, <1>7, <1>8
  DEF Environment, IoStep, Callback

\* No counter of the server runs out of its bounds, in particular no loop closes
\* a connection it does not have, and only parts of the program are destroyed.
THEOREM TypeCorrect == Spec => []TypeOK
<1>1. Init => TypeOK /\ Connections
  <2> SUFFICES ASSUME Init PROVE TypeOK /\ Connections
    OBVIOUS
  <2>1. /\ pc \in Labels /\ step \in 1 .. 12 /\ alive \subseteq Parts
        /\ loading \in {"open", "parse", "fields", "loaded"} /\ field \in 1 .. 8
    BY PartsSetUp DEF Init, ConfigInit, Labels
  <2>2. quit \in BOOLEAN
    BY DEF Init
  <2>3. Connections
    BY DEF Init, Connections
  <2>4. io \in [LoopIds -> Places]
    BY DEF Init, Places
  <2> QED
    BY <2>1, <2>2, <2>3, <2>4, SetupOrder, KeyOrder DEF Init, TypeOK
<1>2. ASSUME TypeOK, Connections, LifeInv, ConfigInv', [Next]_vars
      PROVE  TypeOK' /\ Connections'
  <2>1. CASE Main
    <3>1. TypeOK'
      BY <1>2, <2>1, MainTypes
    <3>2. UNCHANGED <<accepted, open, events>>
      BY <2>1 DEF Main, LoadConfig, Construct, ListenAndServe, LeaveLoop,
                  ShutdownProtobufLibrary, Destroy, DestroyStatics, threads
    <3> QED
      BY <1>2, <3>1, <3>2 DEF Connections
  <2>2. CASE Sigint
    <3>1. quit' \in BOOLEAN
      BY <1>2, <2>2, Zenon DEF Sigint, Stop, TypeOK
    <3>2. pc' \in Labels /\ signals' \in 0 .. MaxSignals
      BY <1>2, <2>2 DEF Sigint, TypeOK, Labels
    <3>3. UNCHANGED <<configVars, step, alive, threads>>
      BY <2>2 DEF Sigint
    <3> QED
      BY <1>2, <3>1, <3>2, <3>3 DEF TypeOK, Connections, threads, configVars
  <2>3. ASSUME NEW t \in LoopIds, Environment(t) \/ IoStep(t)
        PROVE  TypeOK' /\ Connections'
    BY <1>2, <2>3, LoopTypes
  <2>4. CASE Over \/ Polling \/ UNCHANGED vars
    BY <1>2, <2>4 DEF Over, Polling, vars, threads, configVars, TypeOK, Connections
  <2> QED
    BY <1>2, <2>1, <2>2, <2>3, <2>4 DEF Next
<1> QED
  BY <1>1, <1>2, LifeInvariance, ConfigInvariance, PTL DEF Spec
=============================================================================

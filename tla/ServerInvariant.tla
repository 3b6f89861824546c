-------------------------- MODULE ServerInvariant --------------------------
(***************************************************************************)
(* The inductive invariant of Server: how far main has come determines     *)
(* which parts exist and whether I/O threads do.                           *)
(***************************************************************************)
EXTENDS Server

\* What the I/O threads cannot do without as long as they exist.
Ground == {"loop_", "tcpServer_", "GlobalWorldManager"}

NoThreads == \A t \in LoopIds : io[t] \in {"none", "ended"}

\* The control state, and that only the loops of this configuration run.
Control ==
  /\ pc \in Labels
  /\ step \in Nat
  /\ io \in [LoopIds -> Places]
  /\ \A t \in LoopIds : t \in Loops \/ io[t] = "none"

\* Main sets up part after part, and no I/O thread runs.
SettingUp ==
  /\ pc \in {"InitConfig", "setup"} => /\ "protobuf" \in alive
                                      /\ \A t \in LoopIds : io[t] = "none"
  /\ pc = "InitConfig" => step = 1
  /\ pc = "setup" => \A i \in 1 .. Len(Setup) : i < step => Setup[i] \in alive

\* Main serves.
Serving == pc = "Loop" => step = 1 /\ Parts \subseteq alive

\* Main takes the server apart; the I/O threads end before tcpServer_ does.
TakingApart ==
  /\ pc = "ShutdownProtobuf" => step = 1 /\ Ground \subseteq alive
  /\ pc = "destroy" => \/ step \in 1 .. 6 /\ Ground \subseteq alive
                       \/ step = 7 /\ NoThreads
  /\ pc \in {"statics", "exited"} => NoThreads

\* The life of the process is where main says it is: the parts that the code
\* of mmo_server.cpp and the constructors have set up by then exist, and once
\* tcpServer_ is gone there is no I/O thread.
LifeInv == Control /\ SettingUp /\ Serving /\ TakingApart

\* Every connection a loop holds was accepted, and counted as an event.
Connections == \A t \in LoopIds : accepted[t] + open[t] <= events

-----------------------------------------------------------------------------
(***************************************************************************)
(* How far InitConfig is.                                                  *)
(***************************************************************************)

\* The file InitConfig goes by.
ChosenFile == IF local.state = "absent" THEN etc ELSE local

\* The keys that parseConfigValue has been called for.
KeysRead == {Keys[i] : i \in 1 .. field - 1}

\* What the field for key k holds once it is read.
ReadValue(k) ==
  LET v == configs.json[k] IN
  IF Converts(k, v) THEN Converted(k, v) ELSE Defaults[k]

\* While InitConfig runs, the fields it has read hold what the chosen file says
\* or else their defaults, and all others their defaults; it ends with all
\* fields read, or with none when there is no file that parses.
ConfigInv ==
  /\ {local, etc} \subseteq ConfigFiles
  /\ loading \in {"open", "parse", "fields", "loaded"}
  /\ field \in 1 .. Len(Keys) + 1
  /\ loading \in {"open", "parse"} => field = 1
  /\ loading # "open" => configs = ChosenFile
  /\ loading = "parse" => configs.state # "absent"
  /\ loading = "fields" => field <= Len(Keys) /\ configs.state = "ok"
  /\ loading = "loaded" => field = IF configs.state = "ok" THEN Len(Keys) + 1 ELSE 1
  /\ DOMAIN config = Key
  /\ \A k \in Key : config[k] = IF k \in KeysRead THEN ReadValue(k) ELSE Defaults[k]
=============================================================================

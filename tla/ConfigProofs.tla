---------------------------- MODULE ConfigProofs ----------------------------
(***************************************************************************)
(* Proofs about config.yml and the files of a service under any sequence   *)
(* of setup commands, failures and edits, for all host ids, ports and      *)
(* environments.                                                           *)
(***************************************************************************)
EXTENDS Config, TLAPS

Configurations ==
  [mode : Modes, port : Int, hostId : HostIds \cup {""}, token : BOOLEAN]

ConfigTypeOK ==
  /\ config \in Configurations \cup {TornConfig}
  /\ cfg \in Configurations
  /\ pc \in {"idle", "task", "credential", "tlsCert"}
  /\ pc # "idle" => cmd \in Commands
  /\ ready \in {<< >>} \cup (Modes \X (HostIds \cup {""}))

TaskNames == {"serviceConfig", "other", "apiToken", "credential", "tlsCert", "createHost"}

\* t is what is left of the tasks s.
Rest(t, s) ==
  /\ t \in Seq(TaskNames)
  /\ Len(t) <= Len(s)
  /\ \A k \in 1 .. Len(t) : t[k] = s[k + Len(s) - Len(t)]

\* A process works through the tasks of its command, and is inside the two
\* tasks that write files in two steps.
TaskInv ==
  /\ pc # "idle" => Rest(todo, TasksOf(cmd, cfg.mode))
  /\ pc = "credential" => todo # << >> /\ Head(todo) = "credential" /\ cfg.hostId # ""
  /\ pc = "tlsCert" => todo # << >> /\ Head(todo) = "tlsCert"
  /\ pc # "idle" /\ cmd = "download_credential" => cfg.mode = "outbound"

\* The configuration in memory differs from the file only in what the command
\* and its environment set.
MemoryInv ==
  pc # "idle" =>
    /\ config # TornConfig
    /\ cmd \notin {"all", "update_service_config"} => cfg.port = config.port
    /\ config.token => cfg.token
    /\ env.hostId = "" => cfg.hostId = config.hostId

\* Ports that Validate lets pass.
PortOK(p) == p # 0 /\ p <= MaxPort

\* What the tasks of `tagent setup` and download-credential have done when n of
\* them are left.
Progress(n, command, c, cert, cred) ==
  /\ command = "all" =>
       /\ n \in {0, 1, 2, 3} => PortOK(c.port)
       /\ n \in {0, 1} => c.token
       /\ n = 0 /\ c.mode # "outbound" => cert = "written"
  /\ command \in {"all", "download_credential"} /\ n = 0 /\ c.mode = "outbound" =>
       c.hostId # "" /\ cred = c.hostId

ProgressInv == pc # "idle" => Progress(Len(todo), cmd, cfg, tlsCert, credential)

\* What a setup that nothing has undone left, and what a process that runs
\* since is about to save: a token and a port that Validate has seen ...
ReadySaved ==
  ready # << >> /\ config # TornConfig =>
    /\ config.token /\ PortOK(config.port)
    /\ pc # "idle" => PortOK(cfg.port) \/ (cmd = "all" /\ Len(todo) = 4)

\* ... a mode that the service knows ...
KnownModes == {"", "http", "outbound"}

ReadyMode ==
  ready # << >> /\ ready[1] \in KnownModes /\ config # TornConfig =>
    config.mode \in KnownModes /\ (pc # "idle" => cfg.mode \in KnownModes)

\* ... and the files of its mode, unless a process is replacing them or was
\* stopped when it did.
ReadyCredential ==
  ready # << >> /\ ready[1] = "outbound" =>
    /\ ready[2] # ""
    /\ \/ credential \in {ready[2], Torn}
       \/ unsaved
       \/ pc # "idle" /\ CredentialUnsaved

ReadyCertificate ==
  ready # << >> /\ ready[1] \in {"", "http"} => tlsCert \in {"written", Torn}

ReadyInv == ReadySaved /\ ReadyMode /\ ReadyCredential /\ ReadyCertificate

ConfigInv == ConfigTypeOK /\ TaskInv /\ MemoryInv /\ ProgressInv /\ ReadyInv /\ RegisteredPort

-----------------------------------------------------------------------------
(* The operators of the model.                                              *)

\* No command writes the file that a truncation leaves, and no process runs with
\* it in memory.
LEMMA TornIsNone == TornConfig \notin Configurations
<1>1. TornConfig.mode = "torn"
  BY DEF TornConfig, Blank, Torn
<1>2. \A c \in Configurations : c.mode # "torn"
  BY DEF Configurations, Modes
<1> QED
  BY <1>1, <1>2

\* What a failure leaves of config.yml.
LEMMA WhatFails ==
  ASSUME SetupFails
  PROVE  /\ pc # "idle" /\ pc' = "idle" /\ cfg' = Blank /\ ready' = ready /\ moved' = moved
         /\ config' = config \/ config' = TornConfig
         /\ unsaved' = (unsaved \/ CredentialUnsaved)
         /\ UNCHANGED <<tlsCert, credential, hvs>>
<1>1. config' \in {config, TornConfig}
  BY DEF SetupFails
<1> QED
  BY <1>1 DEF SetupFails, Exits

\* Loading the environment changes the mode and, if it is set, the host id.
LEMMA Loaded ==
  ASSUME NEW c \in Configurations, NEW e \in Environments,
         NEW l, l = LoadEnvironmentVariables(c, e)
  PROVE  /\ l \in Configurations
         /\ l.port = c.port /\ l.token = c.token
         /\ e.hostId = "" => l.hostId = c.hostId
         /\ l.mode \in {c.mode, "http", "outbound"}
<1>0. e \in [mode : Modes, hostId : HostIds \cup {""}, badDigest : BOOLEAN]
  BY ConfigAssumption
<1>1. CASE e.badDigest
  BY <1>1 DEF LoadEnvironmentVariables
<1>2. CASE ~e.badDigest /\ e.mode # "outbound"
  BY <1>2 DEF LoadEnvironmentVariables, Configurations, Modes
<1>3. CASE ~e.badDigest /\ e.mode = "outbound"
  BY <1>0, <1>3 DEF LoadEnvironmentVariables, Configurations, Modes
<1> QED
  BY <1>1, <1>2, <1>3

\* The task lists of CreateTaskRunner.
LEMMA TaskLists ==
  ASSUME NEW c \in Commands, NEW mode
  PROVE  /\ c = "all" =>
              TasksOf(c, mode) = <<"serviceConfig", "other", "apiToken",
                                   IF mode = "outbound" THEN "credential" ELSE "tlsCert">>
         /\ c = "update_service_config" => TasksOf(c, mode) = <<"serviceConfig">>
         /\ c = "download_api_token" => TasksOf(c, mode) = <<"apiToken">>
         /\ c = "download_cert" => TasksOf(c, mode) = <<"tlsCert">>
         /\ c = "update_certificates" => TasksOf(c, mode) = <<"other", "tlsCert">>
         /\ c = "download_ca_cert" => TasksOf(c, mode) = <<"other">>
         /\ c = "download_credential" => TasksOf(c, mode) = <<"credential">>
         /\ c = "create_host" => TasksOf(c, mode) = <<"createHost">>
BY DEF TasksOf

LEMMA TasksAreListed ==
  ASSUME NEW c \in Commands, NEW mode
  PROVE  TasksOf(c, mode) \in Seq(TaskNames)
<1> DEFINE s == TasksOf(c, mode)
<1>1. \/ s = <<"serviceConfig", "other", "apiToken", "credential">>
      \/ s = <<"serviceConfig", "other", "apiToken", "tlsCert">>
      \/ s = <<"other", "tlsCert">>
      \/ \E t \in TaskNames : s = <<t>>
  BY TaskLists DEF Commands, TaskNames
<1>2. /\ \A t \in TaskNames : <<t>> \in Seq(TaskNames)
      /\ <<"other", "tlsCert">> \in Seq(TaskNames)
  BY DEF TaskNames
<1>3. <<"serviceConfig", "other", "apiToken", "credential">> \in Seq(TaskNames)
  BY DEF TaskNames
<1>4. <<"serviceConfig", "other", "apiToken", "tlsCert">> \in Seq(TaskNames)
  BY DEF TaskNames
<1>5. s \in Seq(TaskNames)
  <2> HIDE DEF s
  <2> QED
    BY <1>1, <1>2, <1>3, <1>4
<1> QED
  BY <1>5

\* A list is what is left of itself, and completing a task leaves less of it.
LEMMA RestOfList ==
  ASSUME NEW s \in Seq(TaskNames)
  PROVE  /\ Rest(s, s)
         /\ \A t : Rest(t, s) /\ t # << >> =>
              /\ Rest(Tail(t), s)
              /\ Len(Tail(t)) = Len(t) - 1
              /\ Len(t) \in 1 .. Len(s)
              /\ Head(t) = s[1 + Len(s) - Len(t)]
<1>1. Rest(s, s)
  BY DEF Rest
<1>2. ASSUME NEW t, Rest(t, s), t # << >>
      PROVE  /\ Rest(Tail(t), s)
             /\ Len(Tail(t)) = Len(t) - 1
             /\ Len(t) \in 1 .. Len(s)
             /\ Head(t) = s[1 + Len(s) - Len(t)]
  BY <1>2 DEF Rest
<1> QED
  BY <1>1, <1>2

\* Where in its command a task is.
LEMMA TaskPlace ==
  ASSUME ConfigTypeOK, TaskInv, pc # "idle", todo # << >>
  PROVE  /\ Rest(Tail(todo), TasksOf(cmd, cfg.mode))
         /\ Len(Tail(todo)) = Len(todo) - 1 /\ Len(todo) \in Nat \ {0}
         /\ Head(todo) = "serviceConfig" =>
              cmd = "update_service_config" \/ (cmd = "all" /\ Len(todo) = 4)
         /\ Head(todo) = "other" => (cmd = "all" => Len(todo) = 3)
                                     /\ cmd # "download_credential"
         /\ Head(todo) = "apiToken" => (cmd = "all" => Len(todo) = 2)
                                     /\ cmd # "download_credential"
         /\ Head(todo) = "credential" =>
              cmd \in {"all", "download_credential"} /\ Len(todo) = 1 /\ cfg.mode = "outbound"
         /\ Head(todo) = "tlsCert" =>
              /\ cmd # "download_credential"
              /\ cmd = "all" => Len(todo) = 1 /\ cfg.mode # "outbound"
         /\ Head(todo) = "createHost" => cmd = "create_host"
<1> DEFINE s == TasksOf(cmd, cfg.mode)
<1>1. cmd \in Commands /\ Rest(todo, s)
  BY DEF ConfigTypeOK, TaskInv
<1>2. s \in Seq(TaskNames)
  BY <1>1, TasksAreListed
<1>3. /\ Rest(Tail(todo), s)
      /\ Len(Tail(todo)) = Len(todo) - 1
      /\ Len(todo) \in 1 .. Len(s)
      /\ Head(todo) = s[1 + Len(s) - Len(todo)]
  <2> HIDE DEF s
  <2> QED
    BY <1>1, <1>2, RestOfList
<1>4. Len(todo) \in Nat \ {0}
  BY <1>2, <1>3
<1>5. CASE cmd = "all"
  <2>1. s = <<"serviceConfig", "other", "apiToken",
              IF cfg.mode = "outbound" THEN "credential" ELSE "tlsCert">>
    BY <1>1, <1>5, TaskLists
  <2> HIDE DEF s
  <2>2. Len(s) = 4 /\ s[1] = "serviceConfig" /\ s[2] = "other" /\ s[3] = "apiToken"
        /\ s[4] = IF cfg.mode = "outbound" THEN "credential" ELSE "tlsCert"
    BY <2>1
  <2>3. Len(todo) \in {1, 2, 3, 4} /\ Head(todo) = s[5 - Len(todo)]
    BY <1>3, <2>2
  <2>4. \/ Len(todo) = 4 /\ Head(todo) = "serviceConfig"
        \/ Len(todo) = 3 /\ Head(todo) = "other"
        \/ Len(todo) = 2 /\ Head(todo) = "apiToken"
        \/ Len(todo) = 1 /\ Head(todo) = s[4]
    <3>1. CASE Len(todo) = 4
      BY <2>2, <2>3, <3>1
    <3>2. CASE Len(todo) = 3
      BY <2>2, <2>3, <3>2
    <3>3. CASE Len(todo) = 2
      BY <2>2, <2>3, <3>3
    <3>4. CASE Len(todo) = 1
      BY <2>2, <2>3, <3>4
    <3> QED
      BY <2>3, <3>1, <3>2, <3>3, <3>4
  <2> QED
    BY <1>3, <1>4, <1>5, <2>2, <2>4 DEF s
<1>6. CASE cmd = "update_certificates"
  <2>1. s = <<"other", "tlsCert">>
    BY <1>1, <1>6, TaskLists
  <2> HIDE DEF s
  <2> QED
    BY <1>3, <1>4, <1>6, <2>1 DEF s
<1>7. CASE cmd \notin {"all", "update_certificates"}
  <2>1. s \in {<<"serviceConfig">>, <<"apiToken">>, <<"tlsCert">>, <<"other">>,
               <<"credential">>, <<"createHost">>}
        /\ (s = <<"serviceConfig">> => cmd = "update_service_config")
        /\ (s = <<"credential">> <=> cmd = "download_credential")
        /\ (s = <<"createHost">> => cmd = "create_host")
    BY <1>1, <1>7, TaskLists DEF Commands
  <2>2. cmd = "download_credential" => cfg.mode = "outbound"
    BY DEF TaskInv
  <2> HIDE DEF s
  <2>3. Len(s) = 1
    BY <2>1
  <2>4. Len(todo) = 1
    BY <1>3, <2>3
  <2>5. Head(todo) = s[1]
    BY <1>3, <2>3, <2>4
  <2> QED
    BY <1>3, <1>7, <2>1, <2>2, <2>4, <2>5 DEF s
<1> QED
  BY <1>5, <1>6, <1>7

\* A port that is not negative and passes Validate is one to listen on.
LEMMA PortRange ==
  ASSUME NEW p \in Int, PortOK(p), ~(p < 0)
  PROVE  p \in 1 .. MaxPort
<1>1. MaxPort \in Nat
  BY ConfigAssumption, Zenon
<1> QED
  BY <1>1 DEF PortOK

\* update-service-config sets the port and nothing else.
LEMMA PortSet ==
  ASSUME ConfigTypeOK, NEW p \in EnvPorts, UpdateServiceConfig(p)
  PROVE  /\ cfg' \in Configurations /\ PortOK(cfg'.port)
         /\ cfg'.mode = cfg.mode /\ cfg'.hostId = cfg.hostId /\ cfg'.token = cfg.token
<1> DEFINE port == IF p = 0 THEN DefaultPort ELSE p
<1>1. port <= MaxPort /\ cfg' = [cfg EXCEPT !.port = port]
  BY DEF UpdateServiceConfig
<1>2. port \in Int /\ PortOK(port)
  <2>1. MaxPort \in Nat /\ DefaultPort \in 1 .. MaxPort /\ EnvPorts \subseteq Int
    BY ConfigAssumption, Zenon
  <2>2. p \in Int
    BY <2>1
  <2>3. DefaultPort \in Int /\ 1 <= DefaultPort
    BY <2>1
  <2> QED
    BY <1>1, <2>1, <2>2, <2>3 DEF PortOK
<1> HIDE DEF port
<1> QED
  BY <1>1, <1>2 DEF ConfigTypeOK, Configurations

\* download-api-token sets the token and nothing else, and saves it.
LEMMA TokenSet ==
  ASSUME ConfigTypeOK, DownloadApiToken
  PROVE  /\ cfg' \in Configurations /\ config' = cfg' /\ cfg'.token
         /\ cfg'.mode = cfg.mode /\ cfg'.hostId = cfg.hostId /\ cfg'.port = cfg.port
BY DEF DownloadApiToken, Saves, ConfigTypeOK, Configurations

-----------------------------------------------------------------------------
(* The steps.                                                               *)

LEMMA ConfigTypeStep == ConfigTypeOK /\ [Next]_vars => ConfigTypeOK'
<1> SUFFICES ASSUME ConfigTypeOK, [Next]_vars PROVE ConfigTypeOK'
  OBVIOUS
<1> USE DEF vars, files, setupVars, histVars
<1>0. Blank \in Configurations
  BY DEF Blank, Configurations, Modes
<1>1. ASSUME NEW c \in Commands, NEW e \in Environments, SetupStart(c, e) PROVE ConfigTypeOK'
  <2>1. config \in Configurations
    BY <1>1 DEF SetupStart, ConfigTypeOK
  <2> QED
    BY <1>1, <2>1, Loaded DEF SetupStart, ConfigTypeOK
<1>2. ASSUME NEW p \in EnvPorts, UpdateServiceConfig(p) PROVE ConfigTypeOK'
  BY <1>2, PortSet DEF UpdateServiceConfig, Completed, At, ConfigTypeOK
<1>3. CASE OtherTask
  BY <1>3 DEF OtherTask, Completed, At, ConfigTypeOK
<1>4. CASE DownloadApiToken
  BY <1>4, TokenSet DEF DownloadApiToken, Completed, At, ConfigTypeOK
<1>5. CASE DownloadCredential \/ DownloadTlsCert
  BY <1>5 DEF DownloadCredential, DownloadTlsCert, At, ConfigTypeOK
<1>6. CASE WriteCredential \/ WriteTlsCert
  BY <1>6 DEF WriteCredential, WriteTlsCert, Completed, ConfigTypeOK
<1>7. CASE CreateHost
  BY <1>7 DEF CreateHost, Completed, At, ConfigTypeOK
<1>8. CASE SaveConfig
  <2>1. <<cfg.mode, cfg.hostId>> \in Modes \X (HostIds \cup {""})
    BY DEF ConfigTypeOK, Configurations
  <2> QED
    BY <1>0, <1>8, <2>1 DEF SaveConfig, Saves, Exits, ConfigTypeOK
<1>9. CASE SetupFails
  BY <1>0, <1>9, WhatFails DEF ConfigTypeOK
<1>10. ASSUME NEW m \in Modes, NEW p \in EnvPorts, EditConfig(m, p) PROVE ConfigTypeOK'
  <2> DEFINE old == IF config = TornConfig THEN Blank ELSE config
  <2>0. old \in Configurations
    BY <1>0 DEF ConfigTypeOK
  <2>1. config' \in Configurations
    <3>1. config' = [old EXCEPT !.mode = m, !.port = p] /\ p \in Int
      BY <1>10, ConfigAssumption DEF EditConfig
    <3> HIDE DEF old
    <3> QED
      BY <2>0, <3>1 DEF Configurations
  <2> QED
    BY <1>10, <2>1 DEF EditConfig, ConfigTypeOK
<1>11. CASE Uninstall \/ DeleteHost
  BY <1>0, <1>11 DEF Uninstall, DeleteHost, ConfigTypeOK
<1>12. CASE UNCHANGED vars
  BY <1>12 DEF ConfigTypeOK
<1> QED
  BY <1>1, <1>2, <1>3, <1>4, <1>5, <1>6, <1>7, <1>8, <1>9, <1>10, <1>11, <1>12
  DEF Next, SetupStep

LEMMA TaskStep == ConfigTypeOK /\ TaskInv /\ [Next]_vars => TaskInv'
<1> SUFFICES ASSUME ConfigTypeOK, TaskInv, [Next]_vars PROVE TaskInv'
  OBVIOUS
<1> USE DEF vars, files, setupVars, histVars
<1>1. ASSUME NEW c \in Commands, NEW e \in Environments, SetupStart(c, e) PROVE TaskInv'
  <2>1. TasksOf(c, cfg'.mode) \in Seq(TaskNames)
    BY <1>1, TasksAreListed
  <2>2. /\ todo' = TasksOf(cmd', cfg'.mode) /\ cmd' = c /\ pc' = "task"
        /\ c = "download_credential" => cfg'.mode = "outbound"
    BY <1>1 DEF SetupStart
  <2> QED
    BY <2>1, <2>2, RestOfList DEF TaskInv
<1>2. ASSUME NEW p \in EnvPorts, UpdateServiceConfig(p) PROVE TaskInv'
  BY <1>2, PortSet, TaskPlace DEF UpdateServiceConfig, Completed, At, TaskInv
<1>3. CASE OtherTask
  BY <1>3, TaskPlace DEF OtherTask, Completed, At, TaskInv
<1>4. CASE DownloadApiToken
  BY <1>4, TokenSet, TaskPlace DEF DownloadApiToken, Completed, At, TaskInv
<1>5. CASE DownloadCredential \/ DownloadTlsCert
  BY <1>5 DEF DownloadCredential, DownloadTlsCert, At, TaskInv
<1>6. CASE WriteCredential \/ WriteTlsCert
  BY <1>6, TaskPlace DEF WriteCredential, WriteTlsCert, Completed, TaskInv
<1>7. CASE CreateHost
  BY <1>7, TaskPlace DEF CreateHost, Completed, At, TaskInv
<1>8. CASE SaveConfig \/ SetupFails
  BY <1>8 DEF SaveConfig, SetupFails, Exits, TaskInv
<1>9. CASE \E m \in Modes, p \in EnvPorts : EditConfig(m, p)
  BY <1>9 DEF EditConfig, TaskInv
<1>10. CASE Uninstall
  BY <1>10 DEF Uninstall, TaskInv
<1>11. CASE DeleteHost
  BY <1>11 DEF DeleteHost, TaskInv
<1>12. CASE UNCHANGED vars
  BY <1>12 DEF TaskInv
<1> QED
  BY <1>1, <1>2, <1>3, <1>4, <1>5, <1>6, <1>7, <1>8, <1>9, <1>10, <1>11, <1>12
  DEF Next, SetupStep

LEMMA MemoryStep == ConfigTypeOK /\ TaskInv /\ MemoryInv /\ [Next]_vars => MemoryInv'
<1> SUFFICES ASSUME ConfigTypeOK, TaskInv, MemoryInv, [Next]_vars PROVE MemoryInv'
  OBVIOUS
<1> USE DEF vars, files, setupVars, histVars
<1>1. ASSUME NEW c \in Commands, NEW e \in Environments, SetupStart(c, e) PROVE MemoryInv'
  <2>1. config \in Configurations /\ config # TornConfig
    BY <1>1 DEF SetupStart, ConfigTypeOK
  <2> QED
    BY <1>1, <2>1, Loaded DEF SetupStart, MemoryInv
<1>2. ASSUME NEW p \in EnvPorts, UpdateServiceConfig(p) PROVE MemoryInv'
  BY <1>2, PortSet, TaskPlace DEF UpdateServiceConfig, Completed, At, MemoryInv
<1>3. CASE OtherTask
  BY <1>3 DEF OtherTask, Completed, At, MemoryInv
<1>4. CASE DownloadApiToken
  BY <1>4, TokenSet, TornIsNone DEF DownloadApiToken, Completed, At, MemoryInv
<1>5. CASE DownloadCredential \/ DownloadTlsCert
  BY <1>5 DEF DownloadCredential, DownloadTlsCert, At, MemoryInv
<1>6. CASE WriteCredential \/ WriteTlsCert
  BY <1>6 DEF WriteCredential, WriteTlsCert, Completed, MemoryInv
<1>7. CASE CreateHost
  BY <1>7 DEF CreateHost, Completed, At, MemoryInv
<1>8. CASE SaveConfig \/ SetupFails
  BY <1>8 DEF SaveConfig, SetupFails, Exits, MemoryInv
<1>9. CASE \E m \in Modes, p \in EnvPorts : EditConfig(m, p)
  BY <1>9 DEF EditConfig, MemoryInv
<1>10. CASE Uninstall \/ DeleteHost
  BY <1>10 DEF Uninstall, DeleteHost, MemoryInv
<1>11. CASE UNCHANGED vars
  BY <1>11 DEF MemoryInv
<1> QED
  BY <1>1, <1>2, <1>3, <1>4, <1>5, <1>6, <1>7, <1>8, <1>9, <1>10, <1>11
  DEF Next, SetupStep

\* No command is without tasks, and `tagent setup` has four kinds of them.
LEMMA TasksToDo ==
  ASSUME NEW c \in Commands, NEW mode
  PROVE  TasksOf(c, mode) # << >> /\ (c = "all" => Len(TasksOf(c, mode)) = 4)
<1>1. CASE c = "all"
  BY <1>1, TaskLists
<1>2. CASE c # "all"
  BY <1>2, TaskLists DEF Commands
<1> QED
  BY <1>1, <1>2

\* A list with nothing left has no task left.
LEMMA LastTask ==
  ASSUME NEW t, NEW s, Rest(t, s)
  PROVE  Len(t) \in Nat /\ (t = << >> <=> Len(t) = 0)
<1>1. t \in Seq(TaskNames)
  BY DEF Rest
<1> QED
  BY <1>1


\* A step that completes a task.
LEMMA OneLess ==
  ASSUME ConfigTypeOK, TaskInv, pc # "idle", todo # << >>, todo' = Tail(todo)
  PROVE  Len(todo) \in Nat \ {0} /\ Len(todo') = Len(todo) - 1
BY TaskPlace, Zenon

LEMMA ProgressStep ==
  ConfigTypeOK /\ TaskInv /\ ProgressInv /\ [Next]_vars => ProgressInv'
<1> SUFFICES ASSUME ConfigTypeOK, TaskInv, ProgressInv, [Next]_vars PROVE ProgressInv'
  OBVIOUS
<1> USE DEF vars, files, setupVars, histVars
<1> DEFINE m == Len(todo)
           n == Len(todo')
<1> SUFFICES ASSUME pc' # "idle"
             PROVE  Progress(n, cmd', cfg', tlsCert', credential')
  BY DEF ProgressInv
<1>0. pc # "idle" => Progress(m, cmd, cfg, tlsCert, credential)
  BY DEF ProgressInv
<1>1. ASSUME NEW c \in Commands, NEW e \in Environments, SetupStart(c, e)
      PROVE  Progress(n, cmd', cfg', tlsCert', credential')
  <2>1. todo' = TasksOf(c, cfg'.mode) /\ cmd' = c
    BY <1>1 DEF SetupStart
  <2>2. n # 0 /\ (c = "all" => n = 4)
    BY <2>1, TasksToDo
  <2> HIDE DEF n
  <2>3. n # 0 /\ (c = "all" => n \notin {0, 1, 2, 3} /\ n \notin {0, 1})
    BY <2>2
  <2> QED
    BY <2>1, <2>3, Zenon DEF Progress
<1>2. ASSUME NEW p \in EnvPorts, UpdateServiceConfig(p)
      PROVE  Progress(n, cmd', cfg', tlsCert', credential')
  <2>1. /\ pc = "task" /\ todo # << >> /\ Head(todo) = "serviceConfig" /\ todo' = Tail(todo)
        /\ UNCHANGED <<cmd, tlsCert, credential>>
    BY <1>2 DEF UpdateServiceConfig, Completed, At
  <2>2. cmd = "update_service_config" \/ (cmd = "all" /\ m = 4)
    BY <2>1, TaskPlace
  <2>3. m \in Nat \ {0} /\ n = m - 1
    BY <2>1, OneLess
  <2>4. PortOK(cfg'.port)
    BY <1>2, PortSet
  <2> HIDE DEF m, n
  <2>5. cmd = "all" => n # 0 /\ n \notin {0, 1}
    BY <2>2, <2>3
  <2> QED
    BY <2>1, <2>2, <2>4, <2>5, Zenon DEF Progress
<1>3. CASE OtherTask
  <2>1. /\ pc = "task" /\ todo # << >> /\ Head(todo) = "other" /\ todo' = Tail(todo)
        /\ UNCHANGED <<cmd, cfg, tlsCert, credential>>
    BY <1>3 DEF OtherTask, Completed, At
  <2>2. cmd # "download_credential" /\ (cmd = "all" => m = 3)
    BY <2>1, TaskPlace
  <2>3. m \in Nat \ {0} /\ n = m - 1
    BY <2>1, OneLess
  <2> HIDE DEF m, n
  <2>4. cmd = "all" => m \in {0, 1, 2, 3} /\ n # 0 /\ n \notin {0, 1}
    BY <2>2, <2>3
  <2> QED
    BY <1>0, <2>1, <2>2, <2>4 DEF Progress
<1>4. CASE DownloadApiToken
  <2>1. /\ pc = "task" /\ todo # << >> /\ Head(todo) = "apiToken" /\ todo' = Tail(todo)
        /\ UNCHANGED <<cmd, tlsCert, credential>>
    BY <1>4 DEF DownloadApiToken, Completed, At
  <2>2. cmd # "download_credential" /\ (cmd = "all" => m = 2)
    BY <2>1, TaskPlace
  <2>3. m \in Nat \ {0} /\ n = m - 1
    BY <2>1, OneLess
  <2>4. cfg'.token /\ cfg'.port = cfg.port
    BY <1>4, TokenSet
  <2> HIDE DEF m, n
  <2>5. cmd = "all" => m \in {0, 1, 2, 3} /\ n # 0
    BY <2>2, <2>3
  <2> QED
    BY <1>0, <2>1, <2>2, <2>4, <2>5 DEF Progress
<1>5. CASE DownloadCredential \/ DownloadTlsCert
  <2>1. /\ pc = "task" /\ todo # << >> /\ n = m
        /\ cmd' = cmd /\ cfg' = cfg
    BY <1>5 DEF DownloadCredential, DownloadTlsCert, At
  <2>2. m \in Nat /\ m # 0
    BY <2>1, TaskPlace
  <2> HIDE DEF m, n
  <2> QED
    BY <1>0, <2>1, <2>2 DEF Progress
<1>6. CASE WriteCredential
  <2>1. /\ pc = "credential" /\ todo # << >> /\ Head(todo) = "credential"
        /\ todo' = Tail(todo) /\ cfg.hostId # "" /\ credential' = cfg.hostId
        /\ UNCHANGED <<cmd, cfg, tlsCert>>
    BY <1>6 DEF WriteCredential, Completed, TaskInv
  <2>2. m = 1 /\ cfg.mode = "outbound"
    BY <2>1, TaskPlace
  <2>3. n = m - 1
    BY <2>1, OneLess
  <2> HIDE DEF m, n
  <2> QED
    BY <1>0, <2>1, <2>2, <2>3 DEF Progress
<1>7. CASE WriteTlsCert
  <2>1. /\ pc = "tlsCert" /\ todo # << >> /\ Head(todo) = "tlsCert"
        /\ todo' = Tail(todo) /\ tlsCert' = "written"
        /\ UNCHANGED <<cmd, cfg, credential>>
    BY <1>7 DEF WriteTlsCert, Completed, TaskInv
  <2>2. cmd # "download_credential" /\ (cmd = "all" => m = 1 /\ cfg.mode # "outbound")
    BY <2>1, TaskPlace
  <2>3. m \in Nat \ {0} /\ n = m - 1
    BY <2>1, OneLess
  <2> HIDE DEF m, n
  <2> QED
    BY <1>0, <2>1, <2>2, <2>3 DEF Progress
<1>8. CASE CreateHost
  <2>1. /\ pc = "task" /\ todo # << >> /\ Head(todo) = "createHost" /\ cmd' = cmd
    BY <1>8 DEF CreateHost, Completed, At
  <2>2. cmd = "create_host"
    BY <2>1, TaskPlace
  <2> QED
    BY <2>1, <2>2 DEF Progress
<1>9. CASE SaveConfig \/ SetupFails
  BY <1>9 DEF SaveConfig, SetupFails, Exits
<1>10. CASE (\E mode \in Modes, p \in EnvPorts : EditConfig(mode, p)) \/ Uninstall
  BY <1>10 DEF EditConfig, Uninstall
<1>11. CASE DeleteHost \/ UNCHANGED vars
  BY <1>0, <1>11 DEF DeleteHost
<1> QED
  BY <1>1, <1>2, <1>3, <1>4, <1>5, <1>6, <1>7, <1>8, <1>9, <1>10, <1>11
  DEF Next, SetupStep

LEMMA RegisteredStep ==
  ConfigTypeOK /\ TaskInv /\ MemoryInv /\ RegisteredPort /\ [Next]_vars => RegisteredPort'
<1> SUFFICES ASSUME ConfigTypeOK, TaskInv, MemoryInv, RegisteredPort, [Next]_vars
             PROVE RegisteredPort'
  OBVIOUS
<1> USE DEF vars, files, setupVars, histVars
<1>1. CASE \E c \in Commands, e \in Environments : SetupStart(c, e)
  BY <1>1 DEF SetupStart, RegisteredPort
<1>2. CASE \E p \in EnvPorts : UpdateServiceConfig(p)
  BY <1>2 DEF UpdateServiceConfig, RegisteredPort
<1>3. CASE OtherTask
  BY <1>3 DEF OtherTask, RegisteredPort
<1>4. CASE DownloadApiToken
  <2>1. config'.port = cfg.port /\ hvs' = hvs /\ pc = "task"
    BY <1>4, TokenSet DEF DownloadApiToken, At
  <2>2. /\ config # TornConfig
        /\ ~moved' => ~moved /\ (hvs = {} \/ config'.port = config.port)
    BY <1>4, <2>1 DEF DownloadApiToken, Saves, MemoryInv
  <2> QED
    BY <2>1, <2>2 DEF RegisteredPort
<1>5. CASE DownloadCredential \/ DownloadTlsCert \/ WriteCredential \/ WriteTlsCert
  BY <1>5 DEF DownloadCredential, DownloadTlsCert, WriteCredential, WriteTlsCert, RegisteredPort
<1>6. CASE CreateHost
  <2>1. /\ pc = "task" /\ todo # << >> /\ Head(todo) = "createHost"
        /\ hvs' = {cfg.port} /\ config' = config
    BY <1>6 DEF CreateHost, Completed, At
  <2>2. cmd = "create_host"
    BY <2>1, TaskPlace
  <2> QED
    BY <2>1, <2>2 DEF MemoryInv, RegisteredPort
<1>7. CASE SaveConfig
  <2>1. config' = cfg /\ hvs' = hvs /\ pc = "task"
    BY <1>7 DEF SaveConfig, Saves
  <2>2. /\ config # TornConfig
        /\ ~moved' => ~moved /\ (hvs = {} \/ config'.port = config.port)
    BY <1>7, <2>1 DEF SaveConfig, Saves, MemoryInv
  <2> QED
    BY <2>1, <2>2 DEF RegisteredPort
<1>8. CASE SetupFails
  BY <1>8, WhatFails DEF RegisteredPort
<1>9. ASSUME NEW m \in Modes, NEW p \in EnvPorts, EditConfig(m, p) PROVE RegisteredPort'
  <2>1. hvs' = hvs /\ (~moved' => ~moved /\ p = config.port /\ config # TornConfig)
    BY <1>9 DEF EditConfig
  <2>2. config # TornConfig => config'.port = p
    BY <1>9 DEF EditConfig, ConfigTypeOK, Configurations
  <2> QED
    BY <2>1, <2>2 DEF RegisteredPort
<1>10. CASE Uninstall \/ DeleteHost
  BY <1>10 DEF Uninstall, DeleteHost, RegisteredPort
<1>11. CASE UNCHANGED vars
  BY <1>11 DEF RegisteredPort
<1> QED
  BY <1>1, <1>2, <1>3, <1>4, <1>5, <1>6, <1>7, <1>8, <1>9, <1>10, <1>11
  DEF Next, SetupStep

\* A setup that is undone by nothing keeps a valid port in memory.
LEMMA ValidPort ==
  ASSUME ReadySaved, MemoryInv, ready # << >>, pc # "idle", cmd = "all" => Len(todo) # 4
  PROVE  PortOK(cfg.port)
BY DEF ReadySaved, MemoryInv

\* What a process has done that completed its tasks.
LEMMA AllDone ==
  ASSUME ConfigTypeOK, TaskInv, ProgressInv, pc = "task", todo = << >>
  PROVE  /\ Len(todo) = 0
         /\ cmd = "all" => cfg.token /\ PortOK(cfg.port)
         /\ cmd = "all" /\ cfg.mode # "outbound" => tlsCert = "written"
         /\ cmd \in {"all", "download_credential"} /\ cfg.mode = "outbound" =>
              cfg.hostId # "" /\ credential = cfg.hostId
<1> DEFINE n == Len(todo)
<1>1. n = 0
  OBVIOUS
<1>2. Progress(n, cmd, cfg, tlsCert, credential)
  BY DEF ProgressInv
<1>3. n \in {0, 1, 2, 3} /\ n \in {0, 1}
  BY <1>1
<1> HIDE DEF n
<1>4. /\ n = 0
      /\ cmd = "all" => cfg.token /\ PortOK(cfg.port)
      /\ cmd = "all" /\ cfg.mode # "outbound" => tlsCert = "written"
      /\ cmd \in {"all", "download_credential"} /\ cfg.mode = "outbound" =>
              cfg.hostId # "" /\ credential = cfg.hostId
  BY <1>1, <1>2, <1>3, Zenon DEF Progress
<1> QED
  BY <1>4 DEF n

\* The modes and host id that a saved setup is remembered with.
LEMMA SaveRemembers ==
  ASSUME SaveConfig
  PROVE  /\ config' = cfg /\ pc = "task" /\ todo = << >> /\ pc' = "idle"
         /\ UNCHANGED <<tlsCert, credential>>
         /\ \/ cmd \in {"all", "download_credential"} /\ ready' = <<cfg.mode, cfg.hostId>>
               /\ (cmd = "all" \/ ready # << >>)
            \/ cmd \notin {"all", "download_credential"} /\ ready' = ready
            \/ ready' = << >>
<1>1. /\ config' = cfg /\ pc = "task" /\ todo = << >> /\ pc' = "idle"
      /\ UNCHANGED <<tlsCert, credential>>
  BY DEF SaveConfig, Saves, Exits
<1>2. ready' = IF cmd \in {"all", "download_credential"} /\ (cmd = "all" \/ ready # << >>)
               THEN <<cfg.mode, cfg.hostId>> ELSE ready
  BY DEF SaveConfig
<1> QED
  BY <1>1, <1>2

LEMMA ReadySavedStep ==
  ConfigTypeOK /\ TaskInv /\ MemoryInv /\ ProgressInv /\ ReadySaved /\ [Next]_vars => ReadySaved'
<1> SUFFICES ASSUME ConfigTypeOK, TaskInv, MemoryInv, ProgressInv, ReadySaved, [Next]_vars,
                    ready' # << >>, config' # TornConfig
             PROVE  /\ config'.token /\ PortOK(config'.port)
                    /\ pc' # "idle" => PortOK(cfg'.port) \/ (cmd' = "all" /\ Len(todo') = 4)
  BY DEF ReadySaved
<1> USE DEF vars, files, setupVars, histVars
<1> DEFINE Goal == /\ config'.token /\ PortOK(config'.port)
                   /\ pc' # "idle" => PortOK(cfg'.port) \/ (cmd' = "all" /\ Len(todo') = 4)
<1>0. ready # << >> /\ config # TornConfig => config.token /\ PortOK(config.port)
  BY DEF ReadySaved
<1>1. ASSUME NEW c \in Commands, NEW e \in Environments, SetupStart(c, e) PROVE Goal
  <2>1. config' = config /\ ready' = ready /\ cfg' = LoadEnvironmentVariables(config, e)
        /\ config # TornConfig
    BY <1>1 DEF SetupStart
  <2>2. cfg'.port = config.port
    BY <2>1, Loaded DEF ConfigTypeOK
  <2> QED
    BY <1>0, <2>1, <2>2
<1>2. ASSUME NEW p \in EnvPorts, UpdateServiceConfig(p) PROVE Goal
  <2>1. config' = config /\ ready' = ready
    BY <1>2 DEF UpdateServiceConfig
  <2> QED
    BY <1>0, <1>2, <2>1, PortSet
<1>3. CASE OtherTask \/ WriteCredential \/ WriteTlsCert \/ CreateHost
  <2>1. /\ config' = config /\ ready' = ready /\ cfg' = cfg /\ pc # "idle" /\ todo # << >>
        /\ Head(todo) \in {"other", "credential", "tlsCert", "createHost"}
    BY <1>3 DEF OtherTask, WriteCredential, WriteTlsCert, CreateHost, Completed, At, TaskInv
  <2>2. cmd = "all" => Len(todo) # 4
    <3> DEFINE m == Len(todo)
    <3>1. cmd # "all" \/ m = 3 \/ m = 1 \/ cmd = "create_host"
      BY <2>1, TaskPlace, Zenon
    <3> HIDE DEF m
    <3>2. cmd = "all" => m # 4
      BY <3>1
    <3> QED
      BY <3>2 DEF m
  <2> QED
    BY <1>0, <2>1, <2>2, ValidPort
<1>4. CASE DownloadApiToken
  <2>1. ready' = ready /\ pc # "idle" /\ todo # << >> /\ Head(todo) = "apiToken"
    BY <1>4 DEF DownloadApiToken, At
  <2>2. cmd = "all" => Len(todo) # 4
    <3>1. cmd = "all" => Len(todo) = 2
      BY <2>1, TaskPlace, Zenon
    <3> QED
      BY <3>1
  <2>3. PortOK(cfg.port)
    BY <2>1, <2>2, ValidPort
  <2> QED
    BY <1>4, <2>3, TokenSet
<1>5. CASE DownloadCredential \/ DownloadTlsCert
  BY <1>5 DEF DownloadCredential, DownloadTlsCert, At, ReadySaved
<1>6. CASE SaveConfig
  <2>1. config' = cfg /\ pc = "task" /\ todo = << >> /\ pc' = "idle"
    BY <1>6, SaveRemembers
  <2>2. Len(todo) = 0 /\ (cmd = "all" => cfg.token /\ PortOK(cfg.port))
    BY <2>1, AllDone
  <2>3. CASE ready # << >>
    <3>1. cfg.token
      BY <1>0, <2>1, <2>3 DEF MemoryInv
    <3>2. PortOK(cfg.port)
      BY <2>1, <2>2, <2>3, ValidPort
    <3> QED
      BY <2>1, <3>1, <3>2
  <2>4. CASE ready = << >>
    <3>1. cmd = "all"
      BY <1>6, <2>4, SaveRemembers
    <3> QED
      BY <2>1, <2>2, <3>1
  <2> QED
    BY <2>3, <2>4
<1>7. CASE SetupFails
  <2>1. pc' = "idle" /\ config' = config /\ ready # << >>
    BY <1>7, WhatFails
  <2> QED
    BY <1>0, <2>1
<1>8. CASE (\E m \in Modes, p \in EnvPorts : EditConfig(m, p)) \/ Uninstall
  BY <1>8 DEF EditConfig, Uninstall
<1>9. CASE DeleteHost \/ UNCHANGED vars
  BY <1>9 DEF DeleteHost, ReadySaved
<1> QED
  BY <1>1, <1>2, <1>3, <1>4, <1>5, <1>6, <1>7, <1>8, <1>9 DEF Next, SetupStep

LEMMA ReadyModeStep == ConfigTypeOK /\ MemoryInv /\ ReadyMode /\ [Next]_vars => ReadyMode'
<1> SUFFICES ASSUME ConfigTypeOK, MemoryInv, ReadyMode, [Next]_vars,
                    ready' # << >>, ready'[1] \in KnownModes, config' # TornConfig
             PROVE  config'.mode \in KnownModes /\ (pc' # "idle" => cfg'.mode \in KnownModes)
  BY DEF ReadyMode
<1> USE DEF vars, files, setupVars, histVars
<1> DEFINE Goal == config'.mode \in KnownModes /\ (pc' # "idle" => cfg'.mode \in KnownModes)
<1>0. ready' = ready /\ config # TornConfig =>
        config.mode \in KnownModes /\ (pc # "idle" => cfg.mode \in KnownModes)
  BY DEF ReadyMode
<1>1. ASSUME NEW c \in Commands, NEW e \in Environments, SetupStart(c, e) PROVE Goal
  <2>1. config' = config /\ ready' = ready /\ cfg' = LoadEnvironmentVariables(config, e)
        /\ config # TornConfig
    BY <1>1 DEF SetupStart
  <2>2. cfg'.mode \in {config.mode, "http", "outbound"}
    BY <2>1, Loaded DEF ConfigTypeOK
  <2> QED
    BY <1>0, <2>1, <2>2 DEF KnownModes
<1>2. ASSUME NEW p \in EnvPorts, UpdateServiceConfig(p) PROVE Goal
  <2>1. config' = config /\ ready' = ready /\ pc = "task"
    BY <1>2 DEF UpdateServiceConfig, At
  <2> QED
    BY <1>0, <1>2, <2>1, PortSet
<1>3. CASE OtherTask \/ WriteCredential \/ WriteTlsCert \/ CreateHost
           \/ DownloadCredential \/ DownloadTlsCert
  <2>1. config' = config /\ ready' = ready /\ cfg' = cfg /\ pc # "idle"
    BY <1>3 DEF OtherTask, WriteCredential, WriteTlsCert, CreateHost, DownloadCredential,
                DownloadTlsCert, At
  <2> QED
    BY <1>0, <2>1
<1>4. CASE DownloadApiToken
  <2>1. ready' = ready /\ pc = "task" /\ config # TornConfig
    BY <1>4 DEF DownloadApiToken, At, MemoryInv
  <2> QED
    BY <1>0, <1>4, <2>1, TokenSet
<1>5. CASE SaveConfig
  <2>1. config' = cfg /\ pc = "task" /\ pc' = "idle"
        /\ (ready' = <<cfg.mode, cfg.hostId>> \/ ready' = ready) /\ config # TornConfig
    BY <1>5, SaveRemembers DEF MemoryInv
  <2>2. CASE ready' = <<cfg.mode, cfg.hostId>>
    BY <2>1, <2>2
  <2>3. CASE ready' = ready
    BY <1>0, <2>1, <2>3
  <2> QED
    BY <2>1, <2>2, <2>3
<1>6. CASE SetupFails
  <2>1. pc' = "idle" /\ config' = config /\ ready' = ready
    BY <1>6, WhatFails
  <2> QED
    BY <1>0, <2>1
<1>7. CASE (\E m \in Modes, p \in EnvPorts : EditConfig(m, p)) \/ Uninstall
  BY <1>7 DEF EditConfig, Uninstall
<1>8. CASE DeleteHost \/ UNCHANGED vars
  BY <1>0, <1>8 DEF DeleteHost
<1> QED
  BY <1>1, <1>2, <1>3, <1>4, <1>5, <1>6, <1>7, <1>8 DEF Next, SetupStep

LEMMA ReadyCredentialStep ==
  ConfigTypeOK /\ TaskInv /\ ProgressInv /\ ReadyCredential /\ [Next]_vars => ReadyCredential'
<1> SUFFICES ASSUME ConfigTypeOK, TaskInv, ProgressInv, ReadyCredential, [Next]_vars,
                    ready' # << >>, ready'[1] = "outbound"
             PROVE  /\ ready'[2] # ""
                    /\ \/ credential' \in {ready'[2], Torn}
                       \/ unsaved'
                       \/ pc' # "idle" /\ CredentialUnsaved'
  BY DEF ReadyCredential
<1> USE DEF vars, files, setupVars, histVars
<1> DEFINE Goal == /\ ready'[2] # ""
                   /\ \/ credential' \in {ready'[2], Torn}
                      \/ unsaved'
                      \/ pc' # "idle" /\ CredentialUnsaved'
<1>0. ready' = ready => /\ ready[2] # ""
                        /\ \/ credential \in {ready[2], Torn}
                           \/ unsaved
                           \/ pc # "idle" /\ CredentialUnsaved
  BY DEF ReadyCredential
<1>1. CASE \E c \in Commands, e \in Environments : SetupStart(c, e)
  <2>1. pc = "idle" /\ ready' = ready /\ credential' = credential /\ unsaved' = unsaved
    BY <1>1 DEF SetupStart
  <2> QED
    BY <1>0, <2>1
<1>2. CASE (\E p \in EnvPorts : UpdateServiceConfig(p)) \/ OtherTask \/ DownloadApiToken
           \/ CreateHost \/ DownloadTlsCert \/ WriteTlsCert
  <2>1. /\ todo # << >> /\ ready' = ready /\ credential' = credential
        /\ unsaved' = unsaved
    BY <1>2 DEF UpdateServiceConfig, OtherTask, DownloadApiToken, CreateHost, DownloadTlsCert,
                WriteTlsCert, At, TaskInv
  <2> QED
    BY <1>0, <2>1 DEF CredentialUnsaved
<1>3. CASE DownloadCredential
  <2>1. credential' = Torn /\ ready' = ready
    BY <1>3 DEF DownloadCredential
  <2> QED
    BY <1>0, <2>1
<1>4. CASE WriteCredential
  <2>1. /\ pc = "credential" /\ todo # << >> /\ Head(todo) = "credential" /\ ready' = ready
        /\ todo' = Tail(todo) /\ pc' = "task" /\ UNCHANGED <<cmd, cfg>>
    BY <1>4 DEF WriteCredential, Completed, TaskInv
  <2>2. /\ cmd \in {"all", "download_credential"} /\ Len(todo) = 1 /\ cfg.mode = "outbound"
        /\ Rest(Tail(todo), TasksOf(cmd, cfg.mode)) /\ Len(Tail(todo)) = Len(todo) - 1
    BY <2>1, TaskPlace
  <2>3. Len(Tail(todo)) = 0
    BY <2>2
  <2>4. todo' = << >>
    BY <2>1, <2>2, <2>3, LastTask
  <2> QED
    BY <1>0, <2>1, <2>2, <2>4 DEF CredentialUnsaved
<1>5. CASE SaveConfig
  <2>0. unsaved' = (unsaved /\ ~CredentialUnsaved)
    BY <1>5 DEF SaveConfig
  <2>1. /\ pc = "task" /\ todo = << >> /\ credential' = credential
        /\ \/ cmd \in {"all", "download_credential"} /\ ready' = <<cfg.mode, cfg.hostId>>
           \/ cmd \notin {"all", "download_credential"} /\ ready' = ready
    BY <1>5, SaveRemembers
  <2>2. CASE cmd \in {"all", "download_credential"} /\ ready' = <<cfg.mode, cfg.hostId>>
    <3>1. ready'[2] = cfg.hostId /\ cfg.mode = "outbound"
      BY <2>2
    <3>2. cfg.hostId # "" /\ credential = cfg.hostId
      BY <2>1, <2>2, <3>1, AllDone
    <3> QED
      BY <2>1, <3>1, <3>2
  <2>3. CASE cmd \notin {"all", "download_credential"} /\ ready' = ready
    BY <1>0, <2>0, <2>1, <2>3 DEF CredentialUnsaved
  <2> QED
    BY <2>1, <2>2, <2>3
<1>6. CASE SetupFails
  <2>1. ready' = ready /\ credential' = credential /\ unsaved' = (unsaved \/ CredentialUnsaved)
    BY <1>6, WhatFails
  <2> QED
    BY <1>0, <2>1
<1>7. CASE (\E m \in Modes, p \in EnvPorts : EditConfig(m, p)) \/ Uninstall
  BY <1>7 DEF EditConfig, Uninstall
<1>8. CASE DeleteHost \/ UNCHANGED vars
  <2>1. /\ UNCHANGED <<ready, credential, unsaved, pc, cmd, todo, cfg>>
    BY <1>8 DEF DeleteHost
  <2>2. CredentialUnsaved' = CredentialUnsaved
    BY <2>1 DEF CredentialUnsaved
  <2> QED
    BY <1>0, <2>1, <2>2
<1> QED
  BY <1>1, <1>2, <1>3, <1>4, <1>5, <1>6, <1>7, <1>8 DEF Next, SetupStep

LEMMA ReadyCertificateStep ==
  ConfigTypeOK /\ TaskInv /\ ProgressInv /\ ReadyCertificate /\ [Next]_vars => ReadyCertificate'
<1> SUFFICES ASSUME ConfigTypeOK, TaskInv, ProgressInv, ReadyCertificate, [Next]_vars,
                    ready' # << >>, ready'[1] \in {"", "http"}
             PROVE  tlsCert' \in {"written", Torn}
  BY DEF ReadyCertificate
<1> USE DEF vars, files, setupVars, histVars
<1>0. ready' = ready => tlsCert \in {"written", Torn}
  BY DEF ReadyCertificate
<1>1. CASE \E c \in Commands, e \in Environments : SetupStart(c, e)
  BY <1>0, <1>1 DEF SetupStart
<1>2. CASE (\E p \in EnvPorts : UpdateServiceConfig(p)) \/ OtherTask \/ DownloadApiToken
           \/ CreateHost \/ DownloadCredential \/ WriteCredential
  BY <1>0, <1>2 DEF UpdateServiceConfig, OtherTask, DownloadApiToken, CreateHost,
                    DownloadCredential, WriteCredential, At
<1>3. CASE DownloadTlsCert \/ WriteTlsCert
  BY <1>3 DEF DownloadTlsCert, WriteTlsCert
<1>4. CASE SaveConfig
  <2>1. /\ pc = "task" /\ todo = << >> /\ tlsCert' = tlsCert
        /\ \/ cmd \in {"all", "download_credential"} /\ ready' = <<cfg.mode, cfg.hostId>>
           \/ ready' = ready
    BY <1>4, SaveRemembers
  <2>2. CASE cmd \in {"all", "download_credential"} /\ ready' = <<cfg.mode, cfg.hostId>>
    <3>1. cfg.mode # "outbound"
      BY <2>2
    <3>2. cmd = "all"
      BY <2>1, <2>2, <3>1 DEF TaskInv
    <3> QED
      BY <2>1, <3>1, <3>2, AllDone
  <2>3. CASE ready' = ready
    BY <1>0, <2>1, <2>3
  <2> QED
    BY <2>1, <2>2, <2>3
<1>5. CASE SetupFails
  <2>1. ready' = ready /\ tlsCert' = tlsCert
    BY <1>5, WhatFails
  <2> QED
    BY <1>0, <2>1
<1>6. CASE (\E m \in Modes, p \in EnvPorts : EditConfig(m, p)) \/ Uninstall
  BY <1>6 DEF EditConfig, Uninstall
<1>7. CASE DeleteHost \/ UNCHANGED vars
  BY <1>0, <1>7 DEF DeleteHost
<1> QED
  BY <1>1, <1>2, <1>3, <1>4, <1>5, <1>6, <1>7 DEF Next, SetupStep

-----------------------------------------------------------------------------
(* The theorems.                                                            *)

\* The inductive invariant: what a setup process has in memory, what its tasks
\* have done so far, and what an earlier setup left, in any sequence of
\* commands, failures anywhere, edits and an uninstallation.
THEOREM ConfigInvariance == Spec => []ConfigInv
<1>1. Init => ConfigInv
  <2> SUFFICES ASSUME Init PROVE ConfigInv
    OBVIOUS
  <2>1. Blank \in Configurations
    BY DEF Blank, Configurations, Modes
  <2>2. ConfigTypeOK
    BY <2>1 DEF Init, ConfigTypeOK
  <2>3. TaskInv /\ MemoryInv /\ ProgressInv
    BY DEF Init, TaskInv, MemoryInv, ProgressInv
  <2>4. ReadyInv
    BY DEF Init, ReadyInv, ReadySaved, ReadyMode, ReadyCredential, ReadyCertificate
  <2>5. RegisteredPort
    BY DEF Init, RegisteredPort
  <2> QED
    BY <2>2, <2>3, <2>4, <2>5 DEF ConfigInv
<1>2. ConfigInv /\ [Next]_vars => ConfigInv'
  <2> SUFFICES ASSUME ConfigInv, [Next]_vars PROVE ConfigInv'
    OBVIOUS
  <2>1. /\ ConfigTypeOK /\ TaskInv /\ MemoryInv /\ ProgressInv /\ RegisteredPort
        /\ ReadySaved /\ ReadyMode /\ ReadyCredential /\ ReadyCertificate
    BY DEF ConfigInv, ReadyInv
  <2>2. ConfigTypeOK' /\ TaskInv' /\ MemoryInv' /\ ProgressInv' /\ RegisteredPort'
    BY <2>1, ConfigTypeStep, TaskStep, MemoryStep, ProgressStep, RegisteredStep
  <2>3. ReadySaved' /\ ReadyMode' /\ ReadyCredential' /\ ReadyCertificate'
    BY <2>1, ReadySavedStep, ReadyModeStep, ReadyCredentialStep, ReadyCertificateStep
  <2> QED
    BY <2>2, <2>3 DEF ConfigInv, ReadyInv
<1> QED
  BY <1>1, <1>2, PTL DEF Spec

\* HVS has the port of config.yml until update-service-config, `tagent setup` or
\* an edit changes it: CreateHost reads the port in memory, which is the one of
\* the file for every other command.
THEOREM RegisteredPortKept == Spec => []RegisteredPort
<1>1. ConfigInv => RegisteredPort
  BY DEF ConfigInv
<1> QED
  BY <1>1, ConfigInvariance, PTL

\* After a complete setup, whatever other commands ran, failed or were killed
\* since, the service finds a token, a valid port and a certificate, or the
\* credential of its host id, unless the host was given other values or a process
\* was stopped in one of the three places that CutShort names.
THEOREM SetUpHostsServe == Spec => []SetUpServes
<1>1. ConfigInv => SetUpServes
  <2> SUFFICES ASSUME ConfigInv, pc = "idle", ready # << >>,
                      ready[1] \in {"", "http", "outbound"}, ~Reconfigured, ~CutShort
               PROVE  CanServe
    BY DEF SetUpServes
  <2>0. /\ (config.mode = "outbound") = (ready[1] = "outbound")
        /\ config.mode = "outbound" => config.hostId = ready[2]
        /\ config.mode # "outbound" => ~(config.port < 0)
        /\ config # TornConfig
        /\ config.mode = "outbound" => credential # Torn /\ ~unsaved
        /\ config.mode # "outbound" => tlsCert # Torn
    BY DEF Reconfigured, CutShort
  <2>1. config.token /\ PortOK(config.port)
    BY <2>0 DEF ConfigInv, ReadyInv, ReadySaved
  <2>2. config.mode \in KnownModes
    BY <2>0 DEF ConfigInv, ReadyInv, ReadyMode, KnownModes
  <2>3. CASE ready[1] = "outbound"
    <3>1. config.mode = "outbound" /\ config.hostId = ready[2]
      BY <2>0, <2>3
    <3>2. ready[2] # "" /\ credential = ready[2]
      BY <2>0, <2>3, <3>1 DEF ConfigInv, ReadyInv, ReadyCredential
    <3>3. Lower(config.mode) = "outbound"
      BY <3>1 DEF Lower
    <3> QED
      BY <2>1, <3>1, <3>2, <3>3 DEF CanServe
  <2>4. CASE ready[1] # "outbound"
    <3>1. config.mode \in {"", "http"}
      BY <2>0, <2>2, <2>4 DEF KnownModes
    <3>2. Lower(config.mode) \in {"", "http"}
      BY <3>1 DEF Lower
    <3>3. tlsCert = "written"
      BY <2>0, <2>4, <3>1 DEF ConfigInv, ReadyInv, ReadyCertificate
    <3>4. config.port \in 1 .. MaxPort
      <4>1. config.port \in Int
        BY <2>0 DEF ConfigInv, ConfigTypeOK, Configurations
      <4>2. ~(config.port < 0)
        BY <2>0, <3>1
      <4> QED
        BY <2>1, <4>1, <4>2, PortRange, Zenon
    <3> QED
      BY <2>1, <3>2, <3>3, <3>4 DEF CanServe
  <2> QED
    BY <2>3, <2>4
<1> QED
  BY <1>1, ConfigInvariance, PTL

\* A setup process that saves keeps what neither its environment nor its command
\* sets: the host id, the token and the port.
THEOREM UnsetFieldsKept == Spec => UnsetKept
<1>1. ConfigInv /\ [Next]_vars =>
        [pc = "task" /\ config' \notin {config, TornConfig} =>
           /\ env.hostId = "" => config'.hostId = config.hostId
           /\ config.token => config'.token
           /\ cmd \notin {"all", "update_service_config"} => config'.port = config.port]_vars
  <2> SUFFICES ASSUME ConfigInv, [Next]_vars, pc = "task",
                      config' \notin {config, TornConfig}
               PROVE  /\ env.hostId = "" => config'.hostId = config.hostId
                      /\ config.token => config'.token
                      /\ cmd \notin {"all", "update_service_config"} =>
                           config'.port = config.port
    OBVIOUS
  <2>0. ConfigTypeOK /\ MemoryInv
    BY DEF ConfigInv
  <2>1. DownloadApiToken \/ SaveConfig
    BY WhatFails DEF Next, SetupStep, SetupStart, UpdateServiceConfig, OtherTask, DownloadCredential,
           WriteCredential, DownloadTlsCert, WriteTlsCert, CreateHost, EditConfig,
           Uninstall, DeleteHost, vars, files
  <2>2. CASE DownloadApiToken
    <3>1. config'.token /\ config'.hostId = cfg.hostId /\ config'.port = cfg.port
      BY <2>0, <2>2, TokenSet
    <3> QED
      BY <2>0, <3>1 DEF MemoryInv
  <2>3. CASE SaveConfig
    <3>1. config' = cfg
      BY <2>3, SaveRemembers
    <3> QED
      BY <2>0, <3>1 DEF MemoryInv
  <2> QED
    BY <2>1, <2>2, <2>3
<1> QED
  BY <1>1, ConfigInvariance, PTL DEF Spec, UnsetKept
=============================================================================

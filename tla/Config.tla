------------------------------- MODULE Config -------------------------------
(***************************************************************************)
(* config.yml and the files a service of its mode needs, under any         *)
(* sequence of setup commands with any environment.  Every command loads   *)
(* the environment over the file, runs its tasks and saves everything it   *)
(* has in memory, so a command changes more than its own task does.  A     *)
(* process that fails or is killed while it writes a file leaves it cut    *)
(* short.  The TPM tasks are those of Provisioning.                        *)
(***************************************************************************)
EXTENDS Integers, Sequences

CONSTANTS
  HostIds,      \* values of TA_HOST_ID
  EnvPorts,     \* values of TRUSTAGENT_PORT; 0 when it is not set
  Environments, \* TA_SERVICE_MODE, TA_HOST_ID, and whether CMS_TLS_CERT_SHA384
                \* is set to something that is not a digest
  DefaultPort,  \* constants.DefaultPort
  MaxPort       \* 65535

None == "none"
Torn == "torn"   \* the file was truncated or only one of two was written

Modes == {"", "http", "outbound", "OUTBOUND", "other"}

ASSUME ConfigAssumption ==
  /\ MaxPort \in Nat /\ DefaultPort \in 1 .. MaxPort
  /\ EnvPorts \subseteq Int
  /\ {"", None, Torn} \cap HostIds = {}
  /\ Environments \subseteq [mode : Modes, hostId : HostIds \cup {""}, badDigest : BOOLEAN]

VARIABLES
  config,      \* config.yml
  tlsCert,     \* tls-cert.pem and its key
  credential,  \* trust-agent.creds: the host id it was issued for
  hvs,         \* the port HVS reaches this host at; empty if it is not registered
  pc,          \* where the process `tagent setup` is
  cmd,         \* its command
  env,         \* its environment
  cfg,         \* the configuration in its memory
  todo,        \* its tasks that have not completed
  \* history
  ready,       \* mode and host id of the last setup that nothing has undone
  moved,       \* the saved port was changed after the host was registered
  unsaved      \* a process ended after it had replaced the credential and before
               \* it saved the host id the new one was issued for

files     == <<config, tlsCert, credential>>
setupVars == <<pc, cmd, env, cfg, todo>>
histVars  == <<ready, moved, unsaved>>
vars      == <<files, hvs, setupVars, histVars>>

-----------------------------------------------------------------------------
(* The configuration: Mode, WebService.Port, Nats.HostID, and whether it    *)
(* has an ApiToken.  A file that does not exist is blank.                   *)

Blank == [mode |-> "", port |-> 0, hostId |-> "", token |-> FALSE]

\* What Save leaves that truncated the file and did not write it: a file that
\* NewConfigFromYaml cannot decode.
TornConfig == [Blank EXCEPT !.mode = Torn]

NoEnv == [mode |-> "", hostId |-> "", badDigest |-> FALSE]

\* Mutant of LoadEnvironmentVariables: an absent TA_HOST_ID empties the field.
LoadEmptyHostId(c, e) ==
  IF e.badDigest THEN c
  ELSE IF e.mode # "outbound" THEN [c EXCEPT !.mode = "http"]
  ELSE [c EXCEPT !.mode = "outbound", !.hostId = e.hostId]

\* main only logs an error; the fields after the digest then keep their values.
\* A mode that is absent, or is neither of the two, is replaced by "http".
LoadEnvironmentVariables(c, e) ==
  IF e.badDigest THEN c
  ELSE IF e.mode # "outbound" THEN [c EXCEPT !.mode = "http"]
  ELSE [c EXCEPT !.mode = "outbound", !.hostId = IF e.hostId = "" THEN @ ELSE e.hostId]

-----------------------------------------------------------------------------
(* CreateTaskRunner.  The task "other" stands for those that change nothing *)
(* of this module: the CA certificates and what Provisioning models; the    *)
(* command download_ca_cert for every command with such tasks only.         *)

Commands == {"all", "update_service_config", "download_api_token", "download_cert",
             "update_certificates", "download_ca_cert", "download_credential", "create_host"}

\* Mutant of TasksOf: the mode is not looked at.
TasksOfHttp(c, mode) ==
  CASE c = "all"                   -> <<"serviceConfig", "other", "apiToken", "tlsCert">>
    [] c = "update_service_config" -> <<"serviceConfig">>
    [] c = "download_api_token"    -> <<"apiToken">>
    [] c = "download_cert"         -> <<"tlsCert">>
    [] c = "update_certificates"   -> <<"other", "tlsCert">>
    [] c = "download_ca_cert"      -> <<"other">>
    [] c = "download_credential"   -> <<"credential">>
    [] c = "create_host"           -> <<"createHost">>

TasksOf(c, mode) ==
  CASE c = "all"                   -> <<"serviceConfig", "other", "apiToken",
                                        IF mode = "outbound" THEN "credential" ELSE "tlsCert">>
    [] c = "update_service_config" -> <<"serviceConfig">>
    [] c = "download_api_token"    -> <<"apiToken">>
    [] c = "download_cert"         -> <<"tlsCert">>
    [] c = "update_certificates"   -> <<"other", "tlsCert">>
    [] c = "download_ca_cert"      -> <<"other">>
    [] c = "download_credential"   -> <<"credential">>
    [] c = "create_host"           -> <<"createHost">>

\* No command runs without a configuration, and download-credential is refused
\* when the mode is not "outbound".
SetupStart(c, e) ==
  /\ pc = "idle" /\ config # TornConfig
  /\ LET loaded == LoadEnvironmentVariables(config, e)
     IN /\ c = "download_credential" => loaded.mode = "outbound"
        /\ cfg' = loaded
        /\ todo' = TasksOf(c, loaded.mode)
  /\ pc' = "task" /\ cmd' = c /\ env' = e
  /\ UNCHANGED <<files, hvs, histVars>>

Exits == pc' = "idle" /\ cmd' = None /\ env' = NoEnv /\ cfg' = Blank /\ todo' = << >>

-----------------------------------------------------------------------------
(* The tasks.                                                               *)

At(t) == pc = "task" /\ todo # << >> /\ Head(todo) = t

Completed == pc' = "task" /\ todo' = Tail(todo) /\ UNCHANGED <<cmd, env>>

\* A credential was written and config.yml does not yet have its host id.
CredentialUnsaved == cmd \in {"all", "download_credential"} /\ todo = << >>
                       /\ cfg.mode = "outbound"

\* Save has the file truncated for a moment.
AtSave == At("apiToken") \/ (pc = "task" /\ todo = << >>)

\* A task returns an error, or the process is killed: nothing is saved, and what
\* is being written is cut short.
SetupFails ==
  /\ pc # "idle"
  /\ Exits
  /\ config' \in {config} \cup (IF AtSave THEN {TornConfig} ELSE {})
  /\ unsaved' = (unsaved \/ CredentialUnsaved)
  /\ UNCHANGED <<tlsCert, credential, hvs, ready, moved>>

\* Run takes the default for a port that is absent; Validate refuses others.
UpdateServiceConfig(p) ==
  /\ At("serviceConfig")
  /\ LET port == IF p = 0 THEN DefaultPort ELSE p
     IN /\ port <= MaxPort
        /\ cfg' = [cfg EXCEPT !.port = port]
  /\ Completed
  /\ UNCHANGED <<files, hvs, histVars>>

OtherTask ==
  /\ At("other")
  /\ Completed
  /\ UNCHANGED <<files, hvs, cfg, histVars>>

\* What config.yml becomes; the port counts as moved if HVS has another one.
Saves(c) ==
  /\ config' = c
  /\ moved' = (moved \/ (hvs # {} /\ cmd \in {"all", "update_service_config"}
                             /\ c.port # config.port))

\* The token is saved with all of the configuration, before the run is over.
DownloadApiToken ==
  /\ At("apiToken")
  /\ cfg' = [cfg EXCEPT !.token = TRUE]
  /\ Saves(cfg')
  /\ Completed
  /\ UNCHANGED <<tlsCert, credential, hvs, ready, unsaved>>

\* ioutil.WriteFile truncates the file ...
DownloadCredential ==
  /\ At("credential")
  /\ cfg.hostId # ""
  /\ credential' = Torn
  /\ pc' = "credential"
  /\ UNCHANGED <<config, tlsCert, hvs, cmd, env, cfg, todo, histVars>>

\* ... and writes it.
WriteCredential ==
  /\ pc = "credential"
  /\ credential' = cfg.hostId
  /\ Completed
  /\ UNCHANGED <<config, tlsCert, hvs, cfg, histVars>>

\* The key and the certificate are two files.
DownloadTlsCert ==
  /\ At("tlsCert")
  /\ tlsCert' = Torn
  /\ pc' = "tlsCert"
  /\ UNCHANGED <<config, credential, hvs, cmd, env, cfg, todo, histVars>>

WriteTlsCert ==
  /\ pc = "tlsCert"
  /\ tlsCert' = "written"
  /\ Completed
  /\ UNCHANGED <<config, credential, hvs, cfg, histVars>>

\* Mutant of CreateHost: HVS is told the default port.
CreateHostDefaultPort ==
  /\ At("createHost")
  /\ hvs = {}
  /\ hvs' = {DefaultPort}
  /\ moved' = FALSE
  /\ Completed
  /\ UNCHANGED <<files, cfg, ready, unsaved>>

\* A host that HVS knows is an error.
CreateHost ==
  /\ At("createHost")
  /\ hvs = {}
  /\ hvs' = {cfg.port}
  /\ moved' = FALSE
  /\ Completed
  /\ UNCHANGED <<files, cfg, ready, unsaved>>

\* main saves the configuration after the last task.
SaveConfig ==
  /\ pc = "task" /\ todo = << >>
  /\ Saves(cfg)
  /\ Exits
  /\ ready' = IF cmd \in {"all", "download_credential"} /\ (cmd = "all" \/ ready # << >>)
              THEN <<cfg.mode, cfg.hostId>> ELSE ready
  /\ unsaved' = (unsaved /\ ~CredentialUnsaved)
  /\ UNCHANGED <<tlsCert, credential, hvs>>

-----------------------------------------------------------------------------
(* What else happens to the files.                                          *)

\* The administrator edits config.yml (stories 10 and 16), or writes a new one
\* where Save left none.
EditConfig(mode, port) ==
  /\ pc = "idle"
  /\ config' = [IF config = TornConfig THEN Blank ELSE config
                   EXCEPT !.mode = mode, !.port = port]
  /\ moved' = (moved \/ port # config.port \/ config = TornConfig)
  /\ ready' = << >>
  /\ UNCHANGED <<tlsCert, credential, hvs, unsaved, setupVars>>

Uninstall ==
  /\ pc = "idle" /\ config # TornConfig
  /\ config' = Blank /\ tlsCert' = None /\ credential' = None
  /\ ready' = << >> /\ moved' = TRUE /\ unsaved' = FALSE
  /\ UNCHANGED <<hvs, setupVars>>

\* The host is deleted in HVS.
DeleteHost ==
  /\ hvs # {}
  /\ hvs' = {}
  /\ UNCHANGED <<files, setupVars, histVars>>

Init ==
  /\ config = Blank /\ tlsCert = None /\ credential = None
  /\ hvs = {}
  /\ pc = "idle" /\ cmd = None /\ env = NoEnv /\ cfg = Blank /\ todo = << >>
  /\ ready = << >> /\ moved = FALSE /\ unsaved = FALSE

SetupStep ==
  \/ \E p \in EnvPorts : UpdateServiceConfig(p)
  \/ OtherTask \/ DownloadApiToken
  \/ DownloadCredential \/ WriteCredential \/ DownloadTlsCert \/ WriteTlsCert
  \/ CreateHost \/ SaveConfig

Next ==
  \/ \E c \in Commands, e \in Environments : SetupStart(c, e)
  \/ SetupStep \/ SetupFails
  \/ \E m \in Modes, p \in EnvPorts : EditConfig(m, p)
  \/ Uninstall \/ DeleteHost

Spec == Init /\ [][Next]_vars

\* A setup process that can go on does; tasks do not fail for ever.
FairSpec == Spec /\ WF_vars(SetupStep)

-----------------------------------------------------------------------------
(* Properties.                                                              *)

\* strings.ToLower
Lower(mode) == IF mode = "OUTBOUND" THEN "outbound" ELSE mode

\* NewTrustAgentService with this configuration, and Start with these files,
\* can succeed, and the service can send its report request.
CanServe ==
  /\ config.token
  /\ \/ /\ Lower(config.mode) = "outbound"
        /\ config.hostId # "" /\ credential = config.hostId
     \/ /\ Lower(config.mode) \in {"", "http"}
        /\ config.port \in 1 .. MaxPort /\ tlsCert = "written"

\* A later command or edit, also one that failed after download-api-token had
\* saved it, gave the host another mode or host id, or a negative port, which
\* Validate lets pass.
Reconfigured ==
  \/ (config.mode = "outbound") # (ready[1] = "outbound")
  \/ config.mode = "outbound" /\ config.hostId # ready[2]
  \/ config.mode # "outbound" /\ config.port < 0

\* A process was stopped while Save had config.yml truncated, while the
\* credential or one of the two TLS files was being replaced, or between the new
\* credential and the save of its host id.
CutShort ==
  \/ config = TornConfig
  \/ config.mode = "outbound" /\ (credential = Torn \/ unsaved)
  \/ config.mode # "outbound" /\ tlsCert = Torn

\* Once `tagent setup` has exited with status 0 in a mode it knows, and whatever
\* setup commands ran, failed or were killed since, a service that starts has all
\* it needs: a port to listen on and a certificate, or a credential of its host
\* id.  The only exceptions are a host that was given other values and a process
\* that was cut short in one of three places (config.go:107, the files of
\* download-credential and download-cert, and between the credential and Save).
SetUpServes ==
  pc = "idle" /\ ready # << >> /\ ready[1] \in {"", "http", "outbound"}
  => CanServe \/ Reconfigured \/ CutShort

\* HVS reaches the agent at the port it was registered with until the port is
\* set again or the file is lost: only update-service-config and `tagent setup`
\* change it, although every command writes it.
RegisteredPort == hvs # {} /\ ~moved /\ config # TornConfig => hvs = {config.port}

\* A setup process saves: what its environment does not set keeps its value, but
\* for the mode, and for the port in the two commands that set it.
UnsetKept ==
  [][pc = "task" /\ config' \notin {config, TornConfig} =>
       /\ env.hostId = "" => config'.hostId = config.hostId
       /\ config.token => config'.token
       /\ cmd \notin {"all", "update_service_config"} => config'.port = config.port]_vars

\* SETUP_USER_STORIES.md, stories 14 and 15: on an agent that was set up,
\* download-ca-cert and download-cert update the certificates and "keep
\* everything else the same".  (A process killed in Save is not meant.)
KeepEverythingElse ==
  [][/\ ready # << >>
     /\ pc = "task" /\ cmd \in {"download_ca_cert", "download_cert", "update_certificates"}
     /\ env = NoEnv /\ config.mode \in {"http", "outbound"}
     => config' \in {config, TornConfig}]_vars
=============================================================================

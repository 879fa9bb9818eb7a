---------------------------- MODULE Provisioning ----------------------------
(***************************************************************************)
(* `tagent setup`: the command that provisions the TPM, aik.pem and        *)
(* config.yml of a host.  The module models the three places that survive  *)
(* a process (the TPM, the configuration directory and nothing else), the  *)
(* setup process as one action per TPM command, handshake round or file    *)
(* operation, and what may happen between any two of those actions: the    *)
(* process is killed or an external call fails, the TPM is cleared, the    *)
(* agent is uninstalled, or a running agent service writes the asset tag.  *)
(*                                                                         *)
(* What the TPM does is modelled from how tasks/ and common/ use it.  In   *)
(* particular an NV index that was defined and never written cannot be     *)
(* read (define_tag_index.go writes zeros for that reason).                *)
(***************************************************************************)
EXTENDS Naturals

CONSTANTS
  Secrets,       \* tag secrets crypt.GetHexRandomString can return
  OwnerSecrets,  \* values of TPM_OWNER_SECRET that differ from ""
  Keys,          \* attestation identity keys the TPM can create
  Tags,          \* asset tags that HVS can deploy (never all zeros)
  Invoked        \* the setup commands the administrator runs

EmptyAuth   == "empty-auth"      \* the owner password of a cleared TPM
NoSecret    == "no-secret"       \* Tpm.TagSecretKey = ""
Missing     == "missing"         \* the file does not exist
Torn        == "torn"            \* the file was truncated and not yet written
NoKey       == "no-key"
Zeros       == "zeros"           \* 48 zero bytes: an index without a tag
Unwritten   == "unwritten"       \* NvDefine without NvWrite
OddLength   == "odd-length"      \* an index whose size is not TagIndexSize
LegacyAuth  == "legacy-auth"     \* password of an index this agent did not define
Absent      == [auth |-> NoSecret, data |-> Unwritten]

ASSUME ConstantsAssumption ==
  /\ {NoSecret, Missing, Torn, LegacyAuth} \cap Secrets = {}
  /\ EmptyAuth \notin OwnerSecrets
  /\ {NoKey, Missing, Torn} \cap Keys = {}
  /\ {Zeros, Unwritten, OddLength} \cap Tags = {}

VARIABLES
  \* the TPM
  owner,        \* owner authorization
  nv,           \* NV_IDX_ASSET_TAG: its password and its content
  aik,          \* the attestation identity key the TPM quotes with
  primary,      \* TPM_HANDLE_PRIMARY is persisted
  \* /opt/trustagent/configuration
  config,       \* config.yml, seen through Tpm.TagSecretKey
  aikPem,       \* aik.pem: the key it certifies
  privacyCa,    \* privacy-ca.cer can be parsed
  \* the process `tagent setup`
  pc,           \* where it is
  cmd,          \* the setup command
  todo,         \* setup.Runner's tasks that have not completed
  ownerSecret,  \* TPM_OWNER_SECRET
  tagSecret,    \* cfg.Tpm.TagSecretKey in memory
  newAssetTag,  \* the tag DefineTagIndex carries forward
  aikCert,      \* the key certified by HVS in this run
  exit,         \* how the last setup process ended
  \* history
  provisioned,  \* a full provisioning succeeded and nothing has undone it since
  acked,        \* the last asset tag whose deployment was acknowledged
  disturbed     \* that tag met an abort or a write inside define-tag-index

tpmVars   == <<owner, nv, aik, primary>>
diskVars  == <<config, aikPem, privacyCa>>
memVars   == <<tagSecret, newAssetTag, aikCert>>
setupVars == <<pc, cmd, todo, ownerSecret, exit>>
histVars  == <<provisioned, acked, disturbed>>
vars      == <<tpmVars, diskVars, memVars, setupVars, histVars>>

-----------------------------------------------------------------------------
(* The tasks of each command.  Every list that CreateTaskRunner appends is  *)
(* in the order of Rank, so a command is the set of its tasks.  The tasks   *)
(* that touch neither the TPM nor the tag secret are kept as                *)
(* "serviceConfig" (update-service-config), "rootCa", "serviceCert" (the    *)
(* TLS certificate or the NATS credential) and "register" (the host, its    *)
(* unique flavor or its manifests).                                         *)

Rank == [serviceConfig |-> 1, rootCa |-> 2, privacyCa |-> 3,
         takeOwnership |-> 4, defineTagIndex |-> 5, provisionAik |-> 6,
         primaryKey |-> 7, apiToken |-> 8, serviceCert |-> 9, register |-> 10]

Tasks == DOMAIN Rank

AttestationTasks ==
  {"privacyCa", "takeOwnership", "defineTagIndex", "provisionAik", "primaryKey"}

TasksOf ==
  [all                       |-> Tasks \ {"register"},
   provision_attestation     |-> AttestationTasks,
   take_ownership            |-> {"takeOwnership"},
   define_tag_index          |-> {"defineTagIndex"},
   provision_aik             |-> {"provisionAik"},
   provision_primary_key     |-> {"primaryKey"},
   download_privacy_ca       |-> {"privacyCa"},
   download_api_token        |-> {"apiToken"},
   update_certificates       |-> {"rootCa", "serviceCert"},
   download_ca_cert          |-> {"rootCa"},
   download_cert             |-> {"serviceCert"},
   download_credential       |-> {"serviceCert"},
   update_service_config     |-> {"serviceConfig"},
   create_host               |-> {"register"},
   create_host_unique_flavor |-> {"register"},
   get_configured_manifest   |-> {"register"}]

Commands == DOMAIN TasksOf

ASSUME InvokedAssumption == Invoked \subseteq Commands

\* The commands that leave the host in the state "Provisioned".
FullCommands == {"all", "provision_attestation"}

\* The process is about to call Run of task t.
At(t) == /\ pc = "task"
         /\ t \in todo
         /\ \A u \in todo : Rank[t] <= Rank[u]

\* Run and Validate of task t returned nil: the runner goes on.
Completed(t) == pc' = "task" /\ todo' = todo \ {t}

\* IsOwnedWithAuth(TPM_OWNER_SECRET)
Owned == owner = ownerSecret

-----------------------------------------------------------------------------
(* main: the process starts, ends well, or ends badly.                      *)

\* NewConfigFromYaml refuses a torn file before any command is looked at; a
\* missing file is a blank configuration.
SetupStart(c, o) ==
  /\ pc = "idle"
  /\ config # Torn
  /\ pc' = "task" /\ cmd' = c /\ todo' = TasksOf[c] /\ ownerSecret' = o
  /\ exit' = "none"
  /\ tagSecret' = IF config = Missing THEN NoSecret ELSE config
  /\ newAssetTag' = Zeros /\ aikCert' = NoKey
  /\ UNCHANGED <<tpmVars, diskVars, histVars>>

\* The in-memory configuration and the runner vanish with the process.
Exits(status) ==
  /\ pc' = "idle" /\ exit' = status /\ cmd' = "none" /\ ownerSecret' = EmptyAuth
  /\ tagSecret' = NoSecret /\ newAssetTag' = Zeros /\ aikCert' = NoKey
  /\ todo' = {}

\* Mutant of ReturnError: main reports the error and goes on to cfg.Save().
ErrorIsSaved ==
  /\ pc' = "task" /\ todo' = {}
  /\ UNCHANGED <<tpmVars, diskVars, memVars, cmd, ownerSecret, exit, histVars>>

\* A task returned an error: os.Exit(1) without cfg.Save().
ReturnError ==
  /\ Exits("error")
  /\ provisioned' = FALSE
  /\ UNCHANGED <<tpmVars, diskVars, acked, disturbed>>

\* An external call or a file operation fails, or the process is killed, at
\* any point.  A torn privacy-ca.cer cannot be parsed.
SetupAbort ==
  /\ pc # "idle"
  /\ Exits("aborted")
  /\ privacyCa' \in (IF At("privacyCa") THEN {privacyCa, FALSE} ELSE {privacyCa})
  /\ disturbed' = (disturbed \/ pc \in {"dtDefine", "dtWrite"})
  /\ provisioned' = FALSE
  /\ UNCHANGED <<tpmVars, config, aikPem, acked>>

\* cfg.Save(): the file is opened with O_TRUNC ...
SaveTruncate ==
  /\ pc = "task"
  /\ todo = {} \/ At("apiToken")
  /\ config' = Torn
  /\ pc' = "saveWrite"
  /\ UNCHANGED <<tpmVars, aikPem, privacyCa, memVars, cmd, todo, ownerSecret, exit, histVars>>

\* ... and then written.  DownloadApiToken saves in the middle of the run;
\* main saves after the last task, and the command is done.
SaveWrite ==
  /\ pc = "saveWrite"
  /\ config' = tagSecret
  /\ \/ /\ todo # {}
        /\ Completed("apiToken")
        /\ UNCHANGED <<cmd, ownerSecret, exit, memVars, provisioned>>
     \/ /\ todo = {}
        /\ Exits("ok")
        /\ provisioned' = (provisioned \/ cmd \in FullCommands)
  /\ UNCHANGED <<tpmVars, aikPem, privacyCa, acked, disturbed>>

-----------------------------------------------------------------------------
(* The tasks.                                                               *)

PassiveTask ==
  /\ \E t \in {"serviceConfig", "rootCa", "serviceCert", "register"} : At(t) /\ Completed(t)
  /\ UNCHANGED <<tpmVars, diskVars, memVars, cmd, ownerSecret, exit, histVars>>

DownloadPrivacyCa ==
  /\ At("privacyCa")
  /\ privacyCa' = TRUE
  /\ Completed("privacyCa")
  /\ UNCHANGED <<tpmVars, config, aikPem, memVars, cmd, ownerSecret, exit, histVars>>

\* Mutant of TakeOwnership: a clear TPM is not taken over.
TakeOwnershipOwnedOnly ==
  /\ At("takeOwnership")
  /\ \/ /\ Owned
        /\ Completed("takeOwnership")
        /\ UNCHANGED <<tpmVars, diskVars, memVars, cmd, ownerSecret, exit, histVars>>
     \/ ~Owned /\ ReturnError

TakeOwnership ==
  /\ At("takeOwnership")
  /\ \/ /\ Owned \/ owner = EmptyAuth
        /\ owner' = ownerSecret
        /\ Completed("takeOwnership")
        /\ UNCHANGED <<nv, aik, primary, diskVars, memVars, cmd, ownerSecret, exit, histVars>>
     \/ /\ ~Owned /\ owner # EmptyAuth
        /\ ReturnError

\* Mutant of DefineTagIndexBegin: a new secret in every run.
DefineTagIndexFreshSecret ==
  /\ At("defineTagIndex")
  /\ cmd # "define_tag_index"
  /\ Owned
  /\ tagSecret' \in Secrets
  /\ newAssetTag' = Zeros
  /\ pc' = IF nv = Absent THEN "dtDefine" ELSE "dtRead"
  /\ UNCHANGED <<tpmVars, diskVars, aikCert, cmd, todo, ownerSecret, exit, histVars>>

\* Mutant of DefineTagIndexBegin: an existing index is released unread.
DefineTagIndexUnread ==
  /\ At("defineTagIndex")
  /\ cmd # "define_tag_index"
  /\ Owned
  /\ tagSecret' \in (IF tagSecret = NoSecret THEN Secrets ELSE {tagSecret})
  /\ newAssetTag' = Zeros
  /\ pc' = IF nv = Absent THEN "dtDefine" ELSE "dtRelease"
  /\ UNCHANGED <<tpmVars, diskVars, aikCert, cmd, todo, ownerSecret, exit, histVars>>

\* DefineTagIndex.Run up to the branch on nvExists.
DefineTagIndexBegin ==
  /\ At("defineTagIndex")
  /\ cmd # "define_tag_index"
  /\ \/ /\ Owned
        /\ tagSecret' \in (IF tagSecret = NoSecret THEN Secrets ELSE {tagSecret})
        /\ newAssetTag' = Zeros
        /\ pc' = IF nv = Absent THEN "dtDefine" ELSE "dtRead"
        /\ UNCHANGED <<tpmVars, diskVars, aikCert, cmd, todo, ownerSecret, exit, histVars>>
     \/ ~Owned /\ ReturnError

\* CreateTaskRunner makes no TPM factory for `tagent setup define-tag-index`:
\* Run calls a method of a nil interface, main recovers from the panic, and
\* the process ends with status 0 without having saved anything.
DefineTagIndexPanic ==
  /\ At("defineTagIndex")
  /\ cmd = "define_tag_index"
  /\ Exits("ok")
  /\ UNCHANGED <<tpmVars, diskVars, histVars>>

\* Mutant of NvReadExisting: len(existingTag) is not compared with TagIndexSize.
NvReadAnyLength ==
  /\ pc = "dtRead"
  /\ newAssetTag' = nv.data
  /\ pc' = "dtRelease"
  /\ UNCHANGED <<tpmVars, diskVars, tagSecret, aikCert, cmd, todo, ownerSecret, exit, histVars>>

\* The existing tag is read with the owner's authorization.
NvReadExisting ==
  /\ pc = "dtRead"
  /\ \/ /\ nv.data # Unwritten
        /\ newAssetTag' = IF nv.data = OddLength THEN Zeros ELSE nv.data
        /\ pc' = "dtRelease"
        /\ UNCHANGED <<tpmVars, diskVars, tagSecret, aikCert, cmd, todo, ownerSecret, exit, histVars>>
     \/ nv.data = Unwritten /\ ReturnError

NvRelease ==
  /\ pc = "dtRelease"
  /\ nv' = Absent
  /\ pc' = "dtDefine"
  /\ UNCHANGED <<owner, aik, primary, diskVars, memVars, cmd, todo, ownerSecret, exit, histVars>>

NvDefine ==
  /\ pc = "dtDefine"
  /\ nv' = [auth |-> tagSecret, data |-> Unwritten]
  /\ pc' = "dtWrite"
  /\ UNCHANGED <<owner, aik, primary, diskVars, memVars, cmd, todo, ownerSecret, exit, histVars>>

\* NvWrite of the carried tag; Validate then finds the index.
NvWriteTag ==
  /\ pc = "dtWrite"
  /\ nv' = [auth |-> nv.auth, data |-> newAssetTag]
  /\ Completed("defineTagIndex")
  /\ UNCHANGED <<owner, aik, primary, diskVars, memVars, cmd, ownerSecret, exit, histVars>>

\* ProvisionAttestationIdentityKey: the EK certificate and createAik need the
\* owner's authorization; CreateAik replaces the key in the TPM.
CreateAik ==
  /\ At("provisionAik")
  /\ \/ /\ Owned
        /\ aik' \in Keys
        /\ pc' = "aikRequest"
        /\ UNCHANGED <<owner, nv, primary, diskVars, memVars, cmd, todo, ownerSecret, exit, histVars>>
     \/ ~Owned /\ ReturnError

\* First round with HVS, after GetPrivacyCA.
IdentityProofRequest ==
  /\ pc = "aikRequest"
  /\ \/ /\ privacyCa
        /\ pc' = "aikResponse"
        /\ UNCHANGED <<tpmVars, diskVars, memVars, cmd, todo, ownerSecret, exit, histVars>>
     \/ ~privacyCa /\ ReturnError

\* Second round: HVS certifies the key that the TPM activated.
IdentityProofResponse ==
  /\ pc = "aikResponse"
  /\ aikCert' = aik
  /\ pc' = "aikOpen"
  /\ UNCHANGED <<tpmVars, diskVars, tagSecret, newAssetTag, cmd, todo, ownerSecret, exit, histVars>>

AikFileTruncate ==
  /\ pc = "aikOpen"
  /\ aikPem' = Torn
  /\ pc' = "aikWrite"
  /\ UNCHANGED <<tpmVars, config, privacyCa, memVars, cmd, todo, ownerSecret, exit, histVars>>

AikFileWrite ==
  /\ pc = "aikWrite"
  /\ aikPem' = aikCert
  /\ Completed("provisionAik")
  /\ UNCHANGED <<tpmVars, config, privacyCa, memVars, cmd, ownerSecret, exit, histVars>>

ProvisionPrimaryKey ==
  /\ At("primaryKey")
  /\ \/ /\ primary \/ Owned
        /\ primary' = TRUE
        /\ Completed("primaryKey")
        /\ UNCHANGED <<owner, nv, aik, diskVars, memVars, cmd, ownerSecret, exit, histVars>>
     \/ ~primary /\ ~Owned /\ ReturnError

-----------------------------------------------------------------------------
(* The environment of the setup process.                                    *)

\* Mutant of DeployTag: the error of NvWrite is not returned.
DeployTagUnwritten(s, t) ==
  /\ s \in Secrets /\ nv.auth = s
  /\ acked' = t
  /\ disturbed' = (pc \in {"dtRelease", "dtWrite"})
  /\ UNCHANGED <<tpmVars, diskVars, memVars, setupVars, provisioned>>

\* A running service writes a tag with the password s it was started with
\* (DeployAssetTag).  Here s is any secret that opens the index; Attestation
\* restricts it to the one a service process has loaded.
DeployTag(s, t) ==
  /\ s \in Secrets /\ nv.auth = s
  /\ nv' = [auth |-> nv.auth, data |-> t]
  /\ acked' = t
  /\ disturbed' = (pc \in {"dtRelease", "dtWrite"})
  /\ UNCHANGED <<owner, aik, primary, diskVars, memVars, setupVars, provisioned>>

\* The administrator clears the TPM in the BIOS: the host reboots, and the
\* objects and NV indices of the owner hierarchy are gone.
ClearTpm ==
  /\ owner' = EmptyAuth /\ nv' = Absent /\ aik' = NoKey /\ primary' = FALSE
  /\ \/ pc = "idle" /\ UNCHANGED <<memVars, setupVars>>
     \/ pc # "idle" /\ Exits("aborted")
  /\ provisioned' = FALSE /\ acked' = Zeros /\ disturbed' = FALSE
  /\ UNCHANGED diskVars

\* `tagent uninstall` removes the directory and leaves the TPM alone.  Like
\* every command it needs a config.yml that can be parsed.
Uninstall ==
  /\ pc = "idle"
  /\ config # Torn
  /\ config' = Missing /\ aikPem' = Missing /\ privacyCa' = FALSE
  /\ provisioned' = FALSE
  /\ UNCHANGED <<tpmVars, memVars, setupVars, acked, disturbed>>

-----------------------------------------------------------------------------
(* A host on which this agent was never set up: the TPM is clear or owned,  *)
(* and may hold a tag index left by another installation.                   *)

Init ==
  /\ owner \in OwnerSecrets \cup {EmptyAuth}
  /\ nv \in {Absent} \cup [auth : {LegacyAuth}, data : Tags \cup {Zeros, OddLength}]
  /\ aik = NoKey /\ primary = FALSE
  /\ config = Missing /\ aikPem = Missing /\ privacyCa = FALSE
  /\ pc = "idle" /\ cmd = "none" /\ todo = {} /\ ownerSecret = EmptyAuth
  /\ exit = "none"
  /\ tagSecret = NoSecret /\ newAssetTag = Zeros /\ aikCert = NoKey
  /\ provisioned = FALSE
  /\ acked = IF nv.data \in Tags THEN nv.data ELSE Zeros
  /\ disturbed = FALSE

SetupStep ==
  \/ SaveTruncate \/ SaveWrite
  \/ PassiveTask \/ DownloadPrivacyCa \/ TakeOwnership
  \/ DefineTagIndexBegin \/ DefineTagIndexPanic
  \/ NvReadExisting \/ NvRelease \/ NvDefine \/ NvWriteTag
  \/ CreateAik \/ IdentityProofRequest \/ IdentityProofResponse
  \/ AikFileTruncate \/ AikFileWrite
  \/ ProvisionPrimaryKey

\* `tagent setup` runs, goes on, or fails.
SetupNext ==
  \/ \E c \in Invoked, o \in OwnerSecrets \cup {EmptyAuth} : SetupStart(c, o)
  \/ SetupStep
  \/ SetupAbort

Next ==
  \/ SetupNext
  \/ \E s \in Secrets, t \in Tags : DeployTag(s, t)
  \/ ClearTpm
  \/ Uninstall

Spec == Init /\ [][Next]_vars

\* The administrator keeps running `tagent setup` with an owner secret that
\* the TPM accepts, and a setup process that can go on does.
SetupAll == \E o \in OwnerSecrets \cup {EmptyAuth} :
              owner \in {o, EmptyAuth} /\ SetupStart("all", o)

FairSpec == Spec /\ WF_vars(SetupStep) /\ SF_vars(SetupAll)

-----------------------------------------------------------------------------
(* Properties.                                                              *)

Locations == {"idle", "task", "saveWrite", "dtRead", "dtRelease", "dtDefine", "dtWrite",
              "aikRequest", "aikResponse", "aikOpen", "aikWrite"}

TpmTypeOK ==
  /\ owner \in OwnerSecrets \cup {EmptyAuth}
  /\ nv \in [auth : Secrets \cup {NoSecret, LegacyAuth},
             data : Tags \cup {Zeros, Unwritten, OddLength}]
  /\ aik \in Keys \cup {NoKey}
  /\ primary \in BOOLEAN

DiskTypeOK ==
  /\ config \in Secrets \cup {NoSecret, Missing, Torn}
  /\ aikPem \in Keys \cup {NoKey, Missing, Torn}
  /\ privacyCa \in BOOLEAN

SetupTypeOK ==
  /\ pc \in Locations
  /\ cmd \in Commands \cup {"none"}
  /\ todo \in SUBSET Tasks
  /\ ownerSecret \in OwnerSecrets \cup {EmptyAuth}
  /\ exit \in {"none", "ok", "error", "aborted"}
  /\ tagSecret \in Secrets \cup {NoSecret}
  /\ newAssetTag \in Tags \cup {Zeros}
  /\ aikCert \in Keys \cup {NoKey}

HistoryTypeOK ==
  /\ provisioned \in BOOLEAN
  /\ acked \in Tags \cup {Zeros}
  /\ disturbed \in BOOLEAN

\* The variables have the types their declarations say.
TypeOK == TpmTypeOK /\ DiskTypeOK /\ SetupTypeOK /\ HistoryTypeOK

\* A tag secret that reached config.yml always opens the tag index, whatever
\* setup commands ran since and wherever they were killed: the service that
\* reads this file can read and write the asset tag (define_tag_index.go
\* reuses a saved secret; main saves only after NvDefine).
SecretAgreement ==
  config \in Secrets /\ nv # Absent => nv.auth = config

\* An acknowledged asset tag is still in the TPM after any number of setup
\* runs, uninstallations and failures, unless a failure or another write hit
\* define-tag-index between reading the old index and writing the new one.
TagKept ==
  /\ ~disturbed
  /\ pc \notin {"dtDefine", "dtWrite"}
  /\ acked # Zeros
  => nv.data = acked

\* The tag is where it is read next: in the process while the index is released
\* and not written, in the TPM otherwise.
HostTag ==
  IF pc \in {"dtDefine", "dtWrite"} THEN newAssetTag
  ELSE IF nv.data \in Tags THEN nv.data ELSE Zeros

TagPromise == INSTANCE AssetTag WITH
  NoTag <- Zeros,
  tag <- HostTag,
  replacing <- pc \in {"dtRelease", "dtDefine", "dtWrite"},
  inDoubt <- disturbed

\* Setup, whatever it is asked to do and wherever it fails, implements AssetTag:
\* the tag changes by a deployment, by clearing the TPM or in doubt, and no tag
\* appears that was never deployed (define_tag_index.go carries the old tag).
ImplementsAssetTag == TagPromise!Spec

\* Once `tagent setup` or `tagent setup provision-attestation` has exited with
\* status 0, and until a later setup fails, the TPM is cleared or the agent is
\* uninstalled, the host can produce quotes HVS accepts: the saved secret
\* opens a written index and aik.pem certifies the key in the TPM.
ProvisionedWorks ==
  provisioned /\ pc = "idle" =>
    /\ config \in Secrets /\ nv.auth = config
    /\ nv.data \in Tags \cup {Zeros}
    /\ aik \in Keys /\ aikPem = aik
    /\ primary

\* An empty config.yml, which every command refuses, or an index that was defined
\* and not written, which define-tag-index cannot read.  Every run passes through
\* both; a host that stays in one of them is wedged for good.
Wedged == config = Torn \/ (nv # Absent /\ nv.data = Unwritten)

\* When setup processes are eventually no longer killed, running `tagent
\* setup` again and again provisions the host, again after whatever undoes it,
\* or an earlier failure left the host wedged and no run gets it out of there.
RetryProvisionsUnlessWedged ==
  <>[](exit # "aborted") => []<>provisioned \/ <>[]Wedged
=============================================================================

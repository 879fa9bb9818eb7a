--------------------------- MODULE MeasuredLaunch ---------------------------
(***************************************************************************)
(* Application integrity, from a manifest to the evidence in a quote: the  *)
(* agent stores manifests, `measure_host` measures them in the initrd of   *)
(* the next boot, extends PCR 15 and writes the application event log,     *)
(* `tagent init` copies the log to measure-log.json, and a quote carries   *)
(* that file, the measurements and the PCR.                                *)
(*                                                                         *)
(* A digest is the thing it is computed from: a measurement is the         *)
(* manifest that was measured, and a PCR the sequence of its extensions.   *)
(***************************************************************************)
EXTENDS Naturals, Sequences

CONSTANTS
  NumUuids,     \* bound: uuids of manifests; `ls` lists them in this order
  Measurable,   \* manifests that wml can measure
  Unsupported,  \* a manifest whose DigestAlg is not SHA384
  Requests,     \* bound: deploy-manifest requests at once
  Setup,        \* the process of `tagent setup get-configured-manifest`
  Faults,       \* what the environment may do wrong in the initrd
  Absent,       \* no such file
  Empty,        \* a file that was truncated and not written yet
  Garbled,      \* a file that two processes wrote at once
  Failed,       \* a measurement file that holds the error message of measure
  Idle          \* a writer without a file

AllFaults == {"root", "partition", "measure", "version", "device", "extend"}

ASSUME LaunchAssumption ==
  /\ NumUuids \in Nat
  /\ Faults \subseteq AllFaults
  /\ Setup \notin Requests
  /\ {Absent, Empty, Garbled, Failed, Idle, Unsupported} \cap Measurable = {}

Uuids == 1 .. NumUuids
Manifests == Measurable \cup {Unsupported}
Writers == Requests \cup {Setup}

VARIABLES
  manifests,    \* /opt/trustagent/var/manifest_{uuid}.xml
  ramfs,        \* .../ramfs/measurement_{uuid}.xml
  eventLog,     \* .../ramfs/pcr_event_log; the file is there once it has an event
  measureLog,   \* measure-log.json: its application events, or truncated
  pcr15,
  phase,        \* where measure_host is; "up" after it
  next,         \* the uuid its loop is at
  writer,       \* the manifest file each writer has truncated
  writing,      \* `tagent init` has truncated measure-log.json
  collected,    \* and is about to write these events
  \* History, of this boot:
  launch,       \* "none", "begun" once old results are removed, "complete"
  refused,      \* the TPM did not perform an extend
  inited,       \* `tagent init` has written measure-log.json
  atBoot        \* the manifests at boot

hostFiles == <<manifests, ramfs, eventLog, measureLog>>
bootVars == <<pcr15, phase, next>>
userVars == <<writer, writing, collected>>
histVars == <<launch, refused, inited, atBoot>>
vars == <<hostFiles, bootVars, userVars, histVars>>

\* The measurement of u, in the event log, in a PCR or in a quote.
Measured(u) == [uuid |-> u, of |-> ramfs[u]]

-----------------------------------------------------------------------------
(* The initrd.                                                              *)

\* Power on, from wherever the host was: the PCR is reset, processes are gone.
Boot ==
  /\ phase' = "load"
  /\ pcr15' = <<>>
  /\ next' = 1
  /\ writer' = [w \in Writers |-> Idle]
  /\ writing' = FALSE
  /\ collected' = <<>>
  /\ launch' = "none"
  /\ refused' = FALSE
  /\ inited' = FALSE
  /\ atBoot' = manifests
  /\ UNCHANGED hostFiles

\* measure_host ends, and the boot goes on.
Leave == phase' = "up" /\ next' = 1

\* The root file system or tbootxm.conf is not there.
LoadConfigurationFails ==
  /\ phase = "load"
  /\ "root" \in Faults
  /\ Leave
  /\ UNCHANGED <<hostFiles, pcr15, userVars, histVars>>

\* mount_partitions does not look at the result; without its partition the
\* manifest path is not found.
ManifestPathMissing ==
  /\ phase = "load"
  /\ "partition" \in Faults
  /\ Leave
  /\ UNCHANGED <<hostFiles, pcr15, userVars, histVars>>

\* Mutant of ManifestVerifyBegin: the results of the last boot are not removed.
VerifyKeepsResults ==
  /\ phase = "load"
  /\ phase' = "verify"
  /\ launch' = "begun"
  /\ UNCHANGED <<hostFiles, pcr15, next, userVars, refused, inited, atBoot>>

\* rm -rf ramfs/*
ManifestVerifyBegin ==
  /\ phase = "load"
  /\ phase' = "verify"
  /\ ramfs' = [u \in Uuids |-> Absent]
  /\ eventLog' = <<>>
  /\ launch' = "begun"
  /\ UNCHANGED <<manifests, measureLog, pcr15, next, userVars, refused, inited, atBoot>>

\* The shell has created the measurement file before measure starts.
MeasureFails ==
  /\ ramfs' = [ramfs EXCEPT ![next] = Failed]
  /\ Leave

\* Mutant of MeasureManifest: a failure is logged and the loop goes on.
MeasureManifestGoOn ==
  /\ phase = "verify"
  /\ next \in Uuids
  /\ \/ manifests[next] = Absent /\ UNCHANGED ramfs
     \/ /\ manifests[next] \in Measurable
        /\ ramfs' = [ramfs EXCEPT ![next] = manifests[next]]
     \/ manifests[next] \notin Measurable \cup {Absent} /\ UNCHANGED ramfs
  /\ next' = next + 1
  /\ UNCHANGED <<manifests, eventLog, measureLog, pcr15, phase, userVars, histVars>>

\* One round of the loop over manifest_*.xml.
MeasureManifest ==
  /\ phase = "verify"
  /\ next \in Uuids
  /\ \/ /\ manifests[next] = Absent
        /\ next' = next + 1
        /\ UNCHANGED <<ramfs, phase>>
     \/ /\ manifests[next] \in Measurable
        /\ ramfs' = [ramfs EXCEPT ![next] = manifests[next]]
        /\ next' = next + 1
        /\ UNCHANGED phase
     \/ /\ \/ manifests[next] \notin Measurable \cup {Absent}
           \/ manifests[next] \in Measurable /\ "measure" \in Faults
        /\ MeasureFails
  /\ UNCHANGED <<manifests, eventLog, measureLog, pcr15, userVars, histVars>>

\* The version of the TPM is read from a file that setup wrote.
TpmExtendBegin ==
  /\ phase = "verify"
  /\ next \notin Uuids
  /\ \/ phase' = "extend" /\ next' = 1
     \/ "version" \in Faults /\ Leave
  /\ UNCHANGED <<hostFiles, pcr15, userVars, histVars>>

\* /bin/tpmextend 15: without the device it fails, but when the TPM does not
\* perform the command it succeeds.
TpmExtend ==
  /\ phase = "extend"
  /\ next \in Uuids
  /\ ramfs[next] # Absent
  /\ \/ /\ pcr15' = Append(pcr15, Measured(next))
        /\ phase' = "log"
        /\ UNCHANGED <<next, refused>>
     \/ /\ "extend" \in Faults
        /\ refused' = TRUE
        /\ phase' = "log"
        /\ UNCHANGED <<next, pcr15>>
     \/ /\ "device" \in Faults
        /\ Leave
        /\ UNCHANGED <<pcr15, refused>>
  /\ UNCHANGED <<hostFiles, userVars, launch, inited, atBoot>>

\* No measurement_{uuid}.xml of this uuid.
TpmExtendSkip ==
  /\ phase = "extend"
  /\ next \in Uuids
  /\ ramfs[next] = Absent
  /\ next' = next + 1
  /\ UNCHANGED <<hostFiles, pcr15, phase, userVars, histVars>>

\* echo ... >> pcr_event_log
LogEvent ==
  /\ phase = "log"
  /\ eventLog' = Append(eventLog, Measured(next))
  /\ next' = next + 1
  /\ phase' = "extend"
  /\ UNCHANGED <<manifests, ramfs, measureLog, pcr15, userVars, histVars>>

TpmExtendEnds ==
  /\ phase = "extend"
  /\ next \notin Uuids
  /\ Leave
  /\ launch' = "complete"
  /\ UNCHANGED <<hostFiles, pcr15, userVars, refused, inited, atBoot>>

-----------------------------------------------------------------------------
(* The agent.                                                               *)

\* ioutil.WriteFile opens the file and truncates it.
WriteBegins(w, u, m) ==
  /\ phase = "up"
  /\ writer[w] = Idle
  /\ writer' = [writer EXCEPT ![w] = [uuid |-> u, xml |-> m]]
  /\ manifests' = [manifests EXCEPT ![u] = Empty]
  /\ UNCHANGED <<ramfs, eventLog, measureLog, bootVars, writing, collected, histVars>>

\* The handler checks the uuid and the label, and not the digest algorithm.
DeploySoftwareManifest(r, u, m) == r \in Requests /\ WriteBegins(r, u, m)

\* get-configured-manifest.
SaveManifest(u, m) == WriteBegins(Setup, u, m)

\* It writes the content from the start of the file.  If another writer was
\* there since the truncation, the rest of a longer manifest stays.
WriteManifest(w) ==
  /\ writer[w] # Idle
  /\ LET u == writer[w].uuid
         m == writer[w].xml
     IN \E content \in IF manifests[u] \in {Empty, m} THEN {m} ELSE {m, Garbled} :
          manifests' = [manifests EXCEPT ![u] = content]
  /\ writer' = [writer EXCEPT ![w] = Idle]
  /\ UNCHANGED <<ramfs, eventLog, measureLog, bootVars, writing, collected, histVars>>

\* tagent init: a parser that fails is skipped; platform says whether the UEFI
\* and TXT parsers found events.  With none at all measure-log.json is left as
\* it is, otherwise it is truncated.
UpdateMeasureLog(platform) ==
  /\ phase = "up"
  /\ ~writing
  /\ platform \/ eventLog # <<>>
  /\ writing' = TRUE
  /\ collected' = eventLog
  /\ measureLog' = [torn |-> TRUE, events |-> <<>>]
  /\ UNCHANGED <<manifests, ramfs, eventLog, bootVars, writer, histVars>>

WriteMeasureLog ==
  /\ writing
  /\ measureLog' = [torn |-> FALSE, events |-> collected]
  /\ writing' = FALSE
  /\ collected' = <<>>
  /\ inited' = TRUE
  /\ UNCHANGED <<manifests, ramfs, eventLog, bootVars, writer, launch, refused, atBoot>>

\* readEventLog: a file that is not JSON makes the request fail.
Quotable == phase = "up" /\ ~measureLog.torn

\* The application events in the quote, none without the file.
EventsInQuote == measureLog.events

\* getTcbMeasurements: every measurement file goes into the quote.
MeasurementsInQuote == {Measured(u) : u \in {x \in Uuids : ramfs[x] # Absent}}

-----------------------------------------------------------------------------

\* A host after installation, before the first measured boot.
Init ==
  /\ manifests \in [Uuids -> Measurable \cup {Absent}]
  /\ ramfs = [u \in Uuids |-> Absent]
  /\ eventLog = <<>>
  /\ measureLog = [torn |-> FALSE, events |-> <<>>]
  /\ pcr15 = <<>>
  /\ phase = "up"
  /\ next = 1
  /\ writer = [w \in Writers |-> Idle]
  /\ writing = FALSE
  /\ collected = <<>>
  /\ launch = "none"
  /\ refused = FALSE
  /\ inited = FALSE
  /\ atBoot = manifests

Initrd ==
  \/ LoadConfigurationFails \/ ManifestPathMissing
  \/ ManifestVerifyBegin \/ MeasureManifest
  \/ TpmExtendBegin \/ TpmExtend \/ TpmExtendSkip \/ LogEvent \/ TpmExtendEnds

Agent ==
  \/ \E r \in Requests, u \in Uuids, m \in Manifests : DeploySoftwareManifest(r, u, m)
  \/ \E u \in Uuids, m \in Manifests : SaveManifest(u, m)
  \/ \E w \in Writers : WriteManifest(w)
  \/ \E platform \in BOOLEAN : UpdateMeasureLog(platform)
  \/ WriteMeasureLog

Next == Boot \/ Initrd \/ Agent

Spec == Init /\ [][Next]_vars

-----------------------------------------------------------------------------

\* The events of a quote are what PCR 15 was extended with, in this order, and
\* for each of them the quote carries the measurement, whatever was deployed
\* since the boot and wherever earlier boots and inits were cut off.  This is
\* what HVS replays.  It needs a launch that measure_host began, an init that
\* wrote its file, and a TPM that performed every extend.
EvidenceAgrees ==
  Quotable /\ launch # "none" /\ inited /\ ~refused
    => /\ EventsInQuote = pcr15
       /\ \A i \in DOMAIN pcr15 : pcr15[i] \in MeasurementsInQuote

\* When measure_host comes to its end, the event log has one event for each
\* manifest that was there at boot, as it was then, in the order of uuids:
\* none is passed over, none is left from an earlier boot.
LaunchComplete ==
  launch = "complete" =>
    /\ {eventLog[i] : i \in DOMAIN eventLog} =
         {[uuid |-> u, of |-> atBoot[u]] : u \in {x \in Uuids : atBoot[x] # Absent}}
    /\ \A i, j \in DOMAIN eventLog : i < j => eventLog[i].uuid < eventLog[j].uuid

=============================================================================

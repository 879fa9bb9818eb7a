------------------------ MODULE MeasuredLaunchProofs ------------------------
(***************************************************************************)
(* The evidence of a quote agrees, for any number of manifests, requests   *)
(* and boots, and every set of faults.                                     *)
(***************************************************************************)
EXTENDS MeasuredLaunch, TLAPS

Digests == [uuid : Uuids, of : Measurable \cup {Absent, Failed}]

\* Types, as far as the argument needs them.
LaunchTypeOK ==
  /\ ramfs \in [Uuids -> Measurable \cup {Absent, Failed}]
  /\ eventLog \in Seq(Digests)
  /\ pcr15 \in Seq(Digests)
  /\ phase \in {"load", "verify", "extend", "log", "up"}

\* What measure_host has established at each of its stages.
StageInv ==
  /\ phase = "load" => launch = "none"
  /\ phase \in {"verify", "extend", "log"} => launch = "begun"
  /\ phase # "up" => ~writing /\ ~inited
  /\ launch = "none" \/ phase = "verify" => pcr15 = <<>>
  /\ phase = "verify" => eventLog = <<>>
  /\ phase = "log" => next \in Uuids /\ ramfs[next] # Absent

\* The log follows the PCR, one step behind between the two commands.
LogInv ==
  ~refused =>
    /\ phase = "log" => pcr15 = Append(eventLog, Measured(next))
    /\ phase = "extend" => pcr15 = eventLog
    /\ phase = "up" /\ launch # "none" => pcr15 = eventLog

\* The PCR only holds measurements that are still in their files.
FileInv == \A i \in DOMAIN pcr15 : pcr15[i] \in MeasurementsInQuote

\* measure-log.json, or what init is about to write there, is of this boot.
CopyInv ==
  phase = "up" /\ launch # "none" /\ ~refused =>
    /\ writing => collected = pcr15
    /\ inited /\ ~measureLog.torn => measureLog.events = pcr15

LaunchInv == LaunchTypeOK /\ StageInv /\ LogInv /\ FileInv /\ CopyInv

LEMMA LaunchInit == Init => LaunchInv
BY LaunchAssumption
DEF Init, LaunchInv, LaunchTypeOK, StageInv, LogInv, FileInv, CopyInv, Digests

LEMMA LaunchStep == LaunchInv /\ [Next]_vars => LaunchInv'
<1> SUFFICES ASSUME LaunchInv, [Next]_vars PROVE LaunchInv'
  OBVIOUS
<1> USE DEF LaunchInv, hostFiles, bootVars, userVars, histVars
<1>1. CASE Boot
  BY <1>1 DEF Boot, LaunchTypeOK, StageInv, LogInv, FileInv, CopyInv
<1>2. CASE LoadConfigurationFails \/ ManifestPathMissing
  BY <1>2 DEF LoadConfigurationFails, ManifestPathMissing, Leave, LaunchTypeOK, StageInv,
              LogInv, FileInv, CopyInv
<1>3. CASE ManifestVerifyBegin
  BY <1>3 DEF ManifestVerifyBegin, LaunchTypeOK, StageInv, LogInv, FileInv, CopyInv
<1>4. CASE MeasureManifest
  <2>1. ramfs' \in [Uuids -> Measurable \cup {Absent, Failed}]
    BY <1>4 DEF MeasureManifest, MeasureFails, LaunchTypeOK
  <2>2. phase = "verify" /\ pcr15' = <<>> /\ eventLog' = <<>> /\ phase' \in {"verify", "up"}
    BY <1>4 DEF MeasureManifest, MeasureFails, Leave, StageInv
  <2>3. UNCHANGED <<launch, refused, inited, writing, pcr15, eventLog>>
    BY <1>4 DEF MeasureManifest
  <2> QED
    BY <2>1, <2>2, <2>3 DEF LaunchTypeOK, StageInv, LogInv, FileInv, CopyInv
<1>5. CASE TpmExtendBegin
  BY <1>5 DEF TpmExtendBegin, Leave, LaunchTypeOK, StageInv, LogInv, FileInv, CopyInv,
              MeasurementsInQuote, Measured
<1>6. CASE TpmExtend
  <2>1. Measured(next) \in Digests /\ Measured(next) \in MeasurementsInQuote
    BY <1>6 DEF TpmExtend, MeasurementsInQuote, Measured, Digests, LaunchTypeOK
  <2>2. /\ phase = "extend" /\ next \in Uuids /\ ramfs[next] # Absent
        /\ UNCHANGED <<hostFiles, userVars, launch, inited>>
        /\ Measured(next) = Measured(next)' \/ next' # next
    BY <1>6 DEF TpmExtend, Measured
  <2>3. MeasurementsInQuote' = MeasurementsInQuote
    BY <2>2 DEF MeasurementsInQuote, Measured
  <2>4. CASE pcr15' = Append(pcr15, Measured(next)) /\ phase' = "log" /\ UNCHANGED <<next, refused>>
    <3>1. FileInv'
      BY <2>1, <2>3, <2>4 DEF FileInv, LaunchTypeOK
    <3>2. LaunchTypeOK'
      BY <2>1, <2>2, <2>4 DEF LaunchTypeOK
    <3>3. StageInv'
      BY <2>2, <2>4 DEF StageInv, LaunchTypeOK
    <3>4. LogInv'
      BY <2>2, <2>4 DEF LogInv, Measured
    <3> QED
      BY <2>4, <3>1, <3>2, <3>3, <3>4 DEF CopyInv
  <2>5. CASE refused' = TRUE /\ phase' = "log" /\ UNCHANGED <<next, pcr15>>
    BY <2>2, <2>3, <2>5 DEF LaunchTypeOK, StageInv, LogInv, FileInv, CopyInv
  <2>6. CASE Leave /\ UNCHANGED <<pcr15, refused>>
    BY <2>2, <2>3, <2>6 DEF Leave, LaunchTypeOK, StageInv, LogInv, FileInv, CopyInv
  <2> QED
    BY <1>6, <2>4, <2>5, <2>6 DEF TpmExtend
<1>7. CASE TpmExtendSkip
  BY <1>7 DEF TpmExtendSkip, LaunchTypeOK, StageInv, LogInv, FileInv, CopyInv,
              MeasurementsInQuote, Measured
<1>8. CASE LogEvent
  <2>1. /\ phase = "log" /\ phase' = "extend"
        /\ eventLog' = Append(eventLog, Measured(next))
        /\ UNCHANGED <<ramfs, pcr15, userVars, histVars>>
    BY <1>8 DEF LogEvent
  <2>2. Measured(next) \in Digests
    BY <2>1 DEF StageInv, Measured, Digests, LaunchTypeOK
  <2>3. MeasurementsInQuote' = MeasurementsInQuote
    BY <2>1 DEF MeasurementsInQuote, Measured
  <2> QED
    BY <2>1, <2>2, <2>3 DEF LaunchTypeOK, StageInv, LogInv, FileInv, CopyInv
<1>9. CASE TpmExtendEnds
  BY <1>9 DEF TpmExtendEnds, Leave, LaunchTypeOK, StageInv, LogInv, FileInv, CopyInv,
              MeasurementsInQuote, Measured
<1>10. ASSUME NEW w \in Writers, NEW u \in Uuids, NEW m \in Manifests, WriteBegins(w, u, m)
       PROVE LaunchInv'
  BY <1>10 DEF WriteBegins, LaunchTypeOK, StageInv, LogInv, FileInv, CopyInv,
               MeasurementsInQuote, Measured
<1>11. ASSUME NEW w \in Writers, WriteManifest(w) PROVE LaunchInv'
  BY <1>11 DEF WriteManifest, LaunchTypeOK, StageInv, LogInv, FileInv, CopyInv,
               MeasurementsInQuote, Measured
<1>12. ASSUME NEW platform \in BOOLEAN, UpdateMeasureLog(platform) PROVE LaunchInv'
  BY <1>12 DEF UpdateMeasureLog, LaunchTypeOK, StageInv, LogInv, FileInv, CopyInv,
               MeasurementsInQuote, Measured
<1>13. CASE WriteMeasureLog
  BY <1>13 DEF WriteMeasureLog, LaunchTypeOK, StageInv, LogInv, FileInv, CopyInv,
               MeasurementsInQuote, Measured
<1>14. CASE UNCHANGED vars
  BY <1>14 DEF vars, LaunchTypeOK, StageInv, LogInv, FileInv, CopyInv,
               MeasurementsInQuote, Measured
<1> QED
  BY <1>1, <1>2, <1>3, <1>4, <1>5, <1>6, <1>7, <1>8, <1>9, <1>10, <1>11, <1>12, <1>13, <1>14
  DEF Next, Initrd, Agent, DeploySoftwareManifest, SaveManifest, Writers

\* What HVS replays agrees with what the TPM signed: in every quote of a boot
\* whose launch began, whose init wrote measure-log.json and whose TPM performed
\* the extends, the events are those of PCR 15 and each is measured.
THEOREM EvidenceOfQuotesAgrees == Spec => []EvidenceAgrees
<1>1. LaunchInv => EvidenceAgrees
  BY DEF LaunchInv, FileInv, CopyInv, EvidenceAgrees, Quotable, EventsInQuote
<1> QED
  BY <1>1, LaunchInit, LaunchStep, PTL DEF Spec

-----------------------------------------------------------------------------
(* A launch that comes to its end.                                          *)

\* The event log has the manifests at boot below n, in order.
Holds(n) ==
  /\ \A u \in Uuids : u < n /\ atBoot[u] # Absent =>
       \E i \in DOMAIN eventLog : eventLog[i] = [uuid |-> u, of |-> atBoot[u]]
  /\ \A i \in DOMAIN eventLog :
       \E u \in Uuids : u < n /\ atBoot[u] # Absent
                          /\ eventLog[i] = [uuid |-> u, of |-> atBoot[u]]
  /\ \A i, j \in DOMAIN eventLog : i < j => eventLog[i].uuid < eventLog[j].uuid

\* Nobody writes manifests before measure_host has ended ...
BootFilesInv ==
  phase # "up" =>
    /\ manifests = atBoot
    /\ \A w \in Writers : writer[w] = Idle

\* ... its first loop measures them up to next, and its second one logs them.
LoopInv ==
  /\ phase # "up" => next \in 1 .. NumUuids + 1
  /\ phase = "load" => next = 1
  /\ phase = "verify" =>
       \A u \in Uuids : ramfs[u] = IF u < next THEN atBoot[u] ELSE Absent
  /\ phase \in {"extend", "log"} => \A u \in Uuids : ramfs[u] = atBoot[u]
  /\ phase \in {"extend", "log"} => Holds(next)
  /\ launch = "complete" => Holds(NumUuids + 1)

CompleteInv == LaunchInv /\ BootFilesInv /\ LoopInv

LEMMA BootFilesStep == BootFilesInv /\ [Next]_vars => BootFilesInv'
<1> SUFFICES ASSUME BootFilesInv, [Next]_vars PROVE BootFilesInv'
  OBVIOUS
<1> USE DEF BootFilesInv, hostFiles, bootVars, userVars, histVars
<1>1. CASE Boot
  BY <1>1 DEF Boot
<1>2. CASE LoadConfigurationFails \/ ManifestPathMissing \/ ManifestVerifyBegin
  BY <1>2 DEF LoadConfigurationFails, ManifestPathMissing, ManifestVerifyBegin, Leave
<1>3. CASE MeasureManifest \/ TpmExtendBegin
  BY <1>3 DEF MeasureManifest, MeasureFails, TpmExtendBegin, Leave
<1>4. CASE TpmExtend \/ TpmExtendSkip \/ LogEvent \/ TpmExtendEnds
  BY <1>4 DEF TpmExtend, TpmExtendSkip, LogEvent, TpmExtendEnds, Leave
<1>5. ASSUME NEW w \in Writers, NEW u \in Uuids, NEW m \in Manifests, WriteBegins(w, u, m)
      PROVE  BootFilesInv'
  BY <1>5 DEF WriteBegins
<1>6. ASSUME NEW w \in Writers, WriteManifest(w) PROVE BootFilesInv'
  BY <1>6 DEF WriteManifest
<1>7. ASSUME NEW platform \in BOOLEAN, UpdateMeasureLog(platform) PROVE BootFilesInv'
  BY <1>7 DEF UpdateMeasureLog
<1>8. CASE WriteMeasureLog \/ UNCHANGED vars
  BY <1>8 DEF WriteMeasureLog, vars
<1> QED
  BY <1>1, <1>2, <1>3, <1>4, <1>5, <1>6, <1>7, <1>8
  DEF Next, Initrd, Agent, DeploySoftwareManifest, SaveManifest, Writers

\* An event of the uuid n, behind those below it.
LEMMA HoldsOneMore ==
  ASSUME LaunchTypeOK, NEW n \in Uuids, Holds(n), atBoot[n] # Absent,
         [uuid |-> n, of |-> atBoot[n]] \in Digests,
         eventLog' = Append(eventLog, [uuid |-> n, of |-> atBoot[n]]), atBoot' = atBoot
  PROVE  Holds(n + 1)'
<1> DEFINE e == [uuid |-> n, of |-> atBoot[n]]
           k == Len(eventLog) + 1
<1>1. /\ eventLog \in Seq(Digests) /\ e \in Digests /\ e.uuid = n
      /\ eventLog' = Append(eventLog, e) /\ Len(eventLog) \in Nat
  BY DEF LaunchTypeOK
<1>2. /\ DOMAIN eventLog = 1 .. Len(eventLog) /\ DOMAIN eventLog' = 1 .. k
      /\ \A i \in 1 .. Len(eventLog) : eventLog'[i] = eventLog[i]
      /\ eventLog'[k] = e
  <2> HIDE DEF e
  <2> QED
    BY <1>1
<1>3. \A u \in Uuids : u \in Nat
  BY LaunchAssumption DEF Uuids
<1>4. ASSUME NEW u \in Uuids, u < n + 1, atBoot[u] # Absent
      PROVE  \E i \in DOMAIN eventLog' : eventLog'[i] = [uuid |-> u, of |-> atBoot[u]]
  <2>1. CASE u = n
    BY <1>1, <1>2, <2>1
  <2>2. CASE u # n
    <3>1. u < n
      BY <1>3, <1>4, <2>2
    <3> QED
      BY <1>1, <1>2, <1>4, <3>1 DEF Holds
  <2> QED
    BY <2>1, <2>2
<1>5. ASSUME NEW i \in DOMAIN eventLog'
      PROVE  \E u \in Uuids : u < n + 1 /\ atBoot[u] # Absent
                                /\ eventLog'[i] = [uuid |-> u, of |-> atBoot[u]]
  <2>1. CASE i = k
    BY <1>2, <1>3, <2>1
  <2>2. CASE i # k
    <3>1. i \in DOMAIN eventLog
      BY <1>1, <1>2, <2>2
    <3>2. PICK u \in Uuids : u < n /\ atBoot[u] # Absent
                                /\ eventLog[i] = [uuid |-> u, of |-> atBoot[u]]
      BY <3>1 DEF Holds
    <3>3. u < n + 1
      BY <1>3, <3>2
    <3> QED
      BY <1>2, <3>1, <3>2, <3>3
  <2> QED
    BY <2>1, <2>2
<1>6. ASSUME NEW i \in DOMAIN eventLog', NEW j \in DOMAIN eventLog', i < j
      PROVE  eventLog'[i].uuid < eventLog'[j].uuid
  <2>1. i \in DOMAIN eventLog
    BY <1>1, <1>2, <1>6
  <2>2. CASE j = k
    <3>1. eventLog[i].uuid < n
      BY <2>1 DEF Holds
    <3> QED
      BY <1>1, <1>2, <2>1, <2>2, <3>1
  <2>3. CASE j # k
    <3>1. j \in DOMAIN eventLog
      BY <1>1, <1>2, <2>3
    <3> QED
      BY <1>2, <1>6, <2>1, <3>1 DEF Holds
  <2> QED
    BY <2>2, <2>3
<1> QED
  BY <1>4, <1>5, <1>6 DEF Holds

\* No event of the uuid n, whose manifest was not there.
LEMMA HoldsSkip ==
  ASSUME NEW n \in Uuids, Holds(n), atBoot[n] = Absent,
         eventLog' = eventLog, atBoot' = atBoot
  PROVE  Holds(n + 1)'
<1>1. \A u \in Uuids : u \in Nat
  BY LaunchAssumption DEF Uuids
<1>2. \A u \in Uuids : u < n + 1 /\ atBoot[u] # Absent <=> u < n /\ atBoot[u] # Absent
  BY <1>1
<1> QED
  BY <1>2 DEF Holds

LEMMA LoopStep == CompleteInv /\ [Next]_vars => LoopInv'
<1> SUFFICES ASSUME CompleteInv, [Next]_vars PROVE LoopInv'
  OBVIOUS
<1> USE DEF hostFiles, bootVars, userVars, histVars
<1>0. LaunchTypeOK /\ StageInv /\ BootFilesInv /\ LoopInv
  BY DEF CompleteInv, LaunchInv
<1>1. CASE Boot
  BY <1>1, LaunchAssumption DEF Boot, LoopInv
<1>2. CASE LoadConfigurationFails \/ ManifestPathMissing
  BY <1>0, <1>2 DEF LoadConfigurationFails, ManifestPathMissing, Leave, LoopInv, StageInv
<1>3. CASE ManifestVerifyBegin
  BY <1>0, <1>3, LaunchAssumption DEF ManifestVerifyBegin, LoopInv, Uuids
<1>4. CASE MeasureManifest
  <2>1. /\ phase = "verify" /\ next \in Uuids /\ launch' = "begun" /\ manifests[next] = atBoot[next]
        /\ UNCHANGED <<atBoot, eventLog>>
    BY <1>0, <1>4 DEF MeasureManifest, StageInv, BootFilesInv
  <2>2. CASE phase' = "up"
    BY <2>1, <2>2 DEF LoopInv
  <2>3. CASE phase' = "verify" /\ next' = next + 1 /\ ramfs'[next] = atBoot[next]
             /\ \A u \in Uuids \ {next} : ramfs'[u] = ramfs[u]
    <3>1. NumUuids \in Nat
      BY LaunchAssumption
    <3>2. next' \in 1 .. NumUuids + 1
      BY <2>1, <2>3, <3>1 DEF Uuids
    <3>3. \A u \in Uuids : ramfs'[u] = IF u < next' THEN atBoot[u] ELSE Absent
      <4>1. \A u \in Uuids : ramfs[u] = IF u < next THEN atBoot[u] ELSE Absent
        BY <1>0, <2>1 DEF LoopInv
      <4>2. \A u \in Uuids \ {next} : u < next <=> u < next'
        BY <2>1, <2>3, <3>1 DEF Uuids
      <4>3. next < next'
        BY <2>1, <2>3, <3>1 DEF Uuids
      <4> QED
        BY <2>1, <2>3, <4>1, <4>2, <4>3
    <3> QED
      BY <2>1, <2>3, <3>2, <3>3 DEF LoopInv
  <2>4. CASE phase' # "up"
    <3>1. /\ phase' = "verify" /\ next' = next + 1
          /\ \/ manifests[next] = Absent /\ ramfs' = ramfs
             \/ ramfs' = [ramfs EXCEPT ![next] = manifests[next]]
      BY <1>4, <2>4 DEF MeasureManifest, MeasureFails, Leave
    <3>2. ramfs[next] = Absent
      <4>1. ~(next < next)
        BY <2>1, LaunchAssumption DEF Uuids
      <4> QED
        BY <1>0, <2>1, <4>1 DEF LoopInv
    <3>3. ramfs'[next] = atBoot[next] /\ \A u \in Uuids \ {next} : ramfs'[u] = ramfs[u]
      BY <1>0, <2>1, <3>1, <3>2 DEF LaunchTypeOK
    <3> QED
      BY <2>3, <3>1, <3>3
  <2> QED
    BY <2>2, <2>4
<1>5. CASE TpmExtendBegin
  <2>1. /\ phase = "verify" /\ next \notin Uuids /\ launch' = "begun" /\ eventLog' = <<>>
        /\ next' = 1 /\ phase' \in {"extend", "up"} /\ UNCHANGED <<atBoot, ramfs>>
    BY <1>0, <1>5 DEF TpmExtendBegin, Leave, StageInv
  <2>2. NumUuids \in Nat /\ next \in 1 .. NumUuids + 1
    BY <1>0, <2>1, LaunchAssumption DEF LoopInv
  <2>3. \A u \in Uuids : u < next /\ ~(u < 1)
    BY <2>1, <2>2 DEF Uuids
  <2>4. \A u \in Uuids : ramfs'[u] = atBoot'[u]
    BY <1>0, <2>1, <2>3 DEF LoopInv
  <2>5. Holds(1)'
    BY <2>1, <2>3 DEF Holds
  <2>6. next' \in 1 .. NumUuids + 1
    BY <2>1, <2>2
  <2>7. Holds(next)'
    BY <2>1, <2>5
  <2> QED
    BY <2>1, <2>4, <2>6, <2>7 DEF LoopInv
<1>6. CASE TpmExtend
  <2>1. /\ phase = "extend" /\ phase' \in {"log", "up"} /\ launch' = "begun"
        /\ phase' = "log" => next' = next
        /\ UNCHANGED <<atBoot, eventLog, ramfs>>
    BY <1>0, <1>6 DEF TpmExtend, Leave, StageInv
  <2>2. CASE phase' = "log"
    BY <1>0, <2>1, <2>2 DEF LoopInv, Holds
  <2>3. CASE phase' = "up"
    BY <2>1, <2>3 DEF LoopInv
  <2> QED
    BY <2>1, <2>2, <2>3
<1>7. CASE TpmExtendSkip
  <2>1. /\ phase = "extend" /\ phase' = "extend" /\ launch' = "begun" /\ next \in Uuids
        /\ ramfs[next] = Absent /\ next' = next + 1 /\ UNCHANGED <<atBoot, eventLog, ramfs>>
    BY <1>0, <1>7 DEF TpmExtendSkip, StageInv
  <2>2. Holds(next) /\ atBoot[next] = Absent /\ \A u \in Uuids : ramfs'[u] = atBoot'[u]
    BY <1>0, <2>1 DEF LoopInv
  <2>3. PICK n \in Uuids : n = next
    BY <2>1
  <2>4. Holds(n + 1)'
    BY <2>1, <2>2, <2>3, HoldsSkip
  <2>5. Holds(next)'
    BY <2>1, <2>3, <2>4
  <2>6. next' \in 1 .. NumUuids + 1
    BY <2>1, LaunchAssumption DEF Uuids
  <2> QED
    BY <2>1, <2>2, <2>5, <2>6 DEF LoopInv
<1>8. CASE LogEvent
  <2>1. /\ phase = "log" /\ phase' = "extend" /\ launch' = "begun" /\ next \in Uuids
        /\ ramfs[next] # Absent /\ next' = next + 1
        /\ eventLog' = Append(eventLog, Measured(next)) /\ UNCHANGED <<atBoot, ramfs>>
    BY <1>0, <1>8 DEF LogEvent, StageInv
  <2>2. Holds(next) /\ atBoot[next] = ramfs[next] /\ \A u \in Uuids : ramfs'[u] = atBoot'[u]
    BY <1>0, <2>1 DEF LoopInv
  <2>3. PICK n \in Uuids : n = next
    BY <2>1
  <2>4. Measured(next) = [uuid |-> n, of |-> atBoot[n]] /\ Measured(next) \in Digests
    BY <1>0, <2>1, <2>2, <2>3 DEF Measured, Digests, LaunchTypeOK
  <2>5. Holds(n + 1)'
    BY <1>0, <2>1, <2>2, <2>3, <2>4, HoldsOneMore
  <2>6. Holds(next)'
    BY <2>1, <2>3, <2>5
  <2>7. next' \in 1 .. NumUuids + 1
    BY <2>1, LaunchAssumption DEF Uuids
  <2> QED
    BY <2>1, <2>2, <2>6, <2>7 DEF LoopInv
<1>9. CASE TpmExtendEnds
  <2>1. /\ phase = "extend" /\ phase' = "up" /\ next \notin Uuids
        /\ UNCHANGED <<atBoot, eventLog>>
    BY <1>9 DEF TpmExtendEnds, Leave
  <2>2. Holds(next) /\ next \in 1 .. NumUuids + 1
    BY <1>0, <2>1 DEF LoopInv
  <2>3. next = NumUuids + 1
    BY <2>1, <2>2, LaunchAssumption DEF Uuids
  <2>4. Holds(NumUuids + 1)'
    BY <2>1, <2>2, <2>3 DEF Holds
  <2> QED
    BY <2>1, <2>4 DEF LoopInv
<1>10. CASE Agent \/ UNCHANGED vars
  <2>1. UNCHANGED <<atBoot, eventLog, ramfs, phase, next, launch>>
    BY <1>10 DEF Agent, DeploySoftwareManifest, SaveManifest, WriteBegins, WriteManifest,
                 UpdateMeasureLog, WriteMeasureLog, vars
  <2> QED
    BY <1>0, <2>1 DEF LoopInv, Holds
<1> QED
  BY <1>1, <1>2, <1>3, <1>4, <1>5, <1>6, <1>7, <1>8, <1>9, <1>10 DEF Next, Initrd

\* When measure_host comes to its end, for any number of manifests and whatever
\* happened in earlier boots, the event log has exactly the manifests that were
\* there at boot, in the order of uuids.
THEOREM LaunchesAreComplete == Spec => []LaunchComplete
<1>1. Init => CompleteInv
  BY LaunchInit DEF Init, CompleteInv, BootFilesInv, LoopInv
<1>2. CompleteInv /\ [Next]_vars => CompleteInv'
  BY LaunchStep, BootFilesStep, LoopStep DEF CompleteInv
<1>3. CompleteInv => LaunchComplete
  <2> SUFFICES ASSUME CompleteInv, launch = "complete"
               PROVE  /\ {eventLog[i] : i \in DOMAIN eventLog} =
                           {[uuid |-> u, of |-> atBoot[u]] :
                              u \in {x \in Uuids : atBoot[x] # Absent}}
                      /\ \A i, j \in DOMAIN eventLog :
                           i < j => eventLog[i].uuid < eventLog[j].uuid
    BY DEF LaunchComplete
  <2>1. Holds(NumUuids + 1)
    BY DEF CompleteInv, LoopInv
  <2>2. \A u \in Uuids : u < NumUuids + 1
    BY LaunchAssumption DEF Uuids
  <2>3. {eventLog[i] : i \in DOMAIN eventLog} =
          {[uuid |-> u, of |-> atBoot[u]] : u \in {x \in Uuids : atBoot[x] # Absent}}
    BY <2>1, <2>2 DEF Holds
  <2> QED
    BY <2>1, <2>3 DEF Holds
<1> QED
  BY <1>1, <1>2, <1>3, PTL DEF Spec
=============================================================================

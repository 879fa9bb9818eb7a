------------------------- MODULE ProvisioningProofs -------------------------
(***************************************************************************)
(* Proofs that Provisioning keeps its safety invariants, for all sets of   *)
(* secrets, keys and tags.                                                 *)
(***************************************************************************)
EXTENDS Provisioning, TLAPS

\* The process is inside DefineTagIndex.Run, or inside the AIK handshake.
InDefineTagIndex == pc \in {"dtRead", "dtRelease", "dtDefine", "dtWrite"}
InProvisionAik   == pc \in {"aikRequest", "aikResponse", "aikOpen", "aikWrite"}

\* A task of a full provisioning has completed in this run, or the results of
\* an earlier full provisioning still stand.
Holds(t) == provisioned \/ (cmd \in FullCommands /\ t \notin todo)

\* The secret in memory is the saved one if there is one, and it is the
\* index's password except while the old index still exists.
SecretInv ==
  /\ SecretAgreement
  /\ pc # "idle" /\ config \in Secrets => tagSecret = config
  /\ pc \notin {"idle", "dtRead", "dtRelease"} /\ tagSecret \in Secrets /\ nv # Absent
       => nv.auth = tagSecret

\* While the index is being replaced, the tag is in memory.
TagInv ==
  /\ TagKept
  /\ pc \in {"dtRelease", "dtDefine", "dtWrite"} /\ ~disturbed /\ acked # Zeros
       => newAssetTag = acked
  /\ pc = "dtDefine" => nv = Absent

\* What define-tag-index has established.
IndexInv ==
  /\ InDefineTagIndex => tagSecret \in Secrets
  /\ pc = "dtWrite" => nv.auth = tagSecret
  /\ pc # "idle" /\ ~InDefineTagIndex /\ Holds("defineTagIndex")
       => /\ tagSecret \in Secrets /\ nv.auth = tagSecret
          /\ nv.data \in Tags \cup {Zeros}
  /\ provisioned /\ pc \notin {"idle", "saveWrite"}
       => tagSecret \in Secrets /\ config = tagSecret

\* What provision-aik and provision-primary-key have established.
KeyInv ==
  /\ InProvisionAik => aik \in Keys
  /\ pc \in {"aikOpen", "aikWrite"} => aikCert = aik
  /\ pc # "idle" /\ ~InProvisionAik /\ Holds("provisionAik") => aik \in Keys /\ aikPem = aik
  /\ pc # "idle" /\ Holds("primaryKey") => primary

IInv == TypeOK /\ SecretInv /\ TagInv /\ IndexInv /\ KeyInv /\ ProvisionedWorks

\* The type invariant is inductive.
LEMMA TypeStep == TypeOK /\ [Next]_vars => TypeOK'
<1> SUFFICES ASSUME TypeOK, [Next]_vars PROVE TypeOK'
  OBVIOUS
<1> USE ConstantsAssumption, InvokedAssumption
<1> USE DEF TypeOK, TpmTypeOK, DiskTypeOK, SetupTypeOK, HistoryTypeOK, Locations, Absent, vars, tpmVars, diskVars, memVars, setupVars, histVars
<1>1. ASSUME NEW c \in Invoked, NEW o \in OwnerSecrets \cup {EmptyAuth}, SetupStart(c, o)
      PROVE TypeOK'
  BY <1>1 DEF SetupStart, Commands, TasksOf, Tasks, Rank, AttestationTasks
<1>2. CASE SaveTruncate
  BY <1>2 DEF SaveTruncate, At
<1>3. CASE SaveWrite
  <2> USE <1>3 DEF SaveWrite, Completed, Exits, FullCommands
  <2>1. TpmTypeOK'
    OBVIOUS
  <2>2. DiskTypeOK'
    OBVIOUS
  <2>3. SetupTypeOK'
    OBVIOUS
  <2>4. HistoryTypeOK'
    OBVIOUS
  <2> QED
    BY <2>1, <2>2, <2>3, <2>4
<1>4. CASE PassiveTask
  BY <1>4 DEF PassiveTask, At, Completed
<1>5. CASE DownloadPrivacyCa
  BY <1>5 DEF DownloadPrivacyCa, At, Completed
<1>6. CASE TakeOwnership
  BY <1>6 DEF TakeOwnership, At, Completed, Owned, ReturnError, Exits
<1>7. CASE DefineTagIndexBegin
  BY <1>7 DEF DefineTagIndexBegin, At, Owned, ReturnError, Exits
<1>8. CASE DefineTagIndexPanic
  BY <1>8 DEF DefineTagIndexPanic, At, Exits
<1>9. CASE NvReadExisting
  BY <1>9 DEF NvReadExisting, ReturnError, Exits
<1>10. CASE NvRelease
  BY <1>10 DEF NvRelease
<1>11. CASE NvDefine
  BY <1>11 DEF NvDefine
<1>12. CASE NvWriteTag
  BY <1>12 DEF NvWriteTag, Completed
<1>13. CASE CreateAik
  BY <1>13 DEF CreateAik, At, Owned, ReturnError, Exits
<1>14. CASE IdentityProofRequest
  BY <1>14 DEF IdentityProofRequest, ReturnError, Exits
<1>15. CASE IdentityProofResponse
  BY <1>15 DEF IdentityProofResponse
<1>16. CASE AikFileTruncate
  BY <1>16 DEF AikFileTruncate
<1>17. CASE AikFileWrite
  BY <1>17 DEF AikFileWrite, Completed
<1>18. CASE ProvisionPrimaryKey
  BY <1>18 DEF ProvisionPrimaryKey, At, Completed, Owned, ReturnError, Exits
<1>19. CASE SetupAbort
  <2> USE <1>19 DEF SetupAbort, Exits
  <2>1. TpmTypeOK'
    OBVIOUS
  <2>2. DiskTypeOK'
    OBVIOUS
  <2>3. SetupTypeOK'
    OBVIOUS
  <2>4. HistoryTypeOK'
    OBVIOUS
  <2> QED
    BY <2>1, <2>2, <2>3, <2>4
<1>20. CASE ClearTpm
  BY <1>20 DEF ClearTpm, Exits
<1>21. CASE Uninstall
  <2> USE <1>21 DEF Uninstall
  <2>1. TpmTypeOK'
    OBVIOUS
  <2>2. DiskTypeOK'
    OBVIOUS
  <2>3. SetupTypeOK'
    OBVIOUS
  <2>4. HistoryTypeOK'
    OBVIOUS
  <2> QED
    BY <2>1, <2>2, <2>3, <2>4
<1>22. ASSUME NEW s \in Secrets, NEW t \in Tags, DeployTag(s, t)
      PROVE TypeOK'
  BY <1>22 DEF DeployTag
<1>23. CASE UNCHANGED vars
  BY <1>23
<1> QED
  BY <1>1, <1>2, <1>3, <1>4, <1>5, <1>6, <1>7, <1>8, <1>9, <1>10, <1>11, <1>12, <1>13, <1>14, <1>15, <1>16, <1>17, <1>18, <1>19, <1>20, <1>21, <1>22, <1>23 DEF Next, SetupNext, SetupStep

\* SecretInv is preserved by every step.
LEMMA SecretStep == IInv /\ [Next]_vars => SecretInv'
<1> SUFFICES ASSUME IInv, [Next]_vars PROVE SecretInv'
  OBVIOUS
<1> USE ConstantsAssumption DEF IInv, SecretInv, SecretAgreement, TypeOK, TpmTypeOK, DiskTypeOK, SetupTypeOK, vars, tpmVars, diskVars, memVars, setupVars, histVars
<1> USE DEF Absent, NoSecret, Missing, Torn, NoKey, Zeros, Unwritten, OddLength, LegacyAuth
<1>1. ASSUME NEW c \in Invoked, NEW o \in OwnerSecrets \cup {EmptyAuth}, SetupStart(c, o)
      PROVE SecretInv'
  BY <1>1 DEF SetupStart
<1>2. CASE SaveTruncate
  BY <1>2 DEF SaveTruncate, At
<1>3. CASE SaveWrite
  BY <1>3 DEF SaveWrite, Completed, Exits, FullCommands
<1>4. CASE PassiveTask
  BY <1>4 DEF PassiveTask, At, Completed
<1>5. CASE DownloadPrivacyCa
  BY <1>5 DEF DownloadPrivacyCa, At, Completed
<1>6. CASE TakeOwnership
  BY <1>6 DEF TakeOwnership, At, Completed, ReturnError, Exits
<1>7. CASE DefineTagIndexBegin
  BY <1>7 DEF DefineTagIndexBegin, At, ReturnError, Exits
<1>8. CASE DefineTagIndexPanic
  BY <1>8 DEF DefineTagIndexPanic, At, Exits
<1>9. CASE NvReadExisting
  BY <1>9 DEF NvReadExisting, ReturnError, Exits
<1>10. CASE NvRelease
  BY <1>10 DEF NvRelease
<1>11. CASE NvDefine
  BY <1>11 DEF NvDefine
<1>12. CASE NvWriteTag
  BY <1>12 DEF NvWriteTag, Completed, IndexInv
<1>13. CASE CreateAik
  BY <1>13 DEF CreateAik, At, ReturnError, Exits
<1>14. CASE IdentityProofRequest
  BY <1>14 DEF IdentityProofRequest, ReturnError, Exits
<1>15. CASE IdentityProofResponse
  BY <1>15 DEF IdentityProofResponse
<1>16. CASE AikFileTruncate
  BY <1>16 DEF AikFileTruncate
<1>17. CASE AikFileWrite
  BY <1>17 DEF AikFileWrite, Completed
<1>18. CASE ProvisionPrimaryKey
  BY <1>18 DEF ProvisionPrimaryKey, At, Completed, ReturnError, Exits
<1>19. CASE SetupAbort
  BY <1>19 DEF SetupAbort, Exits
<1>20. CASE ClearTpm
  BY <1>20 DEF ClearTpm, Exits
<1>21. CASE Uninstall
  BY <1>21 DEF Uninstall
<1>22. ASSUME NEW s \in Secrets, NEW t \in Tags, DeployTag(s, t)
      PROVE SecretInv'
  BY <1>22 DEF DeployTag
<1>23. CASE UNCHANGED vars
  BY <1>23
<1> QED
  BY <1>1, <1>2, <1>3, <1>4, <1>5, <1>6, <1>7, <1>8, <1>9, <1>10, <1>11, <1>12, <1>13, <1>14, <1>15, <1>16, <1>17, <1>18, <1>19, <1>20, <1>21, <1>22, <1>23 DEF Next, SetupNext, SetupStep

\* TagInv is preserved by every step.
LEMMA TagStep == IInv /\ [Next]_vars => TagInv'
<1> SUFFICES ASSUME IInv, [Next]_vars PROVE TagInv'
  OBVIOUS
<1> USE ConstantsAssumption DEF IInv, TagInv, TagKept, TypeOK, TpmTypeOK, DiskTypeOK, SetupTypeOK, HistoryTypeOK, vars, tpmVars, diskVars, memVars, setupVars, histVars
<1> USE DEF Absent, NoSecret, Missing, Torn, NoKey, Zeros, Unwritten, OddLength, LegacyAuth
<1>1. ASSUME NEW c \in Invoked, NEW o \in OwnerSecrets \cup {EmptyAuth}, SetupStart(c, o)
      PROVE TagInv'
  BY <1>1 DEF SetupStart
<1>2. CASE SaveTruncate
  BY <1>2 DEF SaveTruncate, At
<1>3. CASE SaveWrite
  BY <1>3 DEF SaveWrite, Completed, Exits, FullCommands
<1>4. CASE PassiveTask
  BY <1>4 DEF PassiveTask, At, Completed
<1>5. CASE DownloadPrivacyCa
  BY <1>5 DEF DownloadPrivacyCa, At, Completed
<1>6. CASE TakeOwnership
  BY <1>6 DEF TakeOwnership, At, Completed, ReturnError, Exits
<1>7. CASE DefineTagIndexBegin
  BY <1>7 DEF DefineTagIndexBegin, At, ReturnError, Exits
<1>8. CASE DefineTagIndexPanic
  BY <1>8 DEF DefineTagIndexPanic, At, Exits
<1>9. CASE NvReadExisting
  BY <1>9 DEF NvReadExisting, ReturnError, Exits
<1>10. CASE NvRelease
  BY <1>10 DEF NvRelease
<1>11. CASE NvDefine
  BY <1>11 DEF NvDefine
<1>12. CASE NvWriteTag
  BY <1>12 DEF NvWriteTag, Completed
<1>13. CASE CreateAik
  BY <1>13 DEF CreateAik, At, ReturnError, Exits
<1>14. CASE IdentityProofRequest
  BY <1>14 DEF IdentityProofRequest, ReturnError, Exits
<1>15. CASE IdentityProofResponse
  BY <1>15 DEF IdentityProofResponse
<1>16. CASE AikFileTruncate
  BY <1>16 DEF AikFileTruncate
<1>17. CASE AikFileWrite
  BY <1>17 DEF AikFileWrite, Completed
<1>18. CASE ProvisionPrimaryKey
  BY <1>18 DEF ProvisionPrimaryKey, At, Completed, ReturnError, Exits
<1>19. CASE SetupAbort
  BY <1>19 DEF SetupAbort, Exits
<1>20. CASE ClearTpm
  BY <1>20 DEF ClearTpm, Exits
<1>21. CASE Uninstall
  BY <1>21 DEF Uninstall
<1>22. ASSUME NEW s \in Secrets, NEW t \in Tags, DeployTag(s, t)
      PROVE TagInv'
  <2> USE <1>22 DEF DeployTag
  <2>1. pc # "dtDefine"
    OBVIOUS
  <2>2. CASE pc \in {"dtRelease", "dtWrite"}
    <3>1. disturbed'
      BY <2>2
    <3> QED
      BY <2>1, <3>1
  <2>3. CASE pc \notin {"dtRelease", "dtWrite"}
    BY <2>1, <2>3
  <2> QED
    BY <2>2, <2>3
<1>23. CASE UNCHANGED vars
  BY <1>23
<1> QED
  BY <1>1, <1>2, <1>3, <1>4, <1>5, <1>6, <1>7, <1>8, <1>9, <1>10, <1>11, <1>12, <1>13, <1>14, <1>15, <1>16, <1>17, <1>18, <1>19, <1>20, <1>21, <1>22, <1>23 DEF Next, SetupNext, SetupStep

\* IndexInv is preserved by every step.
LEMMA IndexStep == IInv /\ [Next]_vars => IndexInv'
<1> SUFFICES ASSUME IInv, [Next]_vars PROVE IndexInv'
  OBVIOUS
<1> USE ConstantsAssumption DEF IInv, IndexInv, ProvisionedWorks, Holds, InDefineTagIndex, TypeOK, TpmTypeOK, DiskTypeOK, SetupTypeOK, HistoryTypeOK, vars, tpmVars, diskVars, memVars, setupVars, histVars
<1> USE DEF Absent, NoSecret, Missing, Torn, NoKey, Zeros, Unwritten, OddLength, LegacyAuth
<1>1. ASSUME NEW c \in Invoked, NEW o \in OwnerSecrets \cup {EmptyAuth}, SetupStart(c, o)
      PROVE IndexInv'
  BY <1>1 DEF SetupStart, TasksOf, Tasks, Rank, AttestationTasks, FullCommands
<1>2. CASE SaveTruncate
  BY <1>2 DEF SaveTruncate, At
<1>3. CASE SaveWrite
  BY <1>3 DEF SaveWrite, Completed, Exits, FullCommands
<1>4. CASE PassiveTask
  BY <1>4 DEF PassiveTask, At, Completed
<1>5. CASE DownloadPrivacyCa
  BY <1>5 DEF DownloadPrivacyCa, At, Completed
<1>6. CASE TakeOwnership
  BY <1>6 DEF TakeOwnership, At, Completed, ReturnError, Exits
<1>7. CASE DefineTagIndexBegin
  BY <1>7 DEF DefineTagIndexBegin, At, ReturnError, Exits
<1>8. CASE DefineTagIndexPanic
  BY <1>8 DEF DefineTagIndexPanic, At, Exits
<1>9. CASE NvReadExisting
  BY <1>9 DEF NvReadExisting, ReturnError, Exits
<1>10. CASE NvRelease
  BY <1>10 DEF NvRelease
<1>11. CASE NvDefine
  BY <1>11 DEF NvDefine
<1>12. CASE NvWriteTag
  BY <1>12 DEF NvWriteTag, Completed
<1>13. CASE CreateAik
  BY <1>13 DEF CreateAik, At, ReturnError, Exits
<1>14. CASE IdentityProofRequest
  BY <1>14 DEF IdentityProofRequest, ReturnError, Exits
<1>15. CASE IdentityProofResponse
  BY <1>15 DEF IdentityProofResponse
<1>16. CASE AikFileTruncate
  BY <1>16 DEF AikFileTruncate
<1>17. CASE AikFileWrite
  BY <1>17 DEF AikFileWrite, Completed
<1>18. CASE ProvisionPrimaryKey
  BY <1>18 DEF ProvisionPrimaryKey, At, Completed, ReturnError, Exits
<1>19. CASE SetupAbort
  BY <1>19 DEF SetupAbort, Exits
<1>20. CASE ClearTpm
  BY <1>20 DEF ClearTpm, Exits
<1>21. CASE Uninstall
  BY <1>21 DEF Uninstall
<1>22. ASSUME NEW s \in Secrets, NEW t \in Tags, DeployTag(s, t)
      PROVE IndexInv'
  BY <1>22 DEF DeployTag
<1>23. CASE UNCHANGED vars
  BY <1>23
<1> QED
  BY <1>1, <1>2, <1>3, <1>4, <1>5, <1>6, <1>7, <1>8, <1>9, <1>10, <1>11, <1>12, <1>13, <1>14, <1>15, <1>16, <1>17, <1>18, <1>19, <1>20, <1>21, <1>22, <1>23 DEF Next, SetupNext, SetupStep

\* KeyInv is preserved by every step.
LEMMA KeyStep == IInv /\ [Next]_vars => KeyInv'
<1> SUFFICES ASSUME IInv, [Next]_vars PROVE KeyInv'
  OBVIOUS
<1> USE ConstantsAssumption DEF IInv, KeyInv, ProvisionedWorks, Holds, InProvisionAik, TypeOK, TpmTypeOK, DiskTypeOK, SetupTypeOK, HistoryTypeOK, vars, tpmVars, diskVars, memVars, setupVars, histVars
<1> USE DEF Absent, NoSecret, Missing, Torn, NoKey, Zeros, Unwritten, OddLength, LegacyAuth
<1>1. ASSUME NEW c \in Invoked, NEW o \in OwnerSecrets \cup {EmptyAuth}, SetupStart(c, o)
      PROVE KeyInv'
  BY <1>1 DEF SetupStart, TasksOf, Tasks, Rank, AttestationTasks, FullCommands
<1>2. CASE SaveTruncate
  BY <1>2 DEF SaveTruncate, At
<1>3. CASE SaveWrite
  BY <1>3 DEF SaveWrite, Completed, Exits, FullCommands
<1>4. CASE PassiveTask
  BY <1>4 DEF PassiveTask, At, Completed
<1>5. CASE DownloadPrivacyCa
  BY <1>5 DEF DownloadPrivacyCa, At, Completed
<1>6. CASE TakeOwnership
  BY <1>6 DEF TakeOwnership, At, Completed, ReturnError, Exits
<1>7. CASE DefineTagIndexBegin
  BY <1>7 DEF DefineTagIndexBegin, At, ReturnError, Exits
<1>8. CASE DefineTagIndexPanic
  BY <1>8 DEF DefineTagIndexPanic, At, Exits
<1>9. CASE NvReadExisting
  BY <1>9 DEF NvReadExisting, ReturnError, Exits
<1>10. CASE NvRelease
  BY <1>10 DEF NvRelease
<1>11. CASE NvDefine
  BY <1>11 DEF NvDefine
<1>12. CASE NvWriteTag
  BY <1>12 DEF NvWriteTag, Completed
<1>13. CASE CreateAik
  BY <1>13 DEF CreateAik, At, ReturnError, Exits
<1>14. CASE IdentityProofRequest
  BY <1>14 DEF IdentityProofRequest, ReturnError, Exits
<1>15. CASE IdentityProofResponse
  BY <1>15 DEF IdentityProofResponse
<1>16. CASE AikFileTruncate
  BY <1>16 DEF AikFileTruncate
<1>17. CASE AikFileWrite
  BY <1>17 DEF AikFileWrite, Completed
<1>18. CASE ProvisionPrimaryKey
  BY <1>18 DEF ProvisionPrimaryKey, At, Completed, ReturnError, Exits
<1>19. CASE SetupAbort
  BY <1>19 DEF SetupAbort, Exits
<1>20. CASE ClearTpm
  BY <1>20 DEF ClearTpm, Exits
<1>21. CASE Uninstall
  BY <1>21 DEF Uninstall
<1>22. ASSUME NEW s \in Secrets, NEW t \in Tags, DeployTag(s, t)
      PROVE KeyInv'
  BY <1>22 DEF DeployTag
<1>23. CASE UNCHANGED vars
  BY <1>23
<1> QED
  BY <1>1, <1>2, <1>3, <1>4, <1>5, <1>6, <1>7, <1>8, <1>9, <1>10, <1>11, <1>12, <1>13, <1>14, <1>15, <1>16, <1>17, <1>18, <1>19, <1>20, <1>21, <1>22, <1>23 DEF Next, SetupNext, SetupStep

\* ProvisionedWorks is preserved by every step.
LEMMA ProvisionedStep == IInv /\ [Next]_vars => ProvisionedWorks'
<1> SUFFICES ASSUME IInv, [Next]_vars PROVE ProvisionedWorks'
  OBVIOUS
<1> USE ConstantsAssumption DEF IInv, ProvisionedWorks, IndexInv, KeyInv, Holds, InDefineTagIndex, InProvisionAik, TypeOK, TpmTypeOK, DiskTypeOK, SetupTypeOK, HistoryTypeOK, vars, tpmVars, diskVars, memVars, setupVars, histVars
<1> USE DEF Absent, NoSecret, Missing, Torn, NoKey, Zeros, Unwritten, OddLength, LegacyAuth
<1>1. ASSUME NEW c \in Invoked, NEW o \in OwnerSecrets \cup {EmptyAuth}, SetupStart(c, o)
      PROVE ProvisionedWorks'
  BY <1>1 DEF SetupStart
<1>2. CASE SaveTruncate
  BY <1>2 DEF SaveTruncate, At
<1>3. CASE SaveWrite
  BY <1>3 DEF SaveWrite, Completed, Exits, FullCommands
<1>4. CASE PassiveTask
  BY <1>4 DEF PassiveTask, At, Completed
<1>5. CASE DownloadPrivacyCa
  BY <1>5 DEF DownloadPrivacyCa, At, Completed
<1>6. CASE TakeOwnership
  BY <1>6 DEF TakeOwnership, At, Completed, ReturnError, Exits
<1>7. CASE DefineTagIndexBegin
  BY <1>7 DEF DefineTagIndexBegin, At, ReturnError, Exits
<1>8. CASE DefineTagIndexPanic
  BY <1>8 DEF DefineTagIndexPanic, At, Exits
<1>9. CASE NvReadExisting
  BY <1>9 DEF NvReadExisting, ReturnError, Exits
<1>10. CASE NvRelease
  BY <1>10 DEF NvRelease
<1>11. CASE NvDefine
  BY <1>11 DEF NvDefine
<1>12. CASE NvWriteTag
  BY <1>12 DEF NvWriteTag, Completed
<1>13. CASE CreateAik
  BY <1>13 DEF CreateAik, At, ReturnError, Exits
<1>14. CASE IdentityProofRequest
  BY <1>14 DEF IdentityProofRequest, ReturnError, Exits
<1>15. CASE IdentityProofResponse
  BY <1>15 DEF IdentityProofResponse
<1>16. CASE AikFileTruncate
  BY <1>16 DEF AikFileTruncate
<1>17. CASE AikFileWrite
  BY <1>17 DEF AikFileWrite, Completed
<1>18. CASE ProvisionPrimaryKey
  BY <1>18 DEF ProvisionPrimaryKey, At, Completed, ReturnError, Exits
<1>19. CASE SetupAbort
  BY <1>19 DEF SetupAbort, Exits
<1>20. CASE ClearTpm
  BY <1>20 DEF ClearTpm, Exits
<1>21. CASE Uninstall
  BY <1>21 DEF Uninstall
<1>22. ASSUME NEW s \in Secrets, NEW t \in Tags, DeployTag(s, t)
      PROVE ProvisionedWorks'
  BY <1>22 DEF DeployTag
<1>23. CASE UNCHANGED vars
  BY <1>23
<1> QED
  BY <1>1, <1>2, <1>3, <1>4, <1>5, <1>6, <1>7, <1>8, <1>9, <1>10, <1>11, <1>12, <1>13, <1>14, <1>15, <1>16, <1>17, <1>18, <1>19, <1>20, <1>21, <1>22, <1>23 DEF Next, SetupNext, SetupStep


\* The initial states satisfy the inductive invariant.
LEMMA InitIInv == Init => IInv
<1> SUFFICES ASSUME Init PROVE IInv
  OBVIOUS
<1> USE ConstantsAssumption DEF Init
<1>1. TypeOK
  <2>1. TpmTypeOK
    <3>1. nv \in [auth : Secrets \cup {NoSecret, LegacyAuth},
                  data : Tags \cup {Zeros, Unwritten, OddLength}]
      BY DEF Absent
    <3>2. owner \in OwnerSecrets \cup {EmptyAuth} /\ aik \in Keys \cup {NoKey}
      OBVIOUS
    <3>3. primary \in BOOLEAN
      OBVIOUS
    <3> QED
      BY <3>1, <3>2, <3>3 DEF TpmTypeOK
  <2>2. DiskTypeOK /\ SetupTypeOK
    BY DEF DiskTypeOK, SetupTypeOK, Locations
  <2>3. HistoryTypeOK
    BY DEF HistoryTypeOK
  <2> QED
    BY <2>1, <2>2, <2>3 DEF TypeOK
<1>2. SecretInv
  BY DEF SecretInv, SecretAgreement, Missing
<1>3. TagInv
  BY DEF TagInv, TagKept, Absent, Zeros, Unwritten, OddLength
<1>4. IndexInv /\ KeyInv /\ ProvisionedWorks
  BY DEF IndexInv, KeyInv, ProvisionedWorks, InDefineTagIndex, InProvisionAik
<1> QED
  BY <1>1, <1>2, <1>3, <1>4 DEF IInv

\* The inductive invariant holds in every reachable state.
THEOREM Invariance == Spec => []IInv
<1>1. IInv /\ [Next]_vars => IInv'
  BY TypeStep, SecretStep, TagStep, IndexStep, KeyStep, ProvisionedStep DEF IInv
<1> QED
  BY InitIInv, <1>1, PTL DEF Spec

\* Every variable of the provisioning keeps its type.
THEOREM TypeCorrect == Spec => []TypeOK
<1>1. IInv => TypeOK
  BY DEF IInv
<1> QED
  BY Invariance, <1>1, PTL

\* For any number of setup runs, failures, TPM clears and uninstallations, a
\* tag secret saved in config.yml opens the tag index if there is one: the
\* service never finds itself locked out by a run that died half-way.
THEOREM SavedSecretOpensIndex == Spec => []SecretAgreement
<1>1. IInv => SecretAgreement
  BY DEF IInv, SecretInv
<1> QED
  BY Invariance, <1>1, PTL

\* define-tag-index carries the acknowledged tag forward: it is lost only when
\* a failure or a deployment falls between NvRead and NvWrite.
THEOREM TagCarried == Spec => []TagKept
<1>1. IInv => TagKept
  BY DEF IInv, TagInv
<1> QED
  BY Invariance, <1>1, PTL

\* Exit status 0 of a full provisioning means that quotes will verify: the
\* saved secret opens a written index and aik.pem certifies the TPM's key.
THEOREM SuccessMeansProvisioned == Spec => []ProvisionedWorks
<1>1. IInv => ProvisionedWorks
  BY DEF IInv
<1> QED
  BY Invariance, <1>1, PTL
=============================================================================

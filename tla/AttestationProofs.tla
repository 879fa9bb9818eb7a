-------------------------- MODULE AttestationProofs -------------------------
(***************************************************************************)
(* Proofs about the service running beside `tagent setup`: together they   *)
(* implement Provisioning, an undisturbed quote of a provisioned host      *)
(* verifies, and the promise of AssetTag is kept.                          *)
(***************************************************************************)
EXTENDS Attestation, ProvisioningProofs

\* Only tags that HVS sent are written.
WriteInv == \A r \in Requests : req[r].at = "write" => req[r].tag \in Tags

ServiceInv == ServiceTypeOK /\ WriteInv

\* A host whose tag was never deployed does not hold one.
CarryInv ==
  /\ acked = Zeros => nv.data \notin Tags /\ newAssetTag \notin Tags
  /\ pc = "idle" => newAssetTag = Zeros

\* What a request that no setup process overlapped knows: nothing but another
\* request has changed the TPM or the files since it began.
Undisturbed(r) ==
  /\ pc = "idle"
  /\ req[r].at \in {"certificate", "reply"} => req[r].key = aik
  /\ req[r].at = "reply" => req[r].cert = aikPem
  /\ acked \in current[r]
  /\ disturbed => Tags \cup {Zeros} \subseteq current[r]
  /\ provisioned /\ req[r].at \in {"sign", "certificate", "reply"}
       => req[r].tag \in current[r]

QuietInv == \A r \in Requests : current[r] # {} => Undisturbed(r)

\* The service's own invariant needs nothing of the setup process but its
\* types.
LEMMA ServiceStep ==
  TypeOK /\ ServiceInv /\ [AttestationNext]_allVars => ServiceInv'
<1> SUFFICES ASSUME TypeOK, ServiceInv, [AttestationNext]_allVars PROVE ServiceInv'
  OBVIOUS
<1> USE ConstantsAssumption DEF ServiceInv, ServiceTypeOK, WriteInv, Request, NoRequest
<1>1. CASE ServiceStart
  BY <1>1 DEF ServiceStart
<1>2. CASE ServiceStop
  BY <1>2 DEF ServiceStop, NoService
<1>3. ASSUME NEW r \in Requests, QuoteBegin(r) PROVE ServiceInv'
  BY <1>3 DEF QuoteBegin, CurrentTags, TypeOK, HistoryTypeOK
<1>4. ASSUME NEW r \in Requests, QuoteReadTag(r) PROVE ServiceInv'
  BY <1>4 DEF QuoteReadTag, Put, RequestFails, Returns
<1>5. ASSUME NEW r \in Requests, QuoteSign(r) PROVE ServiceInv'
  BY <1>5 DEF QuoteSign, Put, RequestFails, Returns
<1>6. ASSUME NEW r \in Requests, QuoteReadCertificate(r) PROVE ServiceInv'
  BY <1>6 DEF QuoteReadCertificate, Put, RequestFails, Returns, TypeOK, DiskTypeOK
<1>7. ASSUME NEW r \in Requests, QuoteReply(r) PROVE ServiceInv'
  BY <1>7 DEF QuoteReply, Returns
<1>8. ASSUME NEW r \in Requests, NEW t \in Tags, DeployBegin(r, t) PROVE ServiceInv'
  BY <1>8 DEF DeployBegin, Put
<1>9. ASSUME NEW r \in Requests, DeployWrite(r) PROVE ServiceInv'
  <2>1. /\ svc' = svc
        /\ req' = [req EXCEPT ![r] = NoRequest]
        /\ \/ current' = [x \in Requests |->
                            IF current[x] = {} THEN {} ELSE current[x] \cup {req[r].tag}]
           \/ current' = [current EXCEPT ![r] = {}]
    BY <1>9 DEF DeployWrite, RequestFails, Returns
  <2>2. req[r].tag \in Tags
    BY <1>9 DEF DeployWrite
  <2>3. current' \in [Requests -> SUBSET (Tags \cup {Zeros})]
    <3>1. CASE current' = [current EXCEPT ![r] = {}]
      BY <3>1
    <3>2. CASE current' = [x \in Requests |->
                            IF current[x] = {} THEN {} ELSE current[x] \cup {req[r].tag}]
      BY <3>2, <2>2
    <3> QED
      BY <2>1, <3>1, <3>2
  <2>4. ServiceTypeOK'
    BY <2>1, <2>3
  <2>5. WriteInv'
    BY <2>1
  <2> QED
    BY <2>4, <2>5
<1>10. CASE SetupBesideService
  BY <1>10 DEF SetupBesideService
<1>11. CASE ServiceEnds
  BY <1>11 DEF ServiceEnds, NoService
<1>12. CASE UNCHANGED allVars
  BY <1>12 DEF allVars, serviceVars
<1> QED
  BY <1>1, <1>2, <1>3, <1>4, <1>5, <1>6, <1>7, <1>8, <1>9, <1>10, <1>11, <1>12
  DEF AttestationNext, RequestStep

\* Every step of the service and of setup beside it is a step of Provisioning
\* or leaves its variables alone.
LEMMA StepSimulation ==
  ServiceInv /\ [AttestationNext]_allVars => [Next]_vars
<1> SUFFICES ASSUME ServiceInv, [AttestationNext]_allVars PROVE [Next]_vars
  OBVIOUS
<1>1. CASE ServiceStart \/ ServiceStop
  BY <1>1 DEF ServiceStart, ServiceStop
<1>2. ASSUME NEW r \in Requests, QuoteBegin(r) \/ QuoteReadTag(r) \/ QuoteSign(r)
                \/ QuoteReadCertificate(r) \/ QuoteReply(r)
      PROVE UNCHANGED vars
  BY <1>2 DEF QuoteBegin, QuoteReadTag, QuoteSign, QuoteReadCertificate, QuoteReply, Put,
              RequestFails
<1>3. ASSUME NEW r \in Requests, NEW t \in Tags, DeployBegin(r, t) PROVE UNCHANGED vars
  BY <1>3 DEF DeployBegin, Put
<1>4. ASSUME NEW r \in Requests, DeployWrite(r) PROVE [Next]_vars
  <2>1. CASE DeployTag(svc, req[r].tag)
    <3>1. svc \in Secrets /\ req[r].tag \in Tags
      BY <1>4, <2>1 DEF DeployWrite, DeployTag, ServiceInv, WriteInv
    <3> QED
      BY <2>1, <3>1 DEF Next
  <2>2. CASE UNCHANGED vars
    BY <2>2
  <2> QED
    BY <1>4, <2>1, <2>2 DEF DeployWrite, RequestFails
<1>5. CASE SetupBesideService
  BY <1>5 DEF SetupBesideService, Next
<1>6. CASE ServiceEnds
  BY <1>6 DEF ServiceEnds, Next
<1>7. CASE UNCHANGED allVars
  BY <1>7 DEF allVars
<1> QED
  BY <1>1, <1>2, <1>3, <1>4, <1>5, <1>6, <1>7 DEF AttestationNext, RequestStep

\* A tag only enters the index, or the memory of define-tag-index, from an
\* index that holds it already or by an acknowledged deployment.
LEMMA CarryStep == TypeOK /\ CarryInv /\ [Next]_vars => CarryInv'
<1> SUFFICES ASSUME TypeOK, CarryInv, [Next]_vars PROVE CarryInv'
  OBVIOUS
<1> USE ConstantsAssumption DEF CarryInv, Absent, vars, tpmVars, diskVars, memVars, setupVars, histVars
<1>1. ASSUME NEW c \in Invoked, NEW o \in OwnerSecrets \cup {EmptyAuth}, SetupStart(c, o)
      PROVE CarryInv'
  BY <1>1 DEF SetupStart
<1>2. CASE SaveTruncate \/ SaveWrite
  BY <1>2 DEF SaveTruncate, SaveWrite, At, Completed, Exits
<1>3. CASE PassiveTask \/ DownloadPrivacyCa \/ TakeOwnership
  BY <1>3 DEF PassiveTask, DownloadPrivacyCa, TakeOwnership, At, Completed, ReturnError, Exits
<1>4. CASE DefineTagIndexBegin
  BY <1>4 DEF DefineTagIndexBegin, At, ReturnError, Exits
<1>5. CASE DefineTagIndexPanic
  BY <1>5 DEF DefineTagIndexPanic, Exits
<1>6. CASE NvReadExisting
  BY <1>6 DEF NvReadExisting, ReturnError, Exits
<1>7. CASE NvRelease \/ NvDefine
  BY <1>7 DEF NvRelease, NvDefine
<1>8. CASE NvWriteTag
  BY <1>8 DEF NvWriteTag, Completed
<1>9. CASE CreateAik \/ IdentityProofRequest \/ IdentityProofResponse
  BY <1>9 DEF CreateAik, IdentityProofRequest, IdentityProofResponse, At, ReturnError, Exits
<1>10. CASE AikFileTruncate \/ AikFileWrite
  BY <1>10 DEF AikFileTruncate, AikFileWrite, Completed
<1>11. CASE ProvisionPrimaryKey
  BY <1>11 DEF ProvisionPrimaryKey, At, Completed, ReturnError, Exits
<1>12. CASE SetupAbort
  BY <1>12 DEF SetupAbort, Exits
<1>13. ASSUME NEW s \in Secrets, NEW t \in Tags, DeployTag(s, t) PROVE CarryInv'
  BY <1>13 DEF DeployTag
<1>14. CASE ClearTpm
  BY <1>14 DEF ClearTpm, Exits
<1>15. CASE Uninstall
  BY <1>15 DEF Uninstall
<1>16. CASE UNCHANGED vars
  BY <1>16
<1> QED
  BY <1>1, <1>2, <1>3, <1>4, <1>5, <1>6, <1>7, <1>8, <1>9, <1>10, <1>11, <1>12, <1>13,
     <1>14, <1>15, <1>16 DEF Next, SetupNext, SetupStep

\* A provisioned host that is not being set up holds a tag that HVS may count
\* on.
LEMMA ReadableTagIsCurrent ==
  ASSUME IInv, CarryInv, pc = "idle", nv.data \in Tags \cup {Zeros}
  PROVE  nv.data \in CurrentTags
BY ConstantsAssumption
DEF IInv, TagInv, TagKept, CarryInv, CurrentTags, TypeOK, HistoryTypeOK

\* The knowledge of an undisturbed request survives every step of the service
\* and of the other requests; a step of setup ends it.
LEMMA QuietStep ==
  IInv /\ CarryInv /\ ServiceInv /\ QuietInv /\ [AttestationNext]_allVars => QuietInv'
<1> SUFFICES ASSUME IInv, CarryInv, ServiceInv, QuietInv, [AttestationNext]_allVars
             PROVE QuietInv'
  OBVIOUS
<1> USE ConstantsAssumption
    DEF ServiceInv, ServiceTypeOK, WriteInv, QuietInv, Undisturbed, Request, NoRequest,
        vars, tpmVars, diskVars, memVars, setupVars, histVars
<1>1. CASE ServiceStart
  BY <1>1 DEF ServiceStart
<1>2. CASE ServiceStop
  BY <1>2 DEF ServiceStop, NoService
<1>3. ASSUME NEW r \in Requests, QuoteBegin(r) PROVE QuietInv'
  <2>1. provisioned /\ pc = "idle" => nv # Absent
    BY DEF IInv, ProvisionedWorks, Absent
  <2>2. current'[r] # {} => Undisturbed(r)'
    <3> SUFFICES ASSUME current'[r] # {} PROVE Undisturbed(r)'
      OBVIOUS
    <3>1. pc = "idle" /\ current'[r] = CurrentTags /\ UNCHANGED vars
      BY <1>3 DEF QuoteBegin
    <3>2. /\ req'[r].at \in {"read", "sign"} /\ req'[r].tag = Zeros
          /\ req'[r].at = "sign" => ~provisioned
      BY <1>3, <2>1, <3>1 DEF QuoteBegin
    <3>3. acked \in CurrentTags /\ (disturbed => Tags \cup {Zeros} \subseteq CurrentTags)
      BY DEF CurrentTags, IInv, TypeOK, HistoryTypeOK
    <3> QED
      BY <3>1, <3>2, <3>3
  <2>3. ASSUME NEW x \in Requests, x # r, current'[x] # {} PROVE Undisturbed(x)'
    BY <1>3, <2>3 DEF QuoteBegin
  <2> QED
    BY <2>2, <2>3
<1>4. ASSUME NEW r \in Requests, QuoteReadTag(r) PROVE QuietInv'
  <2>1. CASE RequestFails(r)
    BY <2>1 DEF RequestFails, Returns
  <2>2. CASE nv.data \in Tags \cup {Zeros} /\ Put(r, Request("sign", nv.data, NoKey, Missing))
    <3>1. current[r] # {} => nv.data \in current[r]
      BY <2>2, ReadableTagIsCurrent DEF CurrentTags
    <3> QED
      BY <2>2, <3>1 DEF Put
  <2> QED
    BY <1>4, <2>1, <2>2 DEF QuoteReadTag
<1>5. ASSUME NEW r \in Requests, QuoteSign(r) PROVE QuietInv'
  BY <1>5 DEF QuoteSign, Put, RequestFails, Returns
<1>6. ASSUME NEW r \in Requests, QuoteReadCertificate(r) PROVE QuietInv'
  BY <1>6 DEF QuoteReadCertificate, Put, RequestFails, Returns
<1>7. ASSUME NEW r \in Requests, QuoteReply(r) PROVE QuietInv'
  BY <1>7 DEF QuoteReply, Returns
<1>8. ASSUME NEW r \in Requests, NEW t \in Tags, DeployBegin(r, t) PROVE QuietInv'
  BY <1>8 DEF DeployBegin, Put
<1>9. ASSUME NEW r \in Requests, DeployWrite(r) PROVE QuietInv'
  <2>1. CASE RequestFails(r)
    BY <2>1 DEF RequestFails, Returns
  <2>2. CASE ~RequestFails(r)
    <3> SUFFICES ASSUME NEW x \in Requests, current'[x] # {} PROVE Undisturbed(x)'
      OBVIOUS
    <3>1. /\ current[x] # {} /\ current'[x] = current[x] \cup {req[r].tag}
          /\ acked' = req[r].tag
          /\ disturbed' = (pc \in {"dtRelease", "dtWrite"})
          /\ pc' = pc /\ aik' = aik /\ aikPem' = aikPem /\ provisioned' = provisioned
      BY <1>9, <2>2 DEF DeployWrite, DeployTag
    <3>2. req'[x] = IF x = r THEN NoRequest ELSE req[x]
      BY <1>9, <2>2 DEF DeployWrite
    <3>3. ~disturbed'
      BY <3>1
    <3> QED
      BY <3>1, <3>2, <3>3
  <2> QED
    BY <2>1, <2>2
<1>10. CASE SetupBesideService
  BY <1>10 DEF SetupBesideService
<1>11. CASE ServiceEnds
  BY <1>11 DEF ServiceEnds, NoService
<1>12. CASE UNCHANGED allVars
  BY <1>12 DEF allVars, serviceVars
<1> QED
  BY <1>1, <1>2, <1>3, <1>4, <1>5, <1>6, <1>7, <1>8, <1>9, <1>10, <1>11, <1>12
  DEF AttestationNext, RequestStep

AInv == IInv /\ CarryInv /\ ServiceInv /\ QuietInv

\* The inductive invariant of the service and setup together.
THEOREM AttestationInvariance == AttestationSpec => []AInv
<1>1. AttestationInit => AInv
  <2> SUFFICES ASSUME AttestationInit PROVE AInv
    OBVIOUS
  <2>1. IInv
    BY InitIInv DEF AttestationInit
  <2>2. CarryInv
    BY ConstantsAssumption DEF AttestationInit, Init, CarryInv
  <2>3. ServiceInv
    BY DEF AttestationInit, ServiceInv, ServiceTypeOK, WriteInv, Request, NoRequest
  <2>4. QuietInv
    BY DEF AttestationInit, QuietInv
  <2> QED
    BY <2>1, <2>2, <2>3, <2>4 DEF AInv
<1>2. AInv /\ [AttestationNext]_allVars => AInv'
  <2> SUFFICES ASSUME AInv, [AttestationNext]_allVars PROVE AInv'
    OBVIOUS
  <2>1. TypeOK
    BY DEF AInv, IInv
  <2>2. [Next]_vars
    BY StepSimulation DEF AInv
  <2>3. IInv'
    BY <2>2, TypeStep, SecretStep, TagStep, IndexStep, KeyStep, ProvisionedStep DEF AInv, IInv
  <2>4. CarryInv'
    BY <2>1, <2>2, CarryStep DEF AInv
  <2>5. ServiceInv'
    BY <2>1, ServiceStep DEF AInv
  <2>6. QuietInv'
    BY QuietStep DEF AInv
  <2> QED
    BY <2>3, <2>4, <2>5, <2>6 DEF AInv
<1> QED
  BY <1>1, <1>2, PTL DEF AttestationSpec

\* The service beside setup implements Provisioning: whatever requests it
\* serves, it changes the TPM only as DeployTag may, so every theorem of
\* ProvisioningProofs holds with the service running.
THEOREM ServiceImplementsProvisioning == AttestationSpec => Spec
<1>1. AttestationInit => Init
  BY DEF AttestationInit
<1>2. AInv /\ [AttestationNext]_allVars => [Next]_vars
  BY StepSimulation DEF AInv
<1> QED
  BY <1>1, <1>2, AttestationInvariance, PTL DEF AttestationSpec, Spec

\* The variables of the service keep their types.
THEOREM ServiceTypeCorrect == AttestationSpec => []ServiceTypeOK
<1>1. AInv => ServiceTypeOK
  BY DEF AInv, ServiceInv
<1> QED
  BY AttestationInvariance, <1>1, PTL

\* On a provisioned host a quote that overlapped no setup process carries the
\* certificate of the key that signed it and a tag that was deployed at some
\* moment of the request, for any number of concurrent requests.
THEOREM UndisturbedQuotesVerify == AttestationSpec => []QuoteVerifies
<1>1. AInv => QuoteVerifies
  BY DEF AInv, IInv, ProvisionedWorks, QuietInv, Undisturbed, QuoteVerifies, Verifies
<1> QED
  BY AttestationInvariance, <1>1, PTL

-----------------------------------------------------------------------------
(***************************************************************************)
(* `tagent setup`, alone and with the service running beside it,           *)
(* implements the promise of AssetTag under the mapping TagPromise of      *)
(* Provisioning.                                                           *)
(***************************************************************************)

\* What the mapping needs beyond the invariant of Provisioning: between NvRead
\* and NvRelease the tag that is carried is the one that is about to go, unless
\* a deployment came in between.
CarriedTagInv == pc = "dtRelease" /\ ~disturbed => newAssetTag = HostTag

RefinementInv == IInv /\ CarriedTagInv

\* CarriedTagInv is preserved by every step.
LEMMA CarriedTagStep == RefinementInv /\ [Next]_vars => CarriedTagInv'
<1> SUFFICES ASSUME RefinementInv, [Next]_vars, pc' = "dtRelease", ~disturbed'
             PROVE newAssetTag' = HostTag'
  BY DEF CarriedTagInv
<1> USE ConstantsAssumption
    DEF RefinementInv, CarriedTagInv, HostTag, vars, tpmVars, diskVars, memVars, setupVars, histVars
<1>1. CASE \E c \in Invoked, o \in OwnerSecrets \cup {EmptyAuth} : SetupStart(c, o)
  BY <1>1 DEF SetupStart
<1>2. CASE SaveTruncate \/ SaveWrite
  BY <1>2 DEF SaveTruncate, SaveWrite, Completed, Exits
<1>3. CASE PassiveTask \/ DownloadPrivacyCa \/ TakeOwnership
  BY <1>3 DEF PassiveTask, DownloadPrivacyCa, TakeOwnership, Completed, ReturnError, Exits
<1>4. CASE DefineTagIndexBegin \/ DefineTagIndexPanic
  BY <1>4 DEF DefineTagIndexBegin, DefineTagIndexPanic, ReturnError, Exits
<1>5. CASE NvReadExisting
  BY <1>5 DEF NvReadExisting, ReturnError, Exits, IInv, TypeOK, TpmTypeOK
<1>6. CASE NvRelease \/ NvDefine \/ NvWriteTag
  BY <1>6 DEF NvRelease, NvDefine, NvWriteTag, Completed
<1>7. CASE CreateAik \/ IdentityProofRequest \/ IdentityProofResponse
  BY <1>7 DEF CreateAik, IdentityProofRequest, IdentityProofResponse, ReturnError, Exits
<1>8. CASE AikFileTruncate \/ AikFileWrite \/ ProvisionPrimaryKey
  BY <1>8 DEF AikFileTruncate, AikFileWrite, ProvisionPrimaryKey, Completed, ReturnError, Exits
<1>9. CASE SetupAbort
  BY <1>9 DEF SetupAbort, Exits
<1>10. CASE \E s \in Secrets, t \in Tags : DeployTag(s, t)
  BY <1>10 DEF DeployTag
<1>11. CASE ClearTpm \/ Uninstall
  BY <1>11 DEF ClearTpm, Uninstall, Exits
<1>12. CASE UNCHANGED vars
  BY <1>12
<1> QED
  BY <1>1, <1>2, <1>3, <1>4, <1>5, <1>6, <1>7, <1>8, <1>9, <1>10, <1>11, <1>12
  DEF Next, SetupNext, SetupStep

\* A host whose index was not touched, and whose setup process is not between
\* NvRelease and NvWrite before or after the step, keeps its tag.
LEMMA TagUntouched ==
  ASSUME nv' = nv, disturbed' = disturbed,
         pc \notin {"dtRelease", "dtDefine", "dtWrite"},
         pc' \notin {"dtRelease", "dtDefine", "dtWrite"}
  PROVE  UNCHANGED TagPromise!vars
BY DEF TagPromise!vars, HostTag

\* Every step of setup and of its environment is a step of AssetTag or leaves
\* the mapped variables alone.
LEMMA TagStepSimulation ==
  RefinementInv /\ [Next]_vars => [TagPromise!Next]_TagPromise!vars
<1> SUFFICES ASSUME RefinementInv, [Next]_vars
             PROVE  TagPromise!Next \/ UNCHANGED TagPromise!vars
  OBVIOUS
<1> USE ConstantsAssumption
    DEF RefinementInv, vars, tpmVars, diskVars, memVars, setupVars, histVars
<1>1. CASE \E c \in Invoked, o \in OwnerSecrets \cup {EmptyAuth} : SetupStart(c, o)
  BY <1>1, TagUntouched DEF SetupStart
<1>2. CASE SaveTruncate \/ SaveWrite
  BY <1>2, TagUntouched DEF SaveTruncate, SaveWrite, Completed, Exits
<1>3. CASE PassiveTask \/ DownloadPrivacyCa \/ TakeOwnership
  BY <1>3, TagUntouched
  DEF PassiveTask, DownloadPrivacyCa, TakeOwnership, At, Completed, ReturnError, Exits
<1>4. CASE DefineTagIndexBegin
  <2>1. CASE pc' = "dtDefine"
    <3>1. pc = "task" /\ nv = Absent /\ newAssetTag' = Zeros /\ disturbed' = disturbed
      BY <1>4, <2>1 DEF DefineTagIndexBegin, At, ReturnError, Exits
    <3>2. HostTag = Zeros /\ HostTag' = Zeros
      BY <2>1, <3>1 DEF HostTag, Absent
    <3>3. TagPromise!Begin
      BY <2>1, <3>1, <3>2 DEF TagPromise!Begin
    <3> QED
      BY <3>3 DEF TagPromise!Next
  <2>2. CASE pc' # "dtDefine"
    BY <1>4, <2>2, TagUntouched DEF DefineTagIndexBegin, At, ReturnError, Exits
  <2> QED
    BY <2>1, <2>2
<1>5. CASE DefineTagIndexPanic
  BY <1>5, TagUntouched DEF DefineTagIndexPanic, At, Exits
<1>6. CASE NvReadExisting
  <2>1. CASE pc' = "dtRelease"
    <3>1. pc = "dtRead" /\ nv' = nv /\ disturbed' = disturbed
      BY <1>6, <2>1 DEF NvReadExisting, ReturnError, Exits
    <3>2. HostTag' = HostTag
      BY <2>1, <3>1 DEF HostTag
    <3>3. TagPromise!Begin
      BY <2>1, <3>1, <3>2 DEF TagPromise!Begin
    <3> QED
      BY <3>3 DEF TagPromise!Next
  <2>2. CASE pc' # "dtRelease"
    BY <1>6, <2>2, TagUntouched DEF NvReadExisting, ReturnError, Exits
  <2> QED
    BY <2>1, <2>2
<1>7. CASE NvRelease
  <2>1. /\ pc = "dtRelease" /\ pc' = "dtDefine"
        /\ newAssetTag' = newAssetTag /\ disturbed' = disturbed
    BY <1>7 DEF NvRelease
  <2>2. HostTag' = newAssetTag /\ newAssetTag \in Tags \cup {Zeros}
    BY <2>1 DEF HostTag, IInv, TypeOK, SetupTypeOK
  <2>3. CASE disturbed
    <3>1. TagPromise!Overwrite
      BY <2>1, <2>2, <2>3 DEF TagPromise!Overwrite, TagPromise!TagsOrNone
    <3> QED
      BY <3>1 DEF TagPromise!Next
  <2>4. CASE ~disturbed
    BY <2>1, <2>2, <2>4 DEF CarriedTagInv, TagPromise!vars
  <2> QED
    BY <2>3, <2>4
<1>8. CASE NvDefine
  <2>1. /\ pc = "dtDefine" /\ pc' = "dtWrite"
        /\ newAssetTag' = newAssetTag /\ disturbed' = disturbed
    BY <1>8 DEF NvDefine
  <2> QED
    BY <2>1 DEF HostTag, TagPromise!vars
<1>9. CASE NvWriteTag
  <2>1. /\ pc = "dtWrite" /\ pc' = "task" /\ nv'.data = newAssetTag
        /\ disturbed' = disturbed
    BY <1>9 DEF NvWriteTag, Completed
  <2>2. HostTag' = HostTag
    BY <2>1 DEF HostTag, IInv, TypeOK, SetupTypeOK
  <2>3. TagPromise!End
    BY <2>1, <2>2 DEF TagPromise!End
  <2> QED
    BY <2>3 DEF TagPromise!Next
<1>10. CASE CreateAik \/ IdentityProofRequest \/ IdentityProofResponse
  BY <1>10, TagUntouched
  DEF CreateAik, IdentityProofRequest, IdentityProofResponse, At, ReturnError, Exits
<1>11. CASE AikFileTruncate \/ AikFileWrite \/ ProvisionPrimaryKey
  BY <1>11, TagUntouched
  DEF AikFileTruncate, AikFileWrite, ProvisionPrimaryKey, At, Completed, ReturnError, Exits
<1>12. CASE SetupAbort
  <2>1. /\ pc' = "idle" /\ nv' = nv
        /\ disturbed' = (disturbed \/ pc \in {"dtDefine", "dtWrite"})
    BY <1>12 DEF SetupAbort, Exits
  <2>2. HostTag' \in Tags \cup {Zeros}
    BY <2>1 DEF HostTag
  <2>3. CASE pc \in {"dtDefine", "dtWrite"}
    <3>1. disturbed' = TRUE
      BY <2>1, <2>3
    <3>2. TagPromise!Fail
      BY <2>1, <2>2, <2>3, <3>1 DEF TagPromise!Fail, TagPromise!TagsOrNone
    <3> QED
      BY <3>2 DEF TagPromise!Next
  <2>4. CASE pc \notin {"dtDefine", "dtWrite"}
    <3>1. disturbed' = disturbed
      BY <2>1, <2>4 DEF IInv, TypeOK, HistoryTypeOK
    <3>2. HostTag' = HostTag
      BY <2>1, <2>4 DEF HostTag
    <3>3. CASE pc = "dtRelease"
      <4>1. TagPromise!End
        BY <2>1, <3>1, <3>2, <3>3 DEF TagPromise!End
      <4> QED
        BY <4>1 DEF TagPromise!Next
    <3>4. CASE pc # "dtRelease"
      BY <2>1, <2>4, <3>1, <3>4, TagUntouched
    <3> QED
      BY <3>3, <3>4
  <2> QED
    BY <2>3, <2>4
<1>13. ASSUME NEW s \in Secrets, NEW t \in Tags, DeployTag(s, t)
       PROVE  TagPromise!Next
  <2>1. /\ pc' = pc /\ nv.auth \in Secrets /\ nv'.data = t /\ newAssetTag' = newAssetTag
        /\ disturbed' = (pc \in {"dtRelease", "dtWrite"})
    BY <1>13 DEF DeployTag
  <2>2. pc # "dtDefine"
    BY <2>1 DEF IInv, TagInv, Absent
  <2>3. CASE pc \in {"dtRelease", "dtWrite"}
    <3>1. disturbed' = TRUE
      BY <2>1, <2>3
    <3>2. HostTag' \in {HostTag, t}
      BY <2>1, <2>3 DEF HostTag
    <3>3. TagPromise!DeployWhileReplacing(t)
      BY <2>1, <2>3, <3>1, <3>2 DEF TagPromise!DeployWhileReplacing
    <3> QED
      BY <3>3 DEF TagPromise!Next
  <2>4. CASE pc \notin {"dtRelease", "dtWrite"}
    <3>1. disturbed' = FALSE
      <4>1. (pc \in {"dtRelease", "dtWrite"}) = FALSE
        BY <2>4
      <4> QED
        BY <2>1, <4>1
    <3>2. HostTag' = t
      BY <2>1, <2>2, <2>4 DEF HostTag
    <3>3. TagPromise!Deploy(t)
      BY <2>1, <2>2, <2>4, <3>1, <3>2 DEF TagPromise!Deploy
    <3> QED
      BY <3>3 DEF TagPromise!Next
  <2> QED
    BY <2>3, <2>4
<1>14. CASE ClearTpm
  <2>1. pc' = "idle" /\ nv' = Absent /\ disturbed' = FALSE
    BY <1>14 DEF ClearTpm, Exits
  <2>2. HostTag' = Zeros
    BY <2>1 DEF HostTag, Absent
  <2>3. TagPromise!Clear
    BY <2>1, <2>2 DEF TagPromise!Clear
  <2> QED
    BY <2>3 DEF TagPromise!Next
<1>15. CASE Uninstall
  BY <1>15, TagUntouched DEF Uninstall
<1>16. CASE UNCHANGED vars
  BY <1>16 DEF TagPromise!vars, HostTag
<1> QED
  BY <1>1, <1>2, <1>3, <1>4, <1>5, <1>6, <1>7, <1>8, <1>9, <1>10, <1>11, <1>12, <1>13,
     <1>14, <1>15, <1>16 DEF Next, SetupNext, SetupStep

\* Setup implements AssetTag, for all sets of tags, secrets and commands: the
\* host's tag changes only by a deployment, by clearing the TPM, or in doubt
\* (define_tag_index.go carries the tag over the replacement of the index).
THEOREM SetupImplementsAssetTag == Spec => ImplementsAssetTag
<1>1. Init => TagPromise!Init
  <2> SUFFICES ASSUME Init PROVE TagPromise!Init
    OBVIOUS
  <2>1. pc = "idle" /\ disturbed = FALSE
    BY DEF Init
  <2> QED
    BY <2>1 DEF TagPromise!Init, TagPromise!TagsOrNone, HostTag
<1>2. Init => CarriedTagInv
  BY DEF Init, CarriedTagInv
<1>3. RefinementInv /\ [Next]_vars => RefinementInv'
  BY TypeStep, SecretStep, TagStep, IndexStep, KeyStep, ProvisionedStep, CarriedTagStep
  DEF IInv, RefinementInv
<1>4. Init => RefinementInv
  BY <1>2, InitIInv DEF RefinementInv
<1> QED
  BY <1>1, <1>3, <1>4, TagStepSimulation, PTL DEF Spec, ImplementsAssetTag, TagPromise!Spec

\* The promise holds as well with the service running beside setup and serving
\* any number of quote and deployment requests.
THEOREM ServiceImplementsAssetTag == AttestationSpec => ImplementsAssetTag
BY ServiceImplementsProvisioning, SetupImplementsAssetTag, PTL
=============================================================================

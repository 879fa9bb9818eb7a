---------------------------- MODULE Attestation -----------------------------
(***************************************************************************)
(* The agent service answering quote and deploy-asset-tag requests while   *)
(* `tagent setup` may be running.  The service loads config.yml once, when *)
(* it starts; each request is served by its own goroutine, one TPM command *)
(* or file read at a time, so a request sees the TPM and aik.pem at        *)
(* several moments of a provisioning.                                      *)
(***************************************************************************)
EXTENDS Provisioning

CONSTANT Requests   \* requests that can be in progress at the same time

VARIABLES
  svc,      \* Tpm.TagSecretKey the service process loaded, or Down
  req,      \* the requests in progress
  current   \* history: the tags that were the deployed one at some moment of a
            \* quote request; none once a setup process overlapped the request

serviceVars == <<svc, req, current>>
allVars     == <<vars, serviceVars>>

Down == "down"

\* at: the next thing the handler does.  tag, key, cert: what it has collected
\* (for a deployment, tag is the one to write).
Request(at, tag, key, cert) == [at |-> at, tag |-> tag, key |-> key, cert |-> cert]

NoRequest == Request("none", Zeros, NoKey, Missing)

\* The handler of r goes on with its own data.
Put(r, value) ==
  /\ req' = [req EXCEPT ![r] = value]
  /\ UNCHANGED <<vars, svc, current>>

\* The handler of r returns.
Returns(r) ==
  /\ req' = [req EXCEPT ![r] = NoRequest]
  /\ current' = [current EXCEPT ![r] = {}]
  /\ UNCHANGED svc

\* It returns an error: no quote, no acknowledgement.
RequestFails(r) == Returns(r) /\ UNCHANGED vars

-----------------------------------------------------------------------------
(* The service process.                                                     *)

\* main refuses a torn config.yml, NewTrustAgentService a blank one.
ServiceStart ==
  /\ svc = Down
  /\ config \in Secrets \cup {NoSecret}
  /\ svc' = config
  /\ UNCHANGED <<vars, req, current>>

NoService ==
  /\ svc' = Down
  /\ req' = [r \in Requests |-> NoRequest]
  /\ current' = [r \in Requests |-> {}]

\* Stopped or crashed; requests in progress get no answer.
ServiceStop ==
  /\ svc # Down
  /\ NoService
  /\ UNCHANGED vars

-----------------------------------------------------------------------------
(* CreateTpmQuoteResponse.                                                  *)

\* The tag that HVS may count on: the acknowledged one, or any if it was lost.
CurrentTags == IF disturbed THEN Tags \cup {Zeros} ELSE {acked}

\* getAssetTags: NvIndexExists.  Without the index there is no tag.
QuoteBegin(r) ==
  /\ svc # Down
  /\ req[r].at = "none"
  /\ req' = [req EXCEPT ![r] =
               Request(IF nv = Absent THEN "sign" ELSE "read", Zeros, NoKey, Missing)]
  /\ current' = [current EXCEPT ![r] = IF pc = "idle" THEN CurrentTags ELSE {}]
  /\ UNCHANGED <<vars, svc>>

\* Mutant of QuoteReadTag: an index that was never written is read as a tag.
QuoteReadUnwritten(r) ==
  /\ req[r].at = "read"
  /\ nv.auth = svc
  /\ Put(r, Request("sign", nv.data, NoKey, Missing))

\* Mutant of QuoteReadTag: an error of NvRead is reported as "no tag".
QuoteReadErrorIgnored(r) ==
  /\ req[r].at = "read"
  /\ Put(r, Request("sign", IF nv.auth = svc /\ nv.data \in Tags THEN nv.data ELSE Zeros,
                    NoKey, Missing))

\* getAssetTags: NvRead with the secret the service loaded.
QuoteReadTag(r) ==
  /\ req[r].at = "read"
  /\ \/ /\ nv.auth = svc /\ nv.data \in Tags \cup {Zeros}
        /\ Put(r, Request("sign", nv.data, NoKey, Missing))
     \/ /\ ~(nv.auth = svc /\ nv.data \in Tags \cup {Zeros})
        /\ RequestFails(r)

\* getNonce and getQuote: the TPM signs the nonce, extended with the tag that
\* was read, with the key it holds now.
QuoteSign(r) ==
  /\ req[r].at = "sign"
  /\ \/ /\ aik \in Keys
        /\ Put(r, Request("certificate", req[r].tag, aik, Missing))
     \/ aik \notin Keys /\ RequestFails(r)

\* readAikAsBase64; the rest of the response is read and it is complete.  A
\* truncated aik.pem is not noticed.
QuoteReadCertificate(r) ==
  /\ req[r].at = "certificate"
  /\ \/ /\ aikPem # Missing
        /\ Put(r, Request("reply", req[r].tag, req[r].key, aikPem))
     \/ aikPem = Missing /\ RequestFails(r)

QuoteReply(r) ==
  /\ req[r].at = "reply"
  /\ Returns(r)
  /\ UNCHANGED vars

-----------------------------------------------------------------------------
(* DeployAssetTag.                                                          *)

\* NvIndexExists; without the index the request fails at once.
DeployBegin(r, t) ==
  /\ svc # Down
  /\ req[r].at = "none"
  /\ nv # Absent
  /\ Put(r, Request("write", t, NoKey, Missing))

\* Mutant of DeployWrite: the error of NvWrite is dropped and HVS is told that
\* the tag was deployed.
DeployErrorIgnored(r) ==
  /\ req[r].at = "write"
  /\ acked' = req[r].tag
  /\ Returns(r)
  /\ UNCHANGED <<tpmVars, diskVars, memVars, setupVars, provisioned, disturbed>>

\* NvWrite with the secret the service loaded.
DeployWrite(r) ==
  /\ req[r].at = "write"
  /\ \/ /\ DeployTag(svc, req[r].tag)
        /\ req' = [req EXCEPT ![r] = NoRequest]
        /\ current' = [x \in Requests |->
                         IF current[x] = {} THEN {} ELSE current[x] \cup {req[r].tag}]
        /\ UNCHANGED svc
     \/ /\ ~(svc \in Secrets /\ nv.auth = svc)
        /\ RequestFails(r)

-----------------------------------------------------------------------------
(* The setup process, and what ends both processes.                         *)

SetupBesideService ==
  /\ SetupNext
  /\ current' = [r \in Requests |-> {}]
  /\ UNCHANGED <<svc, req>>

\* A reboot into the BIOS, or an uninstallation, which stops the service.
ServiceEnds ==
  /\ ClearTpm \/ Uninstall
  /\ NoService

AttestationInit ==
  /\ Init
  /\ svc = Down
  /\ req = [r \in Requests |-> NoRequest]
  /\ current = [r \in Requests |-> {}]

RequestStep(r) ==
  \/ QuoteBegin(r) \/ QuoteReadTag(r) \/ QuoteSign(r)
  \/ QuoteReadCertificate(r) \/ QuoteReply(r)
  \/ \E t \in Tags : DeployBegin(r, t)
  \/ DeployWrite(r)

AttestationNext ==
  \/ ServiceStart \/ ServiceStop
  \/ \E r \in Requests : RequestStep(r)
  \/ SetupBesideService
  \/ ServiceEnds

AttestationSpec == AttestationInit /\ [][AttestationNext]_allVars

-----------------------------------------------------------------------------
(* Properties.  Provisioning!Spec itself is one: the service together with  *)
(* setup implements it.                                                     *)

\* The variables of the service have the types their declarations say.
ServiceTypeOK ==
  /\ svc \in Secrets \cup {NoSecret, Down}
  /\ req \in [Requests -> [at : {"none", "read", "sign", "certificate", "reply", "write"},
                           tag : Tags \cup {Zeros},
                           key : Keys \cup {NoKey},
                           cert : Keys \cup {NoKey, Missing, Torn}]]
  /\ current \in [Requests -> SUBSET (Tags \cup {Zeros})]

\* What HVS checks of a response: the certificate it carries is that of the
\* key that signed the quote.
Verifies(response) == response.cert = response.key

\* On a provisioned host a quote that no setup process overlapped verifies,
\* and its asset tag was the deployed one at some moment of the request, even
\* with deployments running at the same time (common/quote.go reads the tag,
\* signs and reads aik.pem in three separate steps).
QuoteVerifies ==
  \A r \in Requests :
    req[r].at = "reply" /\ current[r] # {} /\ provisioned =>
      Verifies(req[r]) /\ req[r].tag \in current[r]
=============================================================================

----------------------------- MODULE MCPcrBanks -----------------------------
(* PcrBanks for every request of up to MaxRequest banks.                    *)
EXTENDS PcrBanks, TLC

CONSTANTS MaxRequest, SHA384, SHA256, SHA1

TpmBanks    == {SHA384, SHA256, SHA1}
AgentBanks  == <<SHA384, SHA256, SHA1>>
AllRequests == UNION {[1 .. n -> TpmBanks] : n \in 0 .. MaxRequest}

\* Requests that name each bank at most once, as HVS sends them.
DistinctRequests ==
  {r \in AllRequests : \A j, k \in DOMAIN r : r[j] = r[k] => j = k}
=============================================================================

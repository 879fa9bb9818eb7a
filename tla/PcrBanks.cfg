SPECIFICATION Spec
CONSTANTS
  SHA384 = SHA384
  SHA256 = SHA256
  SHA1 = SHA1
  Banks <- TpmBanks
  DefaultBanks <- AgentBanks
  Requests <- AllRequests
  MaxRequest = 4
CHECK_DEADLOCK FALSE
INVARIANTS
  ActiveBanksKept
  OneInactiveBankStripped

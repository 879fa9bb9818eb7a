SPECIFICATION FairSpec
CONSTANTS
  Hosts <- MCHosts
  DigestSize <- MCDigestSize
  UintRange = 256
INVARIANTS
  IntactLogsPublished
  TruncationSafe
  StaleOnlyIfTorn
PROPERTY InitEnds
CHECK_DEADLOCK FALSE

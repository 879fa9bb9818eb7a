SPECIFICATION FairSpec
CONSTANTS
  MaxActive = 3
  Requested = {"aik", "deploy-manifest", "version"}
CHECK_DEADLOCK FALSE
INVARIANTS
  TypeOK
  PanicNeedsLateTick
  RepliesTruthful
  StartHonest
PROPERTIES
  StopEnds
  ReportRequested
  RetryEnds

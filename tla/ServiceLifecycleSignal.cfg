SPECIFICATION FairSpec
CONSTANTS
  MaxActive = 1
  Requested = {"aik"}
CHECK_DEADLOCK FALSE
PROPERTY
  SignalTerminates

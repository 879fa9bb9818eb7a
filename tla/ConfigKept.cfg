SPECIFICATION FairSpec
CONSTANTS
  HostIds = {h1, h2}
  EnvPorts <- MCEnvPorts
  Environments <- MCEnvironments
  DefaultPort = 1443
  MaxPort = 65535
PROPERTY
  KeepEverythingElse

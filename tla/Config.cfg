SPECIFICATION Spec
CONSTANTS
  HostIds = {h1, h2}
  EnvPorts <- MCEnvPorts
  Environments <- MCEnvironments
  DefaultPort = 1443
  MaxPort = 65535
SYMMETRY Symmetry
INVARIANTS
  SetUpServes
  RegisteredPort
PROPERTY
  UnsetKept

------------------------------ MODULE MCConfig ------------------------------
(* Config with ports that are valid, absent, negative or too large, and one *)
(* environment of each kind that LoadEnvironmentVariables tells apart.      *)
EXTENDS Config, TLC

MCEnvPorts == {0, 8443, -1, 65536}

Env(mode, hostId, badDigest) == [mode |-> mode, hostId |-> hostId, badDigest |-> badDigest]

MCEnvironments ==
  {NoEnv} \cup {Env("outbound", h, FALSE) : h \in HostIds \cup {""}}
    \cup {Env("OUTBOUND", h, FALSE) : h \in HostIds}
    \cup {Env("outbound", h, TRUE) : h \in HostIds}

Symmetry == Permutations(HostIds)
=============================================================================

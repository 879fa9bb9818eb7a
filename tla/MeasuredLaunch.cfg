\* Every fault, two uuids, a request beside setup.
CONSTANTS
  NumUuids = 2
  Measurable = {m1, m2}
  Unsupported = md5
  Requests = {r1}
  Setup = setup
  Faults = {"root", "partition", "measure", "version", "device", "extend"}
  Absent = Absent
  Empty = Empty
  Garbled = Garbled
  Failed = Failed
  Idle = Idle
SPECIFICATION Spec
INVARIANTS
  EvidenceAgrees
  LaunchComplete
SYMMETRY Symmetry

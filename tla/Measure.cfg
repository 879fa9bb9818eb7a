\* Three processes; the matches fit into a block, the list of /e does not.
CONSTANTS
  Procs = {"p1", "p2", "p3"}
  Manifest <- MCManifest
  Digest <- MCDigest
  Matches <- MCMatches
  NoBase <- MCNoBase
  FilePaths <- MCFilePaths
  Listing <- MCListing
  ReadBlock = 2
  WriteBlock = 2
  Null = Null
  Freed = Freed
  Hole = Hole
SPECIFICATION Spec
INVARIANTS
  SoloMeasurement
  NothingLeft
PROPERTY MeasureEnds
CHECK_DEADLOCK FALSE

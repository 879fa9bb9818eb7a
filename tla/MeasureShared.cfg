\* Two processes at once.
CONSTANTS
  Procs = {"p1", "p2"}
  Manifest <- MCManifest
  Digest <- MCDigest
  Matches <- MCMatches
  NoBase <- MCNoBase
  FilePaths <- MCFilePaths
  Listing <- MCListing
  ReadBlock = 2
  WriteBlock = 2
  Null = Null
  Freed = Freed
  Hole = Hole
SPECIFICATION Spec
INVARIANT MeasuresItsManifest
CHECK_DEADLOCK FALSE

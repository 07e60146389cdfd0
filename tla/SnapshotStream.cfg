SPECIFICATION FairSpec
CONSTANTS
  x = x
  y = y
  z = z
  hole = hole
  Attached <- MCAttached
  Content <- MCContent
  Hole = hole
  Chunk = 3
INVARIANTS
  TypeOK
  NothingIsMisread
  HeadersAreRight
  SnapshotIsDatabase
PROPERTIES
  StreamEnds

SPECIFICATION Spec
CONSTANTS
  x = x
  y = y
  z = z
  hole = hole
  Attached <- WithStaleFrames
  Content <- MCContent
  Hole = hole
  Chunk = 3
INVARIANTS
  SnapshotIsDatabase

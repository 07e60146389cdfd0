SPECIFICATION Spec
CONSTANTS
  x = x
  y = y
  z = z
  hole = hole
  Attached <- Opposite
  Content <- MCContent
  Hole = hole
  Chunk = 3
INVARIANTS
  HeadersAreRight

CONSTANTS
  MaxIndex = 4
  MaxOpen = 2
  MaxCounter = 4
  MaxRetries = 2
SPECIFICATION Spec
INVARIANT LogHasNoHole

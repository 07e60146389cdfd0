CONSTANTS
  Logs <- MCLogs
  Lengths = {12, 13}
  Inputs <- MCInputs
  Block = 4
  Later = {"future"}
  Terms = {1, 2}
  Values = {1}
SPECIFICATION FairSpec
INVARIANTS TypeOK ReadIsAtomic TornIsRefused RefusedForAReason NamesCountEntries
PROPERTIES ReadingEnds

SPECIFICATION FairSpec
CONSTANTS
  a = a
  b = b
  c = c
  Names <- MCNames
  First = 2
  Last = 4
  Pin <- MCPin
  Asked <- MCAsked
  MaxAttached = 2
INVARIANTS
  TypeOK
  NoFileIsLeft
  OneIndexAtATime
PROPERTIES
  SuccessIsComplete
  TransactionsKeepTheirIndex
  CommandsEnd

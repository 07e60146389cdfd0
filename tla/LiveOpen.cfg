CONSTANTS
  MaxIndex = 4
  MaxOpen = 2
  MaxCounter = 4
  MaxRetries = 2
SPECIFICATION FairSpec
INVARIANTS TypeOK RetriesStartOver PrefixIsRight LogMeetsSnapshot OpenedStaysReadable
PROPERTIES OpeningEnds

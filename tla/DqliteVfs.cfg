SPECIFICATION FairSpec
CONSTANTS
  a = a
  b = b
  empty = empty
  x = x
  y = y
  conf = conf
  conf2 = conf2
  none = none
  Folders <- MCFolders
  Database <- MCDatabase
  PageNumber <- MCPageNumber
  Content <- MCContent
  NoPage = none
  Size <- MCSize
  MaxIndex = 7
  Configuration <- MCConfiguration
  MaxFiles = 2
INVARIANTS
  TypeOK
  RowsReferToPages
  IInv
  NoPageIsLeaked
  ReadsReplayLog
  PinnedReadsAreCurrent
  ContiguousLogIsSelectable
PROPERTIES
  LoadingEnds
  ImplementsPointInTime
  LogShowsWhatIsLoaded
  ConfigIsTheOneLoaded

SPECIFICATION Spec
CONSTANTS
  a = a
  b = b
  empty = empty
  x = x
  y = y
  conf = conf
  conf2 = conf2
  none = none
  Folders <- OpenFolders
  Database <- MCDatabase
  PageNumber <- MCPageNumber
  Content <- MCContent
  NoPage = none
  Size <- MCSize
  MaxIndex = 7
  Configuration <- MCConfiguration
  MaxFiles = 2
INVARIANTS
  SelectableIsLoaded

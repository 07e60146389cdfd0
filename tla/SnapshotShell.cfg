CONSTANTS
  Ids = {1, 2}
  Values <- MCValues
  Now = 0
  MaxTimestamp = 0
  Databases = {d1, d2}
  UsableNames = {d1, d2}
  FileStates <- MCFileStates
SPECIFICATION Spec
INVARIANTS TypeOK SelfIsServer MetaIsLast OneMoment NothingLeftBehind
PROPERTIES ExistingFilesStay

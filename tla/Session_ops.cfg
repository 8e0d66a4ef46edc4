\* two vectors of one element, which may be being read; five calls of the client over three starts
SPECIFICATION SessionSpec
CONSTANTS
  MaxUqid = 2
  MaxNumInChnk = 1
  MaxChnks = 1
  MaxReaders = 1
  MemAllowed = 10
  DskAllowed = 20
  Qtypes = {"I4"}
  MemoLens = {0}
  KillIgnores = {}
  FreeIgnores = {}
  Steals = {FALSE}
  MayFail = FALSE
  FilesFail = FALSE
  EarlyBackup = FALSE
  MaxStarts = 3
  MaxCalls = 5
  Careful = TRUE
  Tears = TRUE
INVARIANTS SavedOnDisk RestoreSucceeds RestoredSound
PROPERTY RestoredAsSaved
CHECK_DEADLOCK FALSE

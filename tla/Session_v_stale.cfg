\* one vector written to a file, then the same uqid again after a restart
SPECIFICATION SessionSpec
CONSTANTS
  MaxUqid = 2
  MaxNumInChnk = 1
  MaxChnks = 1
  MaxReaders = 0
  MemAllowed = 10
  DskAllowed = 20
  Qtypes = {"I4"}
  MemoLens = {0}
  KillIgnores = {}
  FreeIgnores = {}
  Steals = {FALSE}
  MayFail = FALSE
  FilesFail = FALSE
  EarlyBackup = FALSE
  MaxStarts = 2
  MaxCalls = 6
  Careful = FALSE
  Tears = FALSE
INVARIANT NoOneElsesData
CHECK_DEADLOCK FALSE

\* one vector of up to two chunks, whose readers of chunks outlive the making of the linear file
SPECIFICATION Spec
CONSTANTS
  MaxUqid = 1
  MaxNumInChnk = 2
  MaxChnks = 2
  MaxReaders = 2
  MemAllowed = 10
  DskAllowed = 8
  Qtypes = {"I4"}
  MemoLens = {0}
  KillIgnores = {}
  FreeIgnores = {}
  Steals = {FALSE}
  MayFail = FALSE
  FilesFail = FALSE
  EarlyBackup = FALSE
INVARIANT LmaReadersCounted
CHECK_DEADLOCK FALSE

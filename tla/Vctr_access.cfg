\* one vector of up to two chunks, two readers of each chunk and of the LMA, and LMA files that may
\* fail to be taken over
SPECIFICATION Spec
CONSTANTS
  MaxUqid = 1
  MaxNumInChnk = 2
  MaxChnks = 2
  MaxReaders = 2
  MemAllowed = 10
  DskAllowed = 8
  Qtypes = {"I4"}
  MemoLens = {0}
  KillIgnores = {}
  FreeIgnores = {}
  Steals = {FALSE}
  MayFail = FALSE
  FilesFail = TRUE
  EarlyBackup = FALSE
INVARIANTS TypeOK LmaAccess WriterHasOnlyCopy CopiesCurrent DataHeld
CONSTRAINT LongLeftover
CHECK_DEADLOCK FALSE

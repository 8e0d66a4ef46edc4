\* one vector of up to three chunks, or three of one element; no readers: growth, memo, copies, accounts, ties
SPECIFICATION Spec
CONSTANTS
  MaxUqid = 3
  MaxNumInChnk = 2
  MaxChnks = 3
  MaxReaders = 0
  MemAllowed = 10
  DskAllowed = 12
  Qtypes = {"BL"}
  MemoLens = {0, 1, 2}
  KillIgnores = {0}
  FreeIgnores = {0, 1}
  Steals = {FALSE}
  MayFail = TRUE
  FilesFail = FALSE
  EarlyBackup = FALSE
CONSTRAINT OneOrThree
INVARIANTS ChnksMatchVctrs MemoBound MemExact DskExact NnMutual
CHECK_DEADLOCK FALSE

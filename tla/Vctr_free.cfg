\* early_free with lives, a reader, buffers given away or not, and no linear file (no disk)
SPECIFICATION StolenSpec
CONSTANTS
  MaxUqid = 1
  MaxNumInChnk = 2
  MaxChnks = 3
  MaxReaders = 1
  MemAllowed = 10
  DskAllowed = 0
  Qtypes = {"I4"}
  MemoLens = {0}
  KillIgnores = {}
  FreeIgnores = {0, 1}
  Steals = {TRUE, FALSE}
  MayFail = TRUE
  FilesFail = FALSE
  EarlyBackup = FALSE
INVARIANTS ChnksMatchVctrs ElemsMatchChnks LivesAscend MemWithin
PROPERTY ReadersProtect
CHECK_DEADLOCK FALSE

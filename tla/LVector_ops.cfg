CONSTANTS
  Vec <- MCVec
  Op <- MCOp
  In <- MCIn
  Lead <- MCLead
  Memo <- MCMemo
  Sibs <- MCSibs
  Inputs <- Grouped
  Roots = {"y", "s1", "s2", "u1", "u2"}
  Reduced = "z"
  C = 2
  MaxChnk = 2
  MaxHeld = 1
SPECIFICATION Spec
INVARIANTS
  TypeOK
  ValuesRight
  NoneMissing
  NeverFails
  ReadersReturned
  InStep
PROPERTIES
  CallsReturn

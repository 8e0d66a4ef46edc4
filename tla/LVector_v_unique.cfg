CONSTANTS
  Vec <- MCVec
  Op <- MCOp
  In <- MCIn
  Lead <- MCLead
  Memo <- MCMemo
  Sibs <- MCSibs
  Inputs <- FullOfRuns
  Roots = {"u1", "u2"}
  Reduced = "z"
  C = 2
  MaxChnk = 2
  MaxHeld = 0
SPECIFICATION Spec
INVARIANTS
  NeverFails

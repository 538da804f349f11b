SPECIFICATION Spec
CONSTANTS
  MaxBps = 2
  MaxLoc = 5
  Op <- MCOp
  To <- MCTo
  BpLoc = {0, 1, 2, 3, 4, 5}
  Thread = {t1}
  Hardware = FALSE
  Preempt = TRUE
  NULL = NULL
INVARIANTS SavedInst

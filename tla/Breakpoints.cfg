SPECIFICATION Spec
CONSTANTS
  MaxBps = 3
  MaxLoc = 5
  Op <- MCOp
  To <- MCTo
  BpLoc = {1, 2, 4}
  Thread = {t1}
  Hardware = TRUE
  Preempt = FALSE
  NULL = NULL
INVARIANTS TableMatches
PROPERTIES StepStops OneshotGone

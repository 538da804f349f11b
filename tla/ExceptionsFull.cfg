SPECIFICATION Spec
CONSTANTS
  MaxContext = 2
  Thread = {sh, t1, t2}
  ParseThread = sh
  Handler = {h1}
  Mine <- MCMineOne
  MaxWake = 2
  Detach = FALSE
  Parked = TRUE
  NULL = NULL
  sh = sh
  t1 = t1
  t2 = t2
  h1 = h1
  h2 = h2
INVARIANTS NoCrash
CHECK_DEADLOCK FALSE

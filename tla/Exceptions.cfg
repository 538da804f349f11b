SPECIFICATION FairSpec
CONSTANTS
  MaxContext = 2
  Thread = {sh, t1, t2}
  ParseThread = sh
  Handler = {h1, h2}
  Mine <- MCMine
  MaxWake = 2
  Detach = TRUE
  Parked = TRUE
  NULL = NULL
  sh = sh
  t1 = t1
  t2 = t2
  h1 = h1
  h2 = h2
INVARIANTS  PostOnLiveStack ListHasServers
CHECK_DEADLOCK FALSE
PROPERTY AnswerTakesEffect

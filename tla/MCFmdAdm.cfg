SPECIFICATION FairSpec
CONSTANTS
  m1 = m1
  m2 = m2
  Client = {c1, c2}
  Module = {m1}
  Event = {e1}
  Command <- CrossCmds
  FAF_NUM = 2
  MQ_MAX = 2
  NONE = NONE
  EchoMax = 1
  MaxKills = 3
  Inserts = FALSE
  Removes = TRUE
INVARIANT NobodyStranded
PROPERTY RequestsEnd
CHECK_DEADLOCK FALSE

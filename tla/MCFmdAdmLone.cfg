SPECIFICATION Spec
CONSTANTS
  m1 = m1
  m2 = m2
  Client = {c1}
  Module = {m1}
  Event = {e1, e2, e3, e4, e5}
  Command <- AllCmds
  FAF_NUM = 2
  MQ_MAX = 2
  NONE = NONE
  EchoMax = 2
  MaxKills = 0
  Inserts = TRUE
  Removes = FALSE
INVARIANTS LoneClientTruth NoneMissed
CHECK_DEADLOCK FALSE

SPECIFICATION Spec
CONSTANTS
  Cpu = {0, 1, 2}
  Page = {p1, hole}
  Hole = {hole}
  Tool = {}
  Agent = agent
  Writer = {w1}
  None = None
  MaxBusy = 2
  MIN_CPUS = 2
  MaxPlug = 2
  Kinds <- MCKinds
  Shares <- MCShares
  Fault <- MCFault
INVARIANTS CacheIsolated RepairReal

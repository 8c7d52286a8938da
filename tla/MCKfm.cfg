SPECIFICATION KfmSpec
CONSTANTS
  Cpu = {0, 1}
  Page = {}
  Hole = {}
  Tool = {t1, t2}
  Agent = agent
  Writer = {w1, w2}
  None = None
  MaxBusy = 2
INVARIANT StatusTruth
PROPERTY UnloadReturns

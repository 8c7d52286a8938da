SPECIFICATION Spec
CONSTANTS
  Machine <- MCMachine
  Editor = {e1, e2}
  LogLen = 2
  Word = 65536
INVARIANTS ClassesAgree CountedTogether DimmRight CpuTypeStable IntervalPositive  RecordTells
CHECK_DEADLOCK FALSE

SPECIFICATION Spec
CONSTANTS
  Option <- MCOption
  Mode <- MCMode
  Default = "auto"
  Absent = Absent
  MaxLines = 3
INVARIANTS AckDurable ConfKept MemoryAgrees

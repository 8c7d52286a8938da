SPECIFICATION StartSpec
CONSTANTS
  Inst = {i1, i2, i3, i4}
  Absent = Absent
  Empty = Empty
  Serial = TRUE
SYMMETRY Sym
INVARIANT PidFileNamesDaemon
CHECK_DEADLOCK FALSE

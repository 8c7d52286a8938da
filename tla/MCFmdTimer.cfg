SPECIFICATION FairSpec
CONSTANTS
  s1 = s1
  s2 = s2
  Src <- MCSrc
  Timers <- MCTimers
  interval <- MCInterval
  Main = Main
  Free = Free
  Hung = {s2}
  MaxPending = 2
INVARIANTS FiringIsDue LockHeld
PROPERTY Detected

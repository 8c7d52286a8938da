SPECIFICATION Spec
CONSTANTS
  cpu0 = cpu0
  sda = sda
  sdaa = sdaa
  cpumem = cpumem
  disk = disk
  trace = trace
  NONE = NONE
  Dev <- MCDev
  Begins <- MCBegins
  Id <- MCId
  Class <- MCClass
  Ereport <- MCEreport
  FaultClass <- MCFaultClass
  SerdClass <- MCSerdClass
  N <- MCN
  T <- MCT
  Handler <- MCHandler
  Agent <- MCAgent
  Sub <- MCSub
  Modes = {"auto", "manual", "define"}
  Raised <- CpuRaised
  Template <- MCTemplate
  REPAIRED_N = 2
  REPAIRED_T = 1
  DELETE_CIRCLE = 1
  RING_SIZE = 2
  MaxEreports = 3
  AgeCap = 1
INVARIANTS UsingExact CaseAlive EventAlive FaultDataAlive RecordUnique
PROPERTY DiagnosisSound

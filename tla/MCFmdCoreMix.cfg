SPECIFICATION FairSpec
CONSTANTS
  cpu0 = cpu0
  sda = sda
  sdaa = sdaa
  cpumem = cpumem
  disk = disk
  trace = trace
  NONE = NONE
  Dev <- MCDev
  Begins <- MCBegins
  Id <- MCId
  Class <- MCClass
  Ereport <- MCEreport
  FaultClass <- MCFaultClass
  SerdClass <- MCSerdClass
  N <- MCN
  T <- MCT
  Handler <- MCHandler
  Agent <- MCAgent
  Sub <- MCSub
  Modes = {"auto"}
  Raised <- MixRaised
  Template <- MCTemplate
  REPAIRED_N = 2
  REPAIRED_T = 1
  DELETE_CIRCLE = 1
  RING_SIZE = 1
  MaxEreports = 2
  AgeCap = 1
PROPERTIES Handled RepairedForgotten IsolatedForgotten

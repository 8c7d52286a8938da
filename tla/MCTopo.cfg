SPECIFICATION Spec
CONSTANTS
  Machines <- MCMachines
  SocketMax = 2
INVARIANTS CpuShown MemHasChip DimmPlaced PciPlaced
CHECK_DEADLOCK FALSE

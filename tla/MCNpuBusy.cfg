SPECIFICATION Spec
CONSTANTS
  NpuWrites <- BusyWrites
  Environments <- BusyEnvironments
  Control <- ShortRing
  Source <- NoSource
  RingSize = 2
  DescWords = 2
  ScratchBytes = 8
  TimeoutLimit = 10
  MemTop = 40
INVARIANTS
  InputsHold
PROPERTIES
  SuccessDrains

SPECIFICATION MCSpec
CONSTANTS
  NumSources = 3
  Pulsed = {2}
  MaxEvents = 2
  FifoDepth = 2
  Bits = 2
  Softwares <- MCSoftwares
INVARIANTS
  BytesAccountedFor
  ClaimIsReal
PROPERTIES
  OnlyCompletionClears
  DevicesServe

SPECIFICATION Spec
CONSTANTS
  AddrSpace = 28
  MemBytes = 24
  Addresses <- MCAddresses
  Lengths <- MCLengths
  Stores <- MCStores
  NpuWrites <- MCNpuWrites
  Control <- MCControl
  Source <- MCSource
  RingSize = 2
  DescWords = 2
  ScratchBytes = 4
  TimeoutLimit = 12
INVARIANTS
  PortsServed
  TimeoutOnlyContended
PROPERTIES
  ImplementsCopyJob

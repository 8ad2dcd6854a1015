SPECIFICATION FairSpec
CONSTANTS
  AddrSpace = 12
  MemBytes = 8
  Addresses <- MCAddresses
  Lengths <- MCLengths
  MaxJobs = 2
INVARIANTS
  Accounting
  WordInFlight
PROPERTIES
  NothingDropped
  ImplementsCopyJob
  EveryTransferEnds

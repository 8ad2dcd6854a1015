SPECIFICATION FairSpec
CONSTANTS
  AddrSpace = 20
  MemBytes = 16
  Addresses <- MCAddresses
  Lengths <- MCLengths
  CpuReads = {16}
  CpuStores = {12}
  CpuWrites <- MCWrites
  CpuRegs = {"BYTES_DONE"}
  MaxJobs = 1
INVARIANTS
  OwnersAgree
PROPERTIES
  ImplementsCopyJob
  EveryoneServed

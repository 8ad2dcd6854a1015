SPECIFICATION FairSpec
CONSTANTS
  NpuWrites <- RingWrites
  Environments <- RingEnvironments
  Control <- LongRing
  Source <- LongSource
  RingSize = 8
  DescWords = 2
  ScratchBytes = 8
  TimeoutLimit = 14
  MemTop = 64
INVARIANTS
  RingHonest
PROPERTIES
  CompletionSeen
  EveryCommandEnds

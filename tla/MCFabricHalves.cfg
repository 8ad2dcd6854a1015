SPECIFICATION MCSpec
CONSTANTS
  NumMasters = 2
  MaxOutst = 2
  WdLimit = 12
  ShortLimit = 2
  Environments <- MCEnvironments
  Patience = 0
  DoubleWords = 3
  Ids = {1, 2}
  Uses <- MCUses
  InitialMem <- MCMem
  BadWords = {2}
INVARIANT BothHalves

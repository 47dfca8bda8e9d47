CONSTANTS
  IsoLba = 7
  Align = 2
  FirstUsable = 3
  Tail = 1
  IsoParts <- MCIsoParts
  Overlaps <- MCOverlaps
  Sizes = {9, 13, 16}
  Chunk = 3
  Need = 5
  MaxAttempts = 3
  MaxFaults = 2
SPECIFICATION FairSpec
INVARIANTS
  TypeOK
  IsoOnDisk
  OneVolume
  FailsWithCause
PROPERTY FlashEnds

CONSTANTS
  Internal = {1}
  External = {2, 3, 4}
  Boot = 2
  OnMedia = TRUE
  HasSeed = TRUE
  MaxIndex = 3
  MaxFaults = 1
  MaxSwaps = 0
  Data = Data
  Media = Media
  None = None
SPECIFICATION Spec
INVARIANT SeedIsWhole

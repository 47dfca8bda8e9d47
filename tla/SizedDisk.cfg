CONSTANTS
  Sector = 2
  RawSize = 5
  Byte = {0, 1}
  MaxLen = 3
  MaxAt = 5
SPECIFICATION Spec
INVARIANTS
  TypeOK
  NeverRefused
PROPERTIES
  TrailingKept
  ImplementsByteFile

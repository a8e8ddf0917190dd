CONSTANTS
  NShards = 3
  Bytes = {0, 1, 65, 127, 128, 200, 255}
  MaxKeyLen = 2

SPECIFICATION Spec

INVARIANT KeyToShardMatchesSpec

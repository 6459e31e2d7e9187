\* Up to two sectors decay.
SPECIFICATION RotSpec
CONSTANTS
  Byte = {1, 2, 3, 4, 5, 6}
  PAYLOAD_CAPACITY = 2
  TOTAL_SECTORS = 6
  TAIL_SECTORS = 3
  ROT_BOUND = 2
  CHUNK = 2
  Inputs = {}
  Typed = {}
  DASH_UTF8 <- OneByteDash
  crc32 <- MCcrc32
INVARIANT SearchFindsBoundary
PROPERTY SoundPrefixForever

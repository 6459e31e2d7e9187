\* A two-byte dash split where the loaded sectors begin.
SPECIFICATION TextSpec
CONSTANTS
  Byte = {1, 2, 3, 4, 5, 6}
  PAYLOAD_CAPACITY = 2
  TOTAL_SECTORS = 4
  TAIL_SECTORS = 2
  CHUNK = 1
  Inputs = {}
  Typed = {"letter"}
  DASH_UTF8 <- TwoByteDash
  crc32 <- MCcrc32
INVARIANT RamMatchesDisk

\* The scroll disk under write errors and power cuts.
SPECIFICATION FairSpec
CONSTANTS
  Byte = {1, 2}
  PAYLOAD_CAPACITY = 2
  TOTAL_SECTORS = 3
  TAIL_SECTORS = 1
  Inputs <- MCInputs
  crc32 <- MCcrc32
INVARIANTS TypeOK ContiguousPrefix SearchSound
PROPERTIES SealedForever RefinesEternalInk BootFinishes

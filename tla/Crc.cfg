\* The register of the code; messages of five bytes exceed it by one.
SPECIFICATION CrcSpec
CONSTANTS
  TOP = 31
  POLY <- Ieee
  Byte <- MCByte
  MaxLength = 5
INVARIANTS CrcIsRemainder DamageDetected
CHECK_DEADLOCK FALSE

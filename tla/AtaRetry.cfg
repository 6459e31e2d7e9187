\* What the drive was asked before the warning glyph appears.
SPECIFICATION FairSpec
CONSTANTS
  Value <- MCValue
  Torn = "torn"
  POLLS = 2
  MaxCount = 2
PROPERTY RetryReachesDrive

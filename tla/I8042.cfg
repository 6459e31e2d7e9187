\* Up to three bytes left behind of which two are drained, and two keys.
SPECIFICATION KbSpec
CONSTANTS
  DRAIN = 2
  WAITS = 1
  STALE = 3
  STROKES = 2
INVARIANTS KeyboardOn TranslationKept NeverWedged
PROPERTY InitReturns
CHECK_DEADLOCK FALSE

\* A screen of three lines of two characters, a scroll of up to seven bytes.
SPECIFICATION Spec
CONSTANTS
  columns = 2
  rows = 3
  CAPACITY = 7
  HISTORY = 2
  TAIL = 2
  Typed = {"letter", "nl"}
  DASH_UTF8 <- TwoByteDash
INVARIANTS
  SlicesAreWhole LinesMatchText CursorBehindInk
  ScreenIsCurrent ViewInRange
PROPERTY PagesMeet

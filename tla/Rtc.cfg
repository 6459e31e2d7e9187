\* Three readings after the first, and up to three updates that show.
SPECIFICATION RtcSpec
CONSTANTS
  RTC_POLLS = 2
  RETRIES = 3
  Shows <- MCShows
INVARIANTS DateWasShown NoneIsWeird
PROPERTY DateReturns
CHECK_DEADLOCK FALSE

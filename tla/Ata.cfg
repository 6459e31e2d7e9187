\* The driver and an unreliable drive.
SPECIFICATION FairSpec
CONSTANTS
  Value <- MCValue
  Torn = "torn"
  POLLS = 2
  MaxCount = 2
PROPERTIES OkMeansDurable RefinesSectorWrite ErrorIsFinal CallReturns

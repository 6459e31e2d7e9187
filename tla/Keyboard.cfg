\* A ring of three slots and six keys.
SPECIFICATION PanicFairSpec
CONSTANTS
  SIZE = 3
  PRESSES = 6
INVARIANTS NeverSpins InOrder
PROPERTIES RefinesKeyQueue KeysServed PageFollowsPanic

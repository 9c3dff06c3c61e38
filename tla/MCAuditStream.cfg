SPECIFICATION FairSpec
CONSTANTS
  Events = {1, 2, 3, 4}
  MaxTime = 2
  MaxDrops = 1
  Limit = 2
INVARIANTS
  InOrderOnce
  SkippedWasOvertaken
PROPERTIES
  EventuallyReceived
CHECK_DEADLOCK FALSE

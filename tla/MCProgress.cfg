SPECIFICATION FairSpec
PROPERTIES
  StopsEnd
  WaitsAreServed
  BegunIsEnded
CHECK_DEADLOCK FALSE

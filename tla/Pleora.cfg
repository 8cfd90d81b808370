SPECIFICATION FairSpec
CONSTANTS
  N = 2
  Suffix <- MCTwins
  MaxHeaders = 2
  MaxRuns = 2
CHECK_DEADLOCK FALSE
INVARIANTS TypeOK OneAtWork ImagesAreDescribed
PROPERTIES OnlyTwinsOverwrite KeysEnd

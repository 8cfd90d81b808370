SPECIFICATION FairSpec
CONSTANTS
  Images = 2
  Size = 1
  Keep = 2
  Batch = 2
  MaxCrashes = 1
INVARIANTS LossHasCause NewestSurvive
PROPERTIES LiveEmpties

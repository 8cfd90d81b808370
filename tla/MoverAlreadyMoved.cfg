SPECIFICATION Spec
CONSTANTS
  Images = 2
  Size = 2
  Keep = 2
  Batch = 2
  MaxCrashes = 1
PROPERTY AlreadyMoved

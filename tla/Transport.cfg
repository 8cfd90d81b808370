SPECIFICATION FairSpec
CONSTANTS
  MaxData = 4
  MaxBytes = 9
  ReadSize = 2
  MaxFrame = 7
INVARIANTS TypeOK NothingDropped
PROPERTIES FifoSpec DataIsSent CloseEnds
CHECK_DEADLOCK FALSE

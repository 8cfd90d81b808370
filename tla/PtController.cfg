SPECIFICATION FairSpec
CONSTANTS
  Commands <- MCOneScan
  Faults = {"lens", "supervisord", "broker"}
  MaxCalls = 2
  MaxTime = 1
INVARIANTS TypeOK PositionsKept OrdersRepeated ReadyHeld
PROPERTIES CallSpec ScanEnds CommandsAnswered
CHECK_DEADLOCK FALSE

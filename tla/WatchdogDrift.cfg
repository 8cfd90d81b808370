SPECIFICATION FairSpec
CONSTANTS
  Commands <- MCFinite
  Slack = 0
  Factor = 1
  Faults = {}
  MaxCalls = 2
  MaxCrashes = 0
  MaxAge = 1
  MaxEvents = 1
PROPERTIES DriftIsNoticed

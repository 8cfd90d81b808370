SPECIFICATION FairSpec
CONSTANTS
  Commands <- MCAll
  Slack = 0
  Factor = 1
  Faults = {"lens"}
  MaxCalls = 2
  MaxCrashes = 0
  MaxAge = 1
  MaxEvents = 1
PROPERTIES RequestsAnswered SilenceRestarts

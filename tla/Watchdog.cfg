SPECIFICATION Spec
CONSTANTS
  Commands <- MCSessions
  Slack = 0
  Factor = 1
  Faults = {"supervisord"}
  MaxCalls = 2
  MaxCrashes = 1
  MaxAge = 1
  MaxEvents = 1
PROPERTIES DecisionsAreDue CallSpec
INVARIANTS TypeOK NothingForgotten

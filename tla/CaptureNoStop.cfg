SPECIFICATION Spec
CONSTANTS
  Commands <- NoStopCommands
  MaxCalls = 2
  MaxFrames = 3
  NumBuf = 2
INVARIANTS TypeOK AckedWasAnswered ErrorsAnswerTheirCommand Conservation
PROPERTIES SessionSpec

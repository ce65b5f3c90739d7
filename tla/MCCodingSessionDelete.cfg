SPECIFICATION Spec
CONSTANTS
  Decisions = 2
  Steps = 2
  BadTurns = 2
  MaxEdits = 2
CHECK_DEADLOCK FALSE
PROPERTIES DeletedStaysDeleted

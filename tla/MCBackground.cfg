\* One task, two decisions, two model calls, two edits of the declaration; one voice,
\* two jobs of the installers, two presses.
SPECIFICATION WorkSpec
CONSTANTS
  Decisions = 2
  Steps = 2
  BadTurns = 2
  MaxEdits = 2
  Voices = {v1}
  MaxJobs = 2
  MaxPresses = 2
CHECK_DEADLOCK FALSE
INVARIANTS RunsAsGranted OneHand EndingsAreWritten StatusIsHonest
PROPERTIES StopTakesHold GoodStaysGood CancelIsAnswered

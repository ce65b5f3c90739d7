\* Two turns of the chat; two request threads that publish an event each into a bus that
\* retains two, a connection that breaks, a server that is replaced.
SPECIFICATION PageSpec
CONSTANTS
  Turns = {t1, t2}
  MaxDeltas = 2
  MaxPresses = 2
  Targets = {"standby", "thinking"}
  NoState = NoState
  MaxLog = 2
  MaxEvents = 2
  MaxLosses = 1
  MaxRestarts = 1
CHECK_DEADLOCK FALSE
INVARIANTS StopReaches HistoryIsHonest StreamIsHonest
PROPERTIES ThinkingEnds DropsHeal

SPECIFICATION Spec
CONSTANTS
  Parents = {l1, l2}
  Windowed = {l1}
  None = None
  MaxServers = 2
  MaxWindows = 2
  MaxHelpers = 1
  MaxClicks = 1
  MaxFaults = 1
CHECK_DEADLOCK FALSE
INVARIANTS QuitLeavesNoWindow

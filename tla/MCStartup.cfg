\* Two launches, of which one gets a window, with one tray click and one crash; three
\* starts of one server at a time over a v0.1 database and one removal, with two failures.
SPECIFICATION StartupSpec
CONSTANTS
  Parents = {l1, l2}
  Windowed = {l1}
  None = None
  MaxServers = 2
  MaxWindows = 2
  MaxHelpers = 1
  MaxClicks = 1
  MaxFaults = 1
  Servers = {s1}
  Keys = {k1, k2}
  Rows = {w1}
  MaxBreaks = 2
  MaxStarts = 3
CHECK_DEADLOCK FALSE
INVARIANTS ServerIsAccountedFor StopsAreClean DataIsKept

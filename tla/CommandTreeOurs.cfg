\* Two processes of the command's and two strangers', no reading fails.
SPECIFICATION Spec
CONSTANTS
  MaxProcs = 4
  MaxFaults = 0
CHECK_DEADLOCK FALSE
INVARIANT OnlyOurs

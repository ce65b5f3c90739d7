\* A command of each rule over four states of a project, two edits of it, one plan of a
\* preview; three processes and one reading that fails.
SPECIFICATION CommandSpec
CONSTANTS
  Lines <- MCLines
  Words <- MCWords
  Stems <- MCStems
  Hosts <- MCHosts
  Projects <- MCProjects
  Shellish = {"a;b"}
  Paths = {"./npm", "."}
  Options = {"-v", "-d", "-m", "-q", "--registry", "--registry=host", "--check"}
  Reaching = {"http:host", "--registry", "--registry=host"}
  MaxPlans = 1
  MaxEdits = 2
  MaxProcs = 3
  MaxFaults = 1
CHECK_DEADLOCK FALSE
INVARIANTS RunsAsReviewed StopsAreThorough

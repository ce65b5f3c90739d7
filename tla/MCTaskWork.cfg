\* Three edits of two files against one write of the user and one request of the page;
\* two preview processes; one browser check with two of the browser's children.
SPECIFICATION WorkSpec
CONSTANTS
  FilePaths = {a, b}
  Mine = {u1, u2}
  Theirs = {j1, j2}
  Absent = Absent
  TaskEdits = 3
  MaxWrites = 1
  MaxRequests = 1
  Procs = {a, b}
  WorkFaults = 1
  MaxReads = 1
  Kids = {j1, j2}
  MaxErrors = 1
  MaxMishaps = 2
CHECK_DEADLOCK FALSE
SYMMETRY Symmetries
INVARIANTS UndoGivesBack PreviewIsAccountedFor CheckIsHonest
PROPERTY ExportIsReviewed

\* Two folder requests and two creation plans over one folder; two starts of a task
\* against five acts of the user in the repository and two git commands that fail.
SPECIFICATION StartSpec
CONSTANTS
  FolderRequests = {r1, r2}
  Plans = {p1, p2}
  Folders = {f1}
  MaxPosts = 3
  MaxFaults = 1
  MaxProjects = 1
  MaxPlansKept = 1
  MaxActs = 5
  MaxBreaks = 2
  MaxStarts = 2
CHECK_DEADLOCK FALSE
SYMMETRY Symmetry
INVARIANTS ProjectsAreAsAgreed IsolationIsHonest

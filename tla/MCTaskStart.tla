----------------------------- MODULE MCTaskStart -----------------------------
(* What comes before a coding task's first edit, on a small instance: a new     *)
(* project is written (NewProject), and a task gets the place it works in       *)
(* (Isolation).  The two share no variable, so a behaviour here is a behaviour  *)
(* of one of them while the other stays at its start: `startPart` says which.   *)
(* Names of theirs that are also names of CodingSession or Setup, or of one     *)
(* another, are others here.                                                    *)
EXTENDS Integers, TLC

CONSTANTS
  FolderRequests, Plans, Folders, MaxPosts, MaxFaults, MaxProjects, MaxPlansKept,
  MaxActs, MaxBreaks, MaxStarts

VARIABLES
  startPart,
  req, plan, kept, listed, readable, places, call, dialogs, pick, shown, enabled, post,
  creating, faults, agreed, spent, spoilt, said,
  repo, dest, registered, ref, unsaved, task, root, pc, allow, isolation, refusal,
  acts, breaks, starts, commits, before, spared, misread, lost

projectVars == <<req, plan, kept, listed, readable, places, call, dialogs, pick, shown,
                 enabled, post, creating, faults, agreed, spent, spoilt, said>>
isoVars == <<repo, dest, registered, ref, unsaved, task, root, pc, allow, isolation,
             refusal, acts, breaks, starts, commits, before, spared, misread, lost>>

Prep == INSTANCE NewProject WITH Requests <- FolderRequests, world <- places
Iso  == INSTANCE Isolation WITH
          plan <- isolation, said <- refusal, kept <- spared,
          faults <- breaks, MaxFaults <- MaxBreaks

ASSUME ProjectAssumption ==
  /\ Prep!None \notin FolderRequests \cup Plans \cup Folders
  /\ MaxPosts \in Nat /\ MaxFaults \in Nat
ASSUME PlaceAssumption == MaxActs \in Nat /\ MaxBreaks \in Nat /\ MaxStarts \in Nat

StartInit ==
  /\ startPart \in {"project", "place"} /\ Prep!Init /\ Iso!Init
  /\ startPart = "project" => ~repo.git
  /\ places = [f \in Folders |-> "absent"]

StartNext ==
  /\ UNCHANGED startPart
  /\ \/ startPart = "project" /\ Prep!Next /\ UNCHANGED isoVars
     \/ startPart = "place" /\ Iso!Next /\ UNCHANGED projectVars

StartSpec == StartInit /\ [][StartNext]_<<startPart, projectVars, isoVars>>

\* Folder requests are interchangeable, and so are creation plans.
Symmetry == Permutations(FolderRequests) \cup Permutations(Plans)

\* What is chosen is used once, and what is created is what was shown.
ProjectsAreAsAgreed == Prep!ProjectsAreAsAgreed

\* What others have in the repository stays there when the start of a task fails, a task
\* works where it was agreed, and a refusal says what is left of the attempt.
IsolationIsHonest == Iso!IsolationIsHonest
=============================================================================

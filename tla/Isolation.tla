------------------------------ MODULE Isolation ------------------------------
(***************************************************************************)
(* Where a coding task works.  start_task (app/coding/service.py) records  *)
(* the user's own changes, plans a Git worktree, makes it and cleans up    *)
(* after itself when the start fails (app/coding/gitsafe.py).  Every git   *)
(* command is a process of its own, so the user's own Git works between    *)
(* any two of them, and every one of them can fail.                        *)
(***************************************************************************)
EXTENDS Naturals

CONSTANTS
  MaxActs,   \* bound: what the user does in the repository
  MaxFaults, \* bound: git commands and set-up steps that fail
  MaxStarts  \* bound: requests to start the task

VARIABLES
  repo,       \* the project: a repository, its HEAD, and what stands in the way
  dest,       \* what is at the worktree's path, and who put it there
  registered, \* git lists the path among the repository's worktrees
  ref,        \* the task's branch: its commit (0: no branch), and who made it
  unsaved,    \* the user has files in the worktree that no commit has
  task,       \* the record's state
  root,       \* where the running task works
  pc,         \* the next step of start_task
  allow,      \* allow_in_place
  plan,       \* the IsolationPlan
  said,       \* what the refusal says about what is left
  acts, faults, starts,
  commits,    \* commits made so far; they are numbered
  before,     \* the branch and the path when the start began (history)
  kept,       \* the last commit the user made on the task's branch (history)
  misread,    \* a git query failed and was read as "there is none" (history)
  lost        \* unsaved files were removed (history)

vars == <<repo, dest, registered, ref, unsaved, task, root, pc, allow, plan, said,
          acts, faults, starts, commits, before, kept, misread, lost>>

None == "none"
Gone == [is |-> "absent", by |-> None]
NoPlan == [strategy |-> None, start |-> 0]
Commits == 0..MaxActs + 1

TypeOK ==
  /\ repo \in [git : BOOLEAN, head : Commits, conflict : BOOLEAN, detached : BOOLEAN]
  /\ dest \in [is : {"absent", "empty", "data", "git"}, by : {None, "user", "jarvis"}]
  /\ registered \in BOOLEAN /\ unsaved \in BOOLEAN
  /\ ref \in [at : Commits, by : {None, "user", "jarvis"}]
  /\ task \in {"awaiting", "running", "failed"} /\ root \in {None, "worktree", "project"}
  /\ pc \in {"idle", "plan", "path", "branch", "add", "setup", "clean", "ref", "delete"}
  /\ allow \in BOOLEAN
  /\ plan \in [strategy : {None, "worktree", "in_place", "stop"}, start : Commits]
  /\ said \in {None, "nothing changed", "clean", "kept"}
  /\ acts \in 0..MaxActs /\ faults \in 0..MaxFaults /\ starts \in 0..MaxStarts
  /\ commits \in Commits /\ kept \in Commits
  /\ before \in [dest : {"absent", "empty", "data", "git"}, ref : Commits]
  /\ misread \in BOOLEAN /\ lost \in BOOLEAN

Init ==
  /\ \E git \in BOOLEAN, head \in {0, 1} :
       /\ repo = [git |-> git, head |-> IF git THEN head ELSE 0,
                  conflict |-> FALSE, detached |-> FALSE]
       /\ commits = repo.head
  /\ dest = Gone /\ registered = FALSE /\ ref = [at |-> 0, by |-> None]
  /\ unsaved = FALSE /\ task = "awaiting" /\ root = None /\ pc = "idle"
  /\ allow = FALSE /\ plan = NoPlan /\ said = None
  /\ acts = 0 /\ faults = 0 /\ starts = 0
  /\ before = [dest |-> "absent", ref |-> 0] /\ kept = 0
  /\ misread = FALSE /\ lost = FALSE

place   == <<dest, registered, ref, unsaved>>
history == <<before, kept, misread, lost>>
user    == <<repo, acts, commits>>

Fault == faults < MaxFaults /\ faults' = faults + 1
Fine  == UNCHANGED faults

-----------------------------------------------------------------------------
(* start_task: the plan. *)

Start(choice) ==
  /\ pc = "idle" /\ task = "awaiting" /\ starts < MaxStarts
  /\ starts' = starts + 1 /\ allow' = choice /\ said' = None /\ pc' = "plan"
  /\ before' = [dest |-> dest.is, ref |-> ref.at]
  /\ UNCHANGED <<user, place, task, root, plan, faults, kept, misread, lost>>

\* plan_isolation: a worktree from HEAD; a folder without a commit is in place; conflicts
\* and a detached HEAD stop everything.
Planned ==
  IF ~repo.git THEN [strategy |-> "in_place", start |-> 0]
  ELSE IF repo.conflict \/ repo.detached THEN [strategy |-> "stop", start |-> 0]
  ELSE IF repo.head = 0 THEN [strategy |-> "in_place", start |-> 0]
  ELSE [strategy |-> "worktree", start |-> repo.head]

\* What a query that failed makes of it: not a repository, no conflicts, no commit.
MisPlanned ==
  {[strategy |-> "in_place", start |-> 0]}
    \cup (IF repo.git /\ repo.conflict /\ ~repo.detached /\ repo.head # 0
            THEN {[strategy |-> "worktree", start |-> repo.head]} ELSE {})

Refuses == said' = "nothing changed" /\ pc' = "idle" /\ UNCHANGED task

Proceed(p) ==
  /\ plan' = p
  /\ \/ p.strategy = "worktree" /\ pc' = "path" /\ UNCHANGED <<said, task>>
     \/ p.strategy = "in_place" /\ allow /\ pc' = "setup" /\ UNCHANGED <<said, task>>
     \/ p.strategy = "in_place" /\ ~allow /\ Refuses
     \/ p.strategy = "stop" /\ Refuses

Plan ==
  /\ pc = "plan"
  /\ \/ Proceed(Planned) /\ Fine /\ UNCHANGED misread
     \/ Fault /\ misread' = TRUE /\ \E p \in MisPlanned : Proceed(p)
  /\ UNCHANGED <<user, place, root, allow, starts, before, kept, lost>>

-----------------------------------------------------------------------------
(* create_worktree *)

Fails(what) == task' = "failed" /\ said' = what /\ pc' = "idle"

\* Nothing was attempted, so there is nothing to clean.
CheckPath ==
  /\ pc = "path"
  /\ IF dest.is # "absent" THEN Fails("clean") ELSE pc' = "branch" /\ UNCHANGED <<task, said>>
  /\ UNCHANGED <<user, place, root, allow, plan, faults, starts, history>>

CheckBranch ==
  /\ pc = "branch"
  /\ \/ /\ ref.at # 0 /\ Fine /\ Fails("clean") /\ UNCHANGED misread
     \/ /\ ref.at = 0 /\ Fine /\ pc' = "add" /\ UNCHANGED <<task, said, misread>>
     \/ /\ ref.at # 0 /\ Fault /\ misread' = TRUE /\ pc' = "add" /\ UNCHANGED <<task, said>>
  /\ UNCHANGED <<user, place, root, allow, plan, starts, before, kept, lost>>

MakesRef  == ref' = [at |-> plan.start, by |-> "jarvis"]
MakesDest == dest' = [is |-> "git", by |-> "jarvis"] /\ registered' = TRUE

\* git worktree add -b: done, refused, or broken off with part of it made.
Add ==
  /\ pc = "add"
  /\ \/ /\ dest.is \in {"absent", "empty"} /\ ref.at = 0
        /\ \/ MakesRef /\ MakesDest /\ Fine /\ pc' = "setup"
           \/ MakesRef /\ MakesDest /\ Fault /\ pc' = "clean"
           \/ MakesRef /\ UNCHANGED <<dest, registered>> /\ Fault /\ pc' = "clean"
     \/ /\ \/ dest.is \notin {"absent", "empty"} /\ Fine
           \/ ref.at # 0 /\ Fine
           \/ Fault
        /\ pc' = "clean" /\ UNCHANGED <<dest, registered, ref>>
  /\ UNCHANGED <<user, unsaved, task, said, root, allow, plan, starts, history>>

\* The runner is built, the record saved, the thread started; or something of it fails.
SetUp ==
  /\ pc = "setup"
  /\ \/ /\ Fine /\ task' = "running" /\ pc' = "idle" /\ UNCHANGED said
        /\ root' = IF plan.strategy = "worktree" THEN "worktree" ELSE "project"
     \/ /\ plan.strategy = "worktree" /\ Fault /\ pc' = "clean"
        /\ UNCHANGED <<task, said, root>>
     \/ /\ plan.strategy # "worktree" /\ Fault /\ Fails("clean") /\ UNCHANGED root
  /\ UNCHANGED <<user, place, allow, plan, starts, history>>

-----------------------------------------------------------------------------
(* cleanup_failed_isolation, with allow_partial *)

\* A path git lists is removed by git, by force; one with a .git or with nothing in it is
\* removed without git, also when the list could not be had; anything else stays.
CleanDest ==
  /\ pc = "clean"
  /\ \/ /\ dest.is = "absent" /\ Fine /\ pc' = "ref"
        /\ UNCHANGED <<dest, registered, unsaved, task, said, misread, lost>>
     \/ /\ dest.is # "absent" /\ (registered \/ dest.is \in {"git", "empty"}) /\ Fine
        /\ dest' = Gone /\ registered' = FALSE /\ unsaved' = FALSE
        /\ lost' = (lost \/ unsaved) /\ pc' = "ref" /\ UNCHANGED <<task, said, misread>>
     \/ /\ dest.is # "absent" /\ (registered \/ dest.is \in {"git", "empty"}) /\ Fault
        /\ Fails("kept") /\ UNCHANGED <<dest, registered, unsaved, misread, lost>>
     \/ /\ dest.is \in {"git", "empty"} /\ registered /\ Fault
        /\ dest' = Gone /\ unsaved' = FALSE /\ lost' = (lost \/ unsaved) /\ pc' = "ref"
        /\ UNCHANGED <<registered, task, said, misread>>
     \/ /\ dest.is = "data" /\ ~registered /\ Fine
        /\ Fails("kept") /\ UNCHANGED <<dest, registered, unsaved, misread, lost>>
  /\ UNCHANGED <<user, ref, root, allow, plan, starts, before, kept>>

\* The branch goes only when it is still where it was made.
CleanRef ==
  /\ pc = "ref"
  /\ \/ ref.at = 0 /\ Fine /\ Fails("clean") /\ UNCHANGED misread
     \/ ref.at # 0 /\ Fault /\ misread' = TRUE /\ Fails("clean")
     \/ ref.at \notin {0, plan.start} /\ Fine /\ Fails("kept") /\ UNCHANGED misread
     \/ ref.at = plan.start /\ Fine /\ pc' = "delete" /\ UNCHANGED <<task, said, misread>>
  /\ UNCHANGED <<user, place, root, allow, plan, starts, before, kept, lost>>

\* Mutated form of DeleteRef: the branch is deleted without the value it should have.
DeleteRefWhatever ==
  /\ pc = "delete" /\ Fine
  /\ ref' = [at |-> 0, by |-> None] /\ Fails("clean")
  /\ UNCHANGED <<user, dest, registered, unsaved, root, allow, plan, starts, history>>

\* git update-ref -d <ref> <old value>
DeleteRef ==
  /\ pc = "delete"
  /\ \/ ref.at = plan.start /\ Fine /\ ref' = [at |-> 0, by |-> None] /\ Fails("clean")
     \/ ref.at # plan.start /\ Fine /\ Fails("kept") /\ UNCHANGED ref
     \/ Fault /\ Fails("kept") /\ UNCHANGED ref
  /\ UNCHANGED <<user, dest, registered, unsaved, root, allow, plan, starts, history>>

-----------------------------------------------------------------------------
(* The user, at any moment. *)

Acts == acts < MaxActs /\ acts' = acts + 1
still == <<task, root, pc, allow, plan, said, faults, starts, before, misread, lost>>

CommitsOnHead ==
  /\ Acts /\ repo.git /\ ~repo.conflict
  /\ commits' = commits + 1 /\ repo' = [repo EXCEPT !.head = commits + 1]
  /\ UNCHANGED <<place, still, kept>>

Merges ==
  /\ Acts /\ repo.git /\ repo.head # 0
  /\ \/ repo' = [repo EXCEPT !.conflict = ~repo.conflict]
     \/ repo' = [repo EXCEPT !.detached = ~repo.detached]
  /\ UNCHANGED <<place, still, commits, kept>>

\* git branch, with the very name.
MakesBranch ==
  /\ Acts /\ repo.head # 0 /\ ref.at = 0
  /\ ref' = [at |-> repo.head, by |-> "user"]
  /\ UNCHANGED <<repo, dest, registered, unsaved, still, commits, kept>>

MakesFolder ==
  /\ Acts /\ dest.is = "absent"
  /\ \E kind \in {"empty", "data", "git"} : dest' = [is |-> kind, by |-> "user"]
  /\ UNCHANGED <<repo, registered, ref, unsaved, still, commits, kept>>

\* A file is saved at the worktree's path; the branch moves, there or elsewhere.
WorksInside ==
  /\ Acts /\ dest.is = "git" /\ unsaved' = TRUE
  /\ UNCHANGED <<repo, dest, registered, ref, still, commits, kept>>

CommitsInside ==
  /\ Acts /\ ref.at # 0
  /\ commits' = commits + 1 /\ ref' = [ref EXCEPT !.at = commits + 1]
  /\ kept' = commits + 1 /\ unsaved' = (unsaved /\ dest.by = "user")
  /\ UNCHANGED <<repo, dest, registered, still>>

Starting == \/ \E choice \in BOOLEAN : Start(choice)
            \/ Plan \/ CheckPath \/ CheckBranch \/ Add \/ SetUp
            \/ CleanDest \/ CleanRef \/ DeleteRef

Next ==
  \/ Starting
  \/ CommitsOnHead \/ Merges \/ MakesBranch \/ MakesFolder \/ WorksInside \/ CommitsInside

Spec == Init /\ [][Next]_vars

-----------------------------------------------------------------------------
(* Properties *)

\* "The branch ref is deleted with its expected old SHA, so a concurrent commit makes
\* cleanup refuse rather than discard it": a commit the user made on the task's branch is
\* on it for good, and a branch or a folder that was there when the start began stays
\* there, as long as git answered what it was asked (gitsafe.py).
OthersWorkStays ==
  /\ kept # 0 => ref.at = kept
  /\ ~misread /\ task = "failed" =>
       /\ before.ref # 0 => ref.at # 0
       /\ before.dest # "absent" => dest.is # "absent"

\* What the refusal says is left is what is left: nothing changed, no worktree and no
\* branch of this start, or something that was kept (start_task's message).
SaysWhatRemains ==
  /\ said = "nothing changed" => dest.by # "jarvis" /\ ref.by # "jarvis"
  /\ said = "clean" /\ ~misread => dest.by # "jarvis" /\ ref.by # "jarvis"
  /\ said # None => root = None

\* The task runs in the user's folder only when that was chosen for this very start, and
\* otherwise in a worktree that this start made (service.py, rule 3).
RunsWhereAgreed ==
  /\ root = "project" => allow
  /\ root = "worktree" => dest.by = "jarvis" /\ registered /\ ref.by = "jarvis"

\* A start leaves what others have, ends where it was agreed, and says what it leaves
\* (service.py, start_task).
IsolationIsHonest == OthersWorkStays /\ SaysWhatRemains /\ RunsWhereAgreed

\* "Remove a task worktree - but never one that still holds changes" (gitsafe.py:505).
\* Violated: a start that fails removes the worktree by force.
ChangesAreKept == ~lost

\* "JARVIS will not reuse or remove it" of a branch with the planned name
\* (gitsafe.py:478-481).  Violated: one that is made after the look is removed as if it
\* were the start's own.
BranchesAreTheUsers == [][ref.by = "user" => ref'.at # 0]_vars

\* A repository with unresolved conflicts is refused (plan_isolation).  Violated: a status
\* command that failed reports none.
ConflictsStopIt == [][pc = "plan" /\ repo.conflict => pc' # "path"]_vars
=============================================================================

------------------------------ MODULE MCTaskWork ------------------------------
(* What a coding task does to the project and shows of it, on a small instance: *)
(* its edits, undo and export (TaskChanges), its preview server (Preview) and   *)
(* one browser check of it, which Preview has as the four answers it can give   *)
(* (BrowserCheck).  They share no variable, so a behaviour here is a behaviour  *)
(* of one of them while the others stay at their start: `workPart` says which.  *)
(* Names of theirs that are also names of CommandPolicy or CommandTree, or of   *)
(* one another, are others here.                                                *)
EXTENDS Integers, TLC

CONSTANTS
  FilePaths, Mine, Theirs, Absent, TaskEdits, MaxWrites, MaxRequests,
  Procs, WorkFaults, MaxReads,
  Kids, MaxErrors, MaxMishaps

VARIABLES
  workPart,
  tree, agent, mem, disk, backup, exportPlan, zip, request, first, taken, touched,
  report, tries, writes, requests,
  life, portOf, squat, handle, timer, armed, aged, ledger, state, threads, check,
  cancel, strangers, reads,
  browser, kid, known, family, said, broke, profile, stage, tab, defects, counted, left,
  pressed, late, found, opened, result, told, ended, unread, young, mishaps

changeVars == <<tree, agent, mem, disk, backup, exportPlan, zip, request, first, taken,
                touched, report, tries, writes, requests>>
previewVars == <<life, portOf, squat, handle, timer, armed, aged, ledger, state, threads,
                 check, cancel, strangers, reads>>
qaVars == <<browser, kid, known, family, said, broke, profile, stage, tab, defects, counted,
            left, pressed, late, found, opened, result, told, ended, unread, young, mishaps>>

Work == INSTANCE TaskChanges WITH
          Paths <- FilePaths, MaxEdits <- TaskEdits, plan <- exportPlan, req <- request
Pre  == INSTANCE Preview WITH
          MaxFaults <- WorkFaults, pc <- threads, faults <- strangers
QA   == INSTANCE BrowserCheck WITH
          MaxFaults <- MaxMishaps, cancel <- pressed, faults <- mishaps,
          root <- browser, captured <- family, at <- stage

ASSUME WorkAssumption == Work!ChangesAssumption
ASSUME PreviewAssumption ==
  Procs \cap {"none", "task", "loop"} = {} /\ WorkFaults \in Nat /\ MaxReads \in Nat
ASSUME CheckAssumption == MaxErrors \in Nat /\ MaxMishaps \in Nat

WorkInit ==
  /\ workPart \in {"changes", "preview", "check"} /\ Work!Init /\ Pre!Init /\ QA!Init
  /\ workPart # "changes" => tree = [p \in FilePaths |-> Absent]

WorkNext ==
  /\ UNCHANGED workPart
  /\ \/ workPart = "changes" /\ Work!Next /\ UNCHANGED <<previewVars, qaVars>>
     \/ workPart = "preview" /\ Pre!Next /\ UNCHANGED <<changeVars, qaVars>>
     \/ workPart = "check" /\ QA!Next /\ UNCHANGED <<changeVars, previewVars>>

WorkSpec == WorkInit /\ [][WorkNext]_<<workPart, changeVars, previewVars, qaVars>>

\* Paths, contents, processes and the browser's children are interchangeable.  The .cfg
\* gives the parts the same model values, so that the group stays small.
Symmetries == Permutations(FilePaths) \cup Permutations(Theirs) \cup Permutations(Mine)

\* Nothing of the user's is lost to an edit or its undo, and an undo leaves nothing out.
UndoGivesBack == Work!UndoGivesBack

\* An archive holds what its plan was made for, unless a file was written meanwhile.
ExportIsReviewed == Work!ExportIsReviewed

\* A preview is watched for as long as it is held, and its findings are its own.
PreviewIsAccountedFor == Pre!PreviewIsAccountedFor

\* A browser check says only what happened, and its report what it has left behind
\* (browser_qa.py, process_tree.py).
CheckIsHonest == QA!CheckIsHonest
=============================================================================

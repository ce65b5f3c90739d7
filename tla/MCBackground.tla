----------------------------- MODULE MCBackground -----------------------------
(* Work that goes on after its request was answered, on a small instance: a     *)
(* coding task (CodingSession), and what is downloaded and installed (Setup).   *)
(* They share no variable, so a behaviour here is a behaviour of one of them    *)
(* while the other stays at its start: `part` says which, and the fairness of   *)
(* each holds where it is the one that runs.  The speech model is there at the   *)
(* start only where no file of a voice is: no step looks at both.               *)
EXTENDS CodingSession

CONSTANTS Voices, MaxJobs, MaxPresses

VARIABLES
  part,
  job, thread, cancel, status, ollama, files, speech, proven, twice, presses

setupVars == <<job, thread, cancel, status, ollama, files, speech, proven, twice, presses>>

Panels == INSTANCE Setup WITH disk <- files

ASSUME SetupAssumption == "onnx" \notin Voices /\ {MaxJobs, MaxPresses} \subseteq Nat

WorkInit ==
  /\ part \in {"task", "setup"} /\ Init /\ Panels!Init
  /\ part = "task" => speech = "absent" /\ \A f \in DOMAIN files : files[f] = "absent"
  /\ speech = "absent" \/ \A f \in DOMAIN files : files[f] = "absent"

WorkNext ==
  /\ UNCHANGED part
  /\ \/ part = "task" /\ Next /\ UNCHANGED setupVars
     \/ part = "setup" /\ Panels!Next /\ UNCHANGED vars

\* The fairness of CodingSession!Spec and of Setup!Spec.
TaskFairness ==
  /\ WF_vars(part = "task" /\ LoopStep)
  /\ WF_vars(part = "task" /\ \E i \in Threads : ThreadStep(i))

SetupFairness ==
  \A j \in 1 .. MaxJobs :
    WF_setupVars(part = "setup" /\ j \in DOMAIN job /\ Panels!Step(j))

WorkSpec ==
  WorkInit /\ [][WorkNext]_<<part, vars, setupVars>> /\ TaskFairness /\ SetupFairness

\* What the panels say of a download or an installation is so.
StatusIsHonest == Panels!StatusIsHonest

\* A file that is whole stays whole.
GoodStaysGood == Panels!GoodStaysGood

\* A cancellation of the model's download ends it.
CancelIsAnswered == Panels!CancelIsAnswered
=============================================================================

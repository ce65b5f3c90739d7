------------------------------- MODULE Setup --------------------------------
(***************************************************************************)
(* What JARVIS downloads and installs when asked: Ollama itself            *)
(* (core/local_ai_install.py), a model for it (core/local_ai_models.py),   *)
(* the neural voice (voice/kokoro/install.py) and the speech-to-text model *)
(* (voice/model_installer.py), with the state the Local AI panel derives   *)
(* from them (core/local_ai.py).                                           *)
(*                                                                         *)
(* The four installers are classes of one shape: a lock, a polled state, a *)
(* cancel flag and one background thread, which is published under the     *)
(* lock and started after it.  A job here is one such thread.              *)
(***************************************************************************)
EXTENDS Integers, Sequences

CONSTANTS
  Voices,      \* voice packs of the neural voice
  MaxJobs,     \* bound: background threads that are ever made
  MaxPresses   \* bound: cancellations, and what is done outside JARVIS

VARIABLES
  job,      \* the background threads, in the order they were made
  thread,   \* self._thread of each installer, or 0
  cancel,   \* self._cancel of each installer
  status,   \* self._state.status of each installer
  ollama,   \* Ollama on this machine, and whether JARVIS says it put it there
  disk,     \* the files of the neural voice in its directory
  speech,   \* the directory of the speech model
  proven,   \* whether the model has generated text (history)
  twice,    \* installers whose start() met a thread that was not started (history)
  presses

vars == <<job, thread, cancel, status, ollama, disk, speech, proven, twice, presses>>

machine == <<ollama, disk, speech>>
control == <<thread, cancel, twice, presses>>

Kinds    == {"ollama", "model", "voice", "speech"}
Busy     == {"checking", "downloading", "verifying", "installing", "starting"}
Statuses == Busy \cup {"idle", "complete", "error", "cancelled"}
Files    == {"onnx"} \cup Voices
Places   == {"born", "download", "verify", "execute", "open", "find", "serve",
             "connect", "reading", "ended", "prove", "pending", "fetch", "moving",
             "info", "get", "remove", "dead"}

Job == [kind : Kinds, at : Places, voice : Voices, todo : SUBSET Files,
        staged : SUBSET Files, moved : SUBSET Files, stopped : BOOLEAN, lost : BOOLEAN,
        setup : {"none", "open", "refused", "ended", "killed"}]

TypeOK ==
  /\ job \in Seq(Job) /\ Len(job) <= MaxJobs
  /\ thread \in [Kinds -> 0..Len(job)]
  /\ cancel \in [Kinds -> BOOLEAN]
  /\ status \in [Kinds -> Statuses]
  /\ ollama \in [here : BOOLEAN, serving : BOOLEAN, model : BOOLEAN, ours : BOOLEAN]
  /\ disk \in [Files -> {"absent", "short", "bad", "good"}]
  /\ speech \in {"absent", "damaged", "whole"}
  /\ proven \in BOOLEAN /\ twice \subseteq Kinds /\ presses \in 0..MaxPresses

\* The voice may be there already, or be left broken by an earlier version.
Init ==
  /\ job = <<>> /\ thread = [k \in Kinds |-> 0]
  /\ cancel = [k \in Kinds |-> FALSE] /\ status = [k \in Kinds |-> "idle"]
  /\ ollama = [here |-> FALSE, serving |-> FALSE, model |-> FALSE, ours |-> FALSE]
  /\ disk \in [Files -> {"absent", "bad", "good"}]
  /\ speech \in {"absent", "whole"}
  /\ proven = FALSE /\ twice = {} /\ presses = 0

-----------------------------------------------------------------------------
(* The shape of a job. *)

Alive(j)   == job[j].at \notin {"born", "dead"}
Working(k) == \E j \in DOMAIN job : job[j].kind = k /\ job[j].at # "dead"

At(j, place) == job[j].at = place
Cancelled(j) == cancel[job[j].kind]

Sets(j, s)  == status' = [status EXCEPT ![job[j].kind] = s]
Goes(j, place) == job' = [job EXCEPT ![j].at = place]

\* The job sets a last status and returns; what it had staged is removed.
Ends(j, s) ==
  /\ Sets(j, s)
  /\ job' = [job EXCEPT ![j].at = "dead", ![j].staged = {}]

\* tempfile.mkdtemp() fails: it stands before the `try`, so the thread ends on an
\* exception that nothing catches, and the state is left as it is.
Vanishes(j) == job' = [job EXCEPT ![j].at = "dead", ![j].lost = TRUE]

\* start(): refused while the thread runs; is_alive() is false of a thread that has
\* been published and not started, and of one that has returned.
Begin(k, v) ==
  LET old == thread[k]
  IN /\ Len(job) < MaxJobs
     /\ IF old = 0 THEN TRUE ELSE ~Alive(old)
     /\ job' = Append(job, [kind |-> k, at |-> "born", voice |-> v, todo |-> {},
                            staged |-> {}, moved |-> {}, stopped |-> FALSE,
                            lost |-> FALSE, setup |-> "none"])
     /\ thread' = [thread EXCEPT ![k] = Len(job) + 1]
     /\ cancel' = [cancel EXCEPT ![k] = FALSE]
     /\ status' = [status EXCEPT ![k] = IF k = "speech" THEN "checking" ELSE "downloading"]
     /\ twice' = twice \cup {c \in {k} : old \in DOMAIN job /\ job[old].at = "born"}
     /\ UNCHANGED <<machine, proven, presses>>

FirstPlace == [ollama |-> "download", model |-> "connect", voice |-> "pending",
               speech |-> "info"]

\* thread.start(); the installer of Ollama makes its directory first of all.
Start(j) ==
  /\ At(j, "born")
  /\ \/ Goes(j, FirstPlace[job[j].kind])
     \/ job[j].kind = "ollama" /\ Vanishes(j)
  /\ UNCHANGED <<status, machine, proven, control>>

-----------------------------------------------------------------------------
(* OllamaInstaller *)

\* _download(): the token is looked at before each chunk and after the last; a
\* redirect to a host that is not allowed is refused before it is followed.
Download(j) ==
  /\ At(j, "download")
  /\ \/ Cancelled(j) /\ Ends(j, "cancelled")
     \/ ~Cancelled(j) /\ Goes(j, "verify") /\ Sets(j, "verifying")
     \/ Ends(j, "error")
  /\ UNCHANGED <<machine, proven, control>>

\* _verify(): a file without Ollama's signature is deleted.
Verify(j) ==
  /\ At(j, "verify")
  /\ \/ Ends(j, "error")
     \/ Cancelled(j) /\ Ends(j, "cancelled")
     \/ ~Cancelled(j) /\ Goes(j, "execute") /\ UNCHANGED status
  /\ UNCHANGED <<machine, proven, control>>

\* _execute(): Ollama's own installer is opened, or cannot be.
Execute(j) ==
  /\ At(j, "execute")
  /\ \/ /\ job' = [job EXCEPT ![j].at = "open", ![j].setup = "open"]
        /\ Sets(j, "installing")
     \/ Ends(j, "error")
  /\ UNCHANGED <<machine, proven, control>>

\* The person finishes it; where it put Ollama may not be visible yet.
SetupReturns(j) ==
  /\ At(j, "open")
  /\ \/ /\ job' = [job EXCEPT ![j].at = "find", ![j].setup = "ended"]
        /\ Sets(j, "starting")
        /\ ollama' \in {ollama, [ollama EXCEPT !.here = TRUE]}
     \/ /\ job' = [job EXCEPT ![j].at = "dead", ![j].setup = "refused"]
        /\ Sets(j, "error")
        /\ UNCHANGED ollama
  /\ UNCHANGED <<disk, speech, proven, control>>

\* subprocess.run() kills what it stops waiting for.
SetupTimesOut(j) ==
  /\ At(j, "open")
  /\ job' = [job EXCEPT ![j].at = "dead", ![j].setup = "killed"]
  /\ Sets(j, "error")
  /\ UNCHANGED <<machine, proven, control>>

\* _start_and_confirm(): until Ollama is found, for a minute at most.
Find(j) ==
  /\ At(j, "find")
  /\ \/ ollama.here /\ ollama' = [ollama EXCEPT !.ours = TRUE] /\ Goes(j, "serve")
        /\ UNCHANGED status
     \/ ~ollama.here /\ Cancelled(j) /\ Ends(j, "cancelled") /\ UNCHANGED ollama
     \/ ~ollama.here /\ Ends(j, "error") /\ UNCHANGED ollama
  /\ UNCHANGED <<disk, speech, proven, control>>

\* start_ollama() and wait_until_answering(): complete, whether it answers or not.
Serve(j) ==
  /\ At(j, "serve")
  /\ ollama' \in {ollama, [ollama EXCEPT !.serving = TRUE]}
  /\ Ends(j, "complete")
  /\ UNCHANGED <<disk, speech, proven, control>>

-----------------------------------------------------------------------------
(* ModelPuller *)

Connect(j) ==
  /\ At(j, "connect")
  /\ \/ ollama.serving /\ Goes(j, "reading") /\ UNCHANGED status
     \/ Ends(j, "error")
  /\ UNCHANGED <<machine, proven, control>>

\* Mutated form of ReadLine: a line of progress is read before the flag.
ReadLineFirst(j) ==
  /\ At(j, "reading")
  /\ \/ \E s \in {"downloading", "verifying"} : Sets(j, s) /\ UNCHANGED <<job, ollama>>
     \/ Cancelled(j) /\ Ends(j, "cancelled") /\ UNCHANGED ollama
     \/ /\ ~Cancelled(j) /\ Sets(j, "complete") /\ Goes(j, "ended")
        /\ ollama' = [ollama EXCEPT !.model = TRUE]
  /\ UNCHANGED <<disk, speech, proven, control>>

\* One line of Ollama's progress.  The flag is looked at first.
ReadLine(j) ==
  /\ At(j, "reading")
  /\ \/ Cancelled(j) /\ Ends(j, "cancelled") /\ UNCHANGED ollama
     \/ /\ ~Cancelled(j)
        /\ \/ \E s \in {"downloading", "verifying"} : Sets(j, s) /\ UNCHANGED <<job, ollama>>
           \/ Sets(j, "error") /\ Goes(j, "ended") /\ UNCHANGED ollama
           \/ /\ ollama' = [ollama EXCEPT !.model = TRUE]
              /\ Sets(j, "complete") /\ Goes(j, "ended")
  /\ UNCHANGED <<disk, speech, proven, control>>

\* The connection drops, says nothing for two minutes, or is closed in order.
StreamEnds(j) ==
  /\ At(j, "reading")
  /\ \/ Ends(j, "error")
     \/ Goes(j, "ended") /\ UNCHANGED status
  /\ UNCHANGED <<machine, proven, control>>

\* What the state says decides how it goes on.
AfterStream(j) ==
  /\ At(j, "ended")
  /\ CASE status["model"] = "complete"    -> Goes(j, "prove") /\ Sets(j, "verifying")
       [] status["model"] = "downloading" -> Ends(j, "error")
       [] OTHER -> Goes(j, "dead") /\ UNCHANGED status
  /\ UNCHANGED <<machine, proven, control>>

\* verify_with_real_inference()
Prove(j) ==
  /\ At(j, "prove")
  /\ \/ ollama.serving /\ ollama.model /\ proven' = TRUE /\ Ends(j, "complete")
     \/ UNCHANGED proven /\ Ends(j, "error")
  /\ UNCHANGED <<machine, control>>

-----------------------------------------------------------------------------
(* VoiceInstaller *)

\* Mutated form of Missing: whatever the voice needs is fetched again.
MissingAll(v) == {"onnx", v}

\* _pending(): the files whose size or digest is not right.
Missing(v) == {f \in {"onnx", v} : disk[f] # "good"}

Pending(j) ==
  /\ At(j, "pending")
  /\ IF Missing(job[j].voice) = {}
       THEN Ends(j, "complete")
       ELSE /\ \/ job' = [job EXCEPT ![j].at = "fetch", ![j].todo = Missing(job[j].voice)]
               \/ Vanishes(j)
            /\ UNCHANGED status
  /\ UNCHANGED <<machine, proven, control>>

\* A file that does not match its digest is an error like any other.
Fetch(j) ==
  /\ At(j, "fetch")
  /\ \/ Cancelled(j) /\ Ends(j, "cancelled")
     \/ job[j].todo # {} /\ Ends(j, "error")
     \/ /\ ~Cancelled(j)
        /\ \E f \in job[j].todo :
             job' = [job EXCEPT ![j].todo = job[j].todo \ {f}, ![j].staged = job[j].staged \cup {f}]
        /\ UNCHANGED status
     \/ /\ ~Cancelled(j) /\ job[j].todo = {}
        /\ Goes(j, "moving") /\ Sets(j, "installing")
  /\ UNCHANGED <<machine, proven, control>>

Placed(f) == disk' = [disk EXCEPT ![f] = "good"]

\* Mutated form of Move: the token is looked at between two files.
MoveCancelled(j) ==
  /\ At(j, "moving")
  /\ \/ /\ ~Cancelled(j)
        /\ \E f \in job[j].staged :
             /\ Placed(f)
             /\ job' = [job EXCEPT ![j].staged = job[j].staged \ {f}, ![j].moved = job[j].moved \cup {f}]
             /\ UNCHANGED status
     \/ Cancelled(j) /\ Ends(j, "cancelled") /\ UNCHANGED disk
     \/ job[j].staged = {} /\ Ends(j, "complete") /\ UNCHANGED disk
  /\ UNCHANGED <<ollama, speech, proven, control>>

\* Only verified files move; a file that is there already is written over, and that
\* may fail halfway.
Move(j) ==
  /\ At(j, "moving")
  /\ \/ \E f \in job[j].staged :
          \/ /\ Placed(f)
             /\ job' = [job EXCEPT ![j].staged = job[j].staged \ {f}, ![j].moved = job[j].moved \cup {f}]
             /\ UNCHANGED status
          \/ disk' \in {disk, [disk EXCEPT ![f] = "short"]} /\ Ends(j, "error")
     \/ job[j].staged = {} /\ Ends(j, "complete") /\ UNCHANGED disk
  /\ UNCHANGED <<ollama, speech, proven, control>>

-----------------------------------------------------------------------------
(* ModelInstaller *)

\* fetch_model_info(), and a directory for the files.
Info(j) ==
  /\ At(j, "info")
  /\ \/ (Goes(j, "get") \/ Vanishes(j)) /\ Sets(j, "downloading")
     \/ Ends(j, "error")
  /\ UNCHANGED <<machine, proven, control>>

\* Before each file and each chunk the token is looked at, but not after the last.
Get(j) ==
  /\ At(j, "get")
  /\ \/ Cancelled(j) /\ Ends(j, "cancelled")
     \/ ~Cancelled(j) /\ Sets(j, "downloading") /\ UNCHANGED job
     \/ Goes(j, "remove") /\ Sets(j, "installing")
     \/ Ends(j, "error")
  /\ UNCHANGED <<machine, proven, control>>

\* The old model is removed first; a file of it that is in use stops that halfway.
Replace(j) ==
  /\ At(j, "remove")
  /\ \/ speech' = "whole" /\ Ends(j, "complete")
     \/ /\ speech' \in {"absent"} \cup (IF speech = "absent" THEN {} ELSE {"damaged"})
        /\ Ends(j, "error")
  /\ UNCHANGED <<ollama, disk, proven, control>>

-----------------------------------------------------------------------------
(* What the user presses, here and outside JARVIS. *)

Press == presses < MaxPresses /\ presses' = presses + 1

\* The routes: Ollama is not installed over an Ollama, and a model needs one.
Install(k, v) ==
  /\ k = "ollama" => ~ollama.here
  /\ k = "model" => ollama.here
  /\ Begin(k, v)

\* cancel(): the flag of the installer, whichever thread is running.
Cancel(k) ==
  /\ Press
  /\ Working(k)
  /\ cancel' = [cancel EXCEPT ![k] = TRUE]
  /\ job' = [j \in DOMAIN job |->
       IF job[j].kind = k /\ job[j].at \in {"download", "verify"}
         THEN [job[j] EXCEPT !.stopped = TRUE] ELSE job[j]]
  /\ UNCHANGED <<thread, status, machine, proven, twice>>

\* POST /local-ai/start
StartOllama ==
  /\ Press
  /\ ollama.here
  /\ ollama' \in {ollama, [ollama EXCEPT !.serving = TRUE]}
  /\ UNCHANGED <<job, thread, cancel, status, disk, speech, proven, twice>>

\* Ollama is installed, started, stopped or given a model by hand.
ByHand ==
  /\ Press
  /\ ollama' \in {[ollama EXCEPT !.here = TRUE, !.serving = TRUE],
                  [ollama EXCEPT !.serving = ollama.here /\ ~ollama.serving],
                  [ollama EXCEPT !.model = ollama.model \/ ollama.serving]}
  /\ UNCHANGED <<job, thread, cancel, status, disk, speech, proven, twice>>

\* The server process ends with its daemon threads: a file that is being written is
\* left as it is, and so is an installer that is open.
Restart ==
  /\ Press
  /\ job # <<>>
  /\ \/ UNCHANGED disk
     \/ \E j \in DOMAIN job : At(j, "moving") /\
          \E f \in job[j].staged : disk' = [disk EXCEPT ![f] = "short"]
  /\ job' = [j \in DOMAIN job |-> [job[j] EXCEPT !.at = "dead", !.staged = {}, !.lost = FALSE]]
  /\ thread' = [k \in Kinds |-> 0] /\ cancel' = [k \in Kinds |-> FALSE]
  /\ status' = [k \in Kinds |-> "idle"]
  /\ UNCHANGED <<ollama, speech, proven, twice>>

-----------------------------------------------------------------------------
(* The specification. *)

Step(j) ==
  \/ Start(j)
  \/ Download(j) \/ Verify(j) \/ Execute(j) \/ SetupReturns(j) \/ SetupTimesOut(j)
  \/ Find(j) \/ Serve(j)
  \/ Connect(j) \/ ReadLine(j) \/ StreamEnds(j) \/ AfterStream(j) \/ Prove(j)
  \/ Pending(j) \/ Fetch(j) \/ Move(j)
  \/ Info(j) \/ Get(j) \/ Replace(j)

Next ==
  \/ \E k \in Kinds : Cancel(k) \/ \E v \in Voices : Install(k, v)
  \/ \E j \in DOMAIN job : Step(j)
  \/ StartOllama \/ ByHand \/ Restart

\* A job goes on: every wait in it has a timeout.
Spec == Init /\ [][Next]_vars /\ \A j \in 1..MaxJobs : WF_vars(j \in DOMAIN job /\ Step(j))

-----------------------------------------------------------------------------
(* What the Local AI panel says. *)

\* describe(): the two background jobs first, their errors too, then the machine.
Panel ==
  IF status["ollama"] \in Busy THEN "installing"
  ELSE IF status["ollama"] = "error" THEN "failed"
  ELSE IF status["model"] \in Busy THEN "downloading"
  ELSE IF status["model"] = "error" THEN "failed"
  ELSE IF ollama.serving /\ ollama.model THEN "ready"
  ELSE IF ollama.serving /\ ollama.here THEN "no models"
  ELSE IF ollama.here THEN "not running"
  ELSE "not installed"

-----------------------------------------------------------------------------
(* Properties. *)

\* The job that an installer published last - or one of two that overlapped - died
\* because it could not make its directory.
DiedUnheard(k) ==
  \E j \in DOMAIN job : job[j].kind = k /\ job[j].lost /\ (j = thread[k] \/ k \in twice)

\* An installer that shows progress has a thread that makes it (the pull of a model
\* excepted, whose stream may end while it verifies): a job says how it ended, whatever
\* ends it, unless it had no directory to work in (local_ai_install.py, kokoro/install.py
\* and model_installer.py, _run).
BusyIsReal ==
  \A k \in Kinds \ {"model"} : status[k] \in Busy => Working(k) \/ DiedUnheard(k)

\* "A background thread must never die silently" (local_ai_install.py, the comment on
\* the last `except` of _run): the same without the exception.
NeverDiesSilently == \A k \in Kinds \ {"model"} : status[k] \in Busy => Working(k)

\* A file of the voice that is right stays right: an installation that is cancelled,
\* fails or is cut off by the end of the process leaves it as it was, unless two
\* installations ran at once (kokoro/install.py, "Atomic" and "Resumable by retry").
GoodStaysGood ==
  [][\A f \in Files : disk[f] = "good" /\ "voice" \notin twice => disk'[f] = "good"]_vars

\* A voice installation that reports "Nothing was changed" has moved no file
\* (kokoro/install.py, _cancelled).
CancelledChangesNothing ==
  status["voice"] = "cancelled" /\ "voice" \notin twice =>
    thread["voice"] # 0 /\ job[thread["voice"]].moved = {}

\* The pull of a model is complete only when the model has answered a question
\* ("Not finished until it answers": local_ai_models.py, module docstring).
CompleteMeansAnswered ==
  status["model"] = "complete" => proven \/ \E j \in DOMAIN job : At(j, "ended")

\* The uninstaller is told that Ollama is ours only if an installer that JARVIS ran
\* reported success (local_ai_install.py, installed_by_jarvis).
OursOnlyIfInstalled ==
  ollama.ours => \E j \in DOMAIN job : job[j].setup = "ended"

\* A cancellation during the download or the check of the signature is kept: Ollama's
\* installer is not opened afterwards, unless a second start took the flag back
\* (local_ai_install.py, _cancelled; local_ai_routes.py, cancel_local_ai_install).
CancelledIsNotRun ==
  "ollama" \notin twice => \A j \in DOMAIN job : job[j].stopped => job[j].setup = "none"

\* What the panels and the uninstaller are told is so, and what is reported as cancelled did
\* not happen and does not happen any more.
StatusIsHonest ==
  /\ BusyIsReal /\ CompleteMeansAnswered /\ OursOnlyIfInstalled
  /\ CancelledChangesNothing /\ CancelledIsNotRun

\* A cancellation of the pull, whose stream Ollama may keep going for hours, ends it,
\* unless another start takes the flag back (local_ai_models.py, _consume; the other
\* installers poll their flag in the same place).
CancelIsAnswered == cancel["model"] ~> ~Working("model") \/ ~cancel["model"]

\* "Press Try again, or install Ollama yourself and press Re-check" (local_ai.py,
\* _in_progress): with Ollama running and a model in it, and nothing under way, the
\* panel says ready.
RecheckRecovers ==
  /\ ollama.serving /\ ollama.model
  /\ ~Working("ollama") /\ ~Working("model")
  => Panel = "ready"
=============================================================================

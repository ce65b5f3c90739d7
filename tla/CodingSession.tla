---------------------------- MODULE CodingSession ----------------------------
(***************************************************************************)
(* One task of the Coding Workspace while it is in flight                  *)
(* (app/coding/service.py, sessions.py, loop.py, and of agent.py,          *)
(* runner.py, preview.py and tasks.py the parts that move its state).      *)
(*                                                                         *)
(* Three kinds of actor share the task's runner:                           *)
(*   - thread 0, started by start_task, runs TaskRunner.run() inside       *)
(*     _run_and_report;                                                    *)
(*   - threads 1 .. Decisions, one for each accepted decide(), run         *)
(*     TaskRunner.approve(granted) inside _continue;                       *)
(*   - the event loop runs the endpoints.  They are coroutines without an  *)
(*     await, so one endpoint ends before the next begins; between the     *)
(*     calls of one endpoint the threads go on.                            *)
(*                                                                         *)
(* A proposal of the model is its kind.  A command or preview that needs   *)
(* the user's approval is further told apart by the version of the         *)
(* project's declaration it would run: that is what approval_key() names.  *)
(***************************************************************************)
EXTENDS Naturals, FiniteSets

CONSTANTS
  Decisions,    \* how many decide() requests are accepted
  Steps,        \* limits.MAX_STEPS, the model calls one task may make
  BadTurns,     \* unusable replies in a row that end the task (3 in the code)
  MaxEdits      \* bound: how often somebody edits the project's declaration

ASSUME SessionBounds ==
  /\ Decisions \in Nat /\ Steps \in Nat /\ MaxEdits \in Nat
  /\ BadTurns \in Nat \ {0}

VARIABLES
  disk,       \* the state in the task's record on disk, "none" or "deleted"
  mem,        \* the state in the runner's own copy of the record
  live,       \* sessions._live holds the runner
  loop,       \* where the event loop is inside the stop endpoint, or "idle"
  stop,       \* context.stop_requested
  timeUp,     \* MAX_ELAPSED_SECONDS have gone by
  state,      \* TaskRunner.state
  pending,    \* TaskRunner._pending
  tokens,     \* context.approval_tokens
  steps,      \* context.budget.steps
  th,         \* the threads
  cmd,        \* the command of each thread: its CommandHandle and its process
  ledger,     \* the threads whose command handle is in runner.ledger
  cancelled,  \* the threads whose command handle was told to stop
  pv,         \* the task's preview process
  ver,        \* the version of the project's declared scripts
  edits, decided

server == <<live, loop>>
record == <<disk, mem>>
runner == <<state, pending, tokens, steps>>
signals == <<stop, timeUp>>
procs == <<cmd, ledger, cancelled, pv>>
world == <<ver, edits, decided>>
vars == <<record, server, signals, runner, th, procs, world>>

Threads == 0 .. Decisions
Versions == {1, 2}

\* Kinds of proposal: what runs at once, what approval_key() names, and the
\* question request_approval asks, which has no key.
FreeKinds == {"safe", "command", "stop_preview", "finish"}
KeyedKinds == {"script", "delete", "preview"}
Kinds == FreeKinds \cup KeyedKinds \cup {"question"}

NoKey == [kind |-> "none", ver |-> 0]
Keys == [kind : Kinds \cup {"none"}, ver : Versions \cup {0}]

\* command_policy.approval_key() of a proposal, as the project is now.
KeyNow(k) == [kind |-> k, ver |-> IF k \in {"script", "preview"} THEN ver ELSE 0]

TaskStates == {"awaiting_plan_approval", "running", "awaiting_approval",
               "stopped", "failed", "completed", "interrupted"}

\* tasks.interrupted: the states nothing can be in when the server starts.
Unfinished == {"awaiting_plan_approval", "running", "awaiting_approval"}

\* LoopState values after which _continue unregisters the runner.
Over == {"completed", "failed", "limit", "stopped"}

Resting == [pc |-> "off", from |-> "run", kind |-> "none", key |-> NoKey,
            grant |-> NoKey, granted |-> FALSE, bad |-> 0, out |-> "ok"]

NoCommand == [i \in Threads |-> "none"]

Init ==
  /\ disk = "none" /\ mem = "awaiting_plan_approval"
  /\ live = FALSE /\ loop = "idle" /\ stop = FALSE /\ timeUp = FALSE
  /\ state = "running" /\ pending = NoKey /\ tokens = {} /\ steps = Steps
  /\ th = [i \in Threads |-> Resting]
  /\ cmd = NoCommand /\ ledger = {} /\ cancelled = {} /\ pv = "none"
  /\ ver = 1 /\ edits = 0 /\ decided = 0

-----------------------------------------------------------------------------
(* Threads: small steps shared by run() and approve() *)

At(i, pc) == th[i].pc = pc
Goto(i, pc) == th' = [th EXCEPT ![i].pc = pc]

\* context.check_alive() raises.
Stopped == stop \/ timeUp

\* run() returns through _stopped, _failed, _limit or _finish: the thread
\* goes on to _cleanup_owned.
End(i, out) == th' = [th EXCEPT ![i] = [Resting EXCEPT !.pc = "clean", !.out = out]]

\* run() or approve() is about to return.
Return(i, pc) == th' = [th EXCEPT ![i] = [Resting EXCEPT !.pc = pc]]

\* run() begins: nothing is collected yet.
Run(i) == th' = [th EXCEPT ![i] = [Resting EXCEPT !.pc = "top"]]

\* Mutated form of Escape: nothing is recorded on the task's own thread either.
EscapeSilently(i) == Return(i, "leave")

\* An exception nobody expected leaves run() or approve().  _run_and_report
\* cleans up and records the failure; _continue only logs it.
Escape(i) ==
  IF i = 0 THEN End(i, "broken") ELSE Return(i, "leave")

\* while True: spend a step, see whether the task was stopped.
Top(i) ==
  /\ At(i, "top")
  /\ \/ /\ steps = 0
        /\ End(i, "limit")
        /\ UNCHANGED steps
     \/ /\ steps > 0
        /\ steps' = steps - 1
        /\ IF Stopped THEN End(i, "stopped") ELSE Goto(i, "ask")
  /\ UNCHANGED <<record, server, signals, state, pending, tokens, procs, world>>

\* _ask_model() returns: with a failure of the provider, with the stop that
\* came meanwhile, with a reply that is no turn, an empty turn or a turn.
Ask(i) ==
  /\ At(i, "ask")
  /\ \/ End(i, "failed")
     \/ stop /\ End(i, "stopped")
     \/ /\ ~stop
        /\ \/ Goto(i, "top")
           \/ Goto(i, "propose")
           \/ /\ th[i].bad + 1 < BadTurns
              /\ th' = [th EXCEPT ![i] = [@ EXCEPT !.pc = "top", !.bad = th[i].bad + 1]]
           \/ /\ th[i].bad + 1 >= BadTurns
              /\ End(i, "failed")
  /\ UNCHANGED <<record, server, signals, runner, procs, world>>

\* The thread has an outcome of one proposal, to be recorded.
Outcome(i, from, k, out) ==
  th' = [th EXCEPT ![i] =
           [@ EXCEPT !.pc = "record", !.from = from, !.kind = "none", !.bad = 0, !.out = out,
                     !.key = IF out = "request" THEN KeyNow(k) ELSE NoKey]]

\* The thread is about to carry a proposal out.
Dispatch(i, from, k, pc) ==
  th' = [th EXCEPT ![i] = [@ EXCEPT !.pc = pc, !.from = from, !.kind = k, !.bad = 0,
                                    !.key = KeyNow(k)]]

\* agent.execute_proposal() once check_alive() let it pass.
Execute(i, from, k) ==
  \/ /\ k \in FreeKinds \ {"command", "stop_preview"}
     /\ Outcome(i, from, k, IF k = "finish" THEN "completed" ELSE "ok")
     /\ UNCHANGED <<tokens, pv>>
  \/ /\ k = "stop_preview"
     /\ pv' = "none"
     /\ Outcome(i, from, k, "ok")
     /\ UNCHANGED tokens
  \/ /\ k = "command"
     /\ Dispatch(i, from, k, "track")
     /\ UNCHANGED <<tokens, pv>>
  \/ /\ k \in KeyedKinds
     /\ KeyNow(k) \in tokens
     /\ tokens' = tokens \ {KeyNow(k)}
     /\ Dispatch(i, from, k, CASE k = "script" -> "track"
                               [] k = "delete" -> "remove"
                               [] k = "preview" -> "serve")
     /\ UNCHANGED pv
  \/ /\ k \in KeyedKinds
     /\ KeyNow(k) \notin tokens
     /\ Outcome(i, from, k, "request")
     /\ UNCHANGED <<tokens, pv>>
  \/ /\ k = "question"
     /\ Outcome(i, from, k, "request")
     /\ UNCHANGED <<tokens, pv>>

\* for proposal in turn.proposals: the model proposes anything.
Propose(i) ==
  /\ At(i, "propose")
  /\ \/ Stopped /\ End(i, "stopped") /\ UNCHANGED <<tokens, pv>>
     \/ ~Stopped /\ Escape(i) /\ UNCHANGED <<tokens, pv>>
     \/ ~Stopped /\ \E k \in Kinds : Execute(i, "run", k)
  /\ UNCHANGED <<record, server, signals, state, pending, steps,
                 cmd, ledger, cancelled, world>>

-----------------------------------------------------------------------------
(* Carrying a proposal out *)

\* A step was carried out, or failed in a way the model is told about.
Done(i) ==
  th' = [th EXCEPT ![i] = [@ EXCEPT !.pc = "record", !.kind = "none", !.key = NoKey]]

\* editing.apply of a file the user let go.
Remove(i) ==
  /\ At(i, "remove")
  /\ Done(i)
  /\ UNCHANGED <<record, server, signals, runner, procs, world>>

\* ledger.track(handle, task_id): tracked before there is a process.
Track(i) ==
  /\ At(i, "track")
  /\ cmd' = [cmd EXCEPT ![i] = "tracked"]
  /\ ledger' = ledger \cup {i}
  /\ cancelled' = cancelled \ {i}
  /\ Goto(i, "spawn")
  /\ UNCHANGED <<record, server, signals, runner, pv, world>>

\* ledger.forget(handle), in the finally of _run_command.
Forget(i) ==
  /\ cmd' = [cmd EXCEPT ![i] = "none"]
  /\ ledger' = ledger \ {i}
  /\ cancelled' = cancelled \ {i}

\* CommandHandle.start(): Popen, or the program cannot be started.
Spawn(i) ==
  /\ At(i, "spawn")
  /\ \/ /\ cmd' = [cmd EXCEPT ![i] = "spawned"]
        /\ Goto(i, "identify")
        /\ UNCHANGED <<ledger, cancelled>>
     \/ Forget(i) /\ Done(i)
  /\ UNCHANGED <<record, server, signals, runner, pv, world>>

\* CommandHandle.start() learns the identity stop() needs to end it.
Identify(i) ==
  /\ At(i, "identify")
  /\ cmd' = [cmd EXCEPT ![i] = "running"]
  /\ Goto(i, "wait")
  /\ UNCHANGED <<record, server, signals, runner, ledger, cancelled, pv, world>>

\* runner.run() returns: the process ended, by itself or by a stop, or the
\* run loop ends it because it was cancelled or its time limit is reached.
Wait(i) ==
  /\ At(i, "wait")
  /\ Forget(i) /\ Done(i)
  /\ UNCHANGED <<record, server, signals, runner, pv, world>>

\* PreviewSession.start(): one is running, no process came up, or one did,
\* which neither the session nor the ledger knows yet.
Serve(i) ==
  /\ At(i, "serve")
  /\ \/ Done(i) /\ UNCHANGED pv
     \/ pv = "none" /\ pv' = "spawned" /\ Goto(i, "adopt")
  /\ UNCHANGED <<record, server, signals, runner, cmd, ledger, cancelled, world>>

\* ledger.track and self._handle = handle.
Adopt(i) ==
  /\ At(i, "adopt")
  /\ pv' = "up"
  /\ Goto(i, "ready")
  /\ UNCHANGED <<record, server, signals, runner, cmd, ledger, cancelled, world>>

\* The wait for the listener: it answers, or the preview is stopped.
Ready(i) ==
  /\ At(i, "ready")
  /\ pv' \in {pv, "none"}
  /\ Done(i)
  /\ UNCHANGED <<record, server, signals, runner, cmd, ledger, cancelled, world>>

\* PreviewSession.stop(): only a preview the session has adopted is ended.
StopPreview == pv' = IF pv = "up" THEN "none" ELSE pv

\* ledger.stop_owner(): every tracked handle is told to stop; a process is
\* ended at once if its identity is known already.
StopOwner ==
  /\ cancelled' = cancelled \cup ledger
  /\ ledger' = {}
  /\ cmd' = [i \in Threads |->
               IF i \in ledger /\ cmd[i] = "running" THEN "ended" ELSE cmd[i]]

-----------------------------------------------------------------------------
(* Recording, pausing, ending *)

\* Mutated form of Record: what is left of a grant is kept.
RecordKeepingGrant(i) ==
  /\ At(i, "record")
  /\ disk' = mem
  /\ \/ th[i].out = "request" /\ Goto(i, "pause")
     \/ th[i].out = "completed" /\ End(i, "completed")
     \/ th[i].out = "ok" /\ Run(i)
  /\ UNCHANGED <<mem, server, signals, runner, procs, world>>

\* _record(outcome); inside approve() what is left of the grant is revoked
\* first.  Then the loop pauses, finishes, takes the next proposal or asks.
Record(i) ==
  /\ At(i, "record")
  /\ tokens' = IF th[i].from = "approve" THEN tokens \ {th[i].grant} ELSE tokens
  /\ disk' = mem
  /\ CASE th[i].out = "request" -> Goto(i, "pause")
       [] th[i].out = "completed" -> End(i, "completed")
       [] OTHER ->
            \/ Run(i)
            \/ /\ th[i].from = "run"
               /\ th' = [th EXCEPT ![i] = [Resting EXCEPT !.pc = "propose"]]
  /\ UNCHANGED <<mem, server, signals, state, pending, steps, procs, world>>

\* with self._lock: self._pending = (proposal, request).
Pause(i) ==
  /\ At(i, "pause")
  /\ pending' = th[i].key
  /\ Return(i, "paused")
  /\ UNCHANGED <<record, server, signals, state, tokens, steps, procs, world>>

\* self.state = AWAITING_APPROVAL and tasks.set_state(...), and run() returns.
Paused(i) ==
  /\ At(i, "paused")
  /\ state' = "awaiting_approval"
  /\ mem' = "awaiting_approval" /\ disk' = "awaiting_approval"
  /\ Goto(i, "leave")
  /\ UNCHANGED <<server, signals, pending, tokens, steps, procs, world>>

\* Mutated form of Clean: the preview is forgotten.
CleanCommandsOnly(i) ==
  /\ At(i, "clean")
  /\ StopOwner
  /\ Goto(i, "write")
  /\ UNCHANGED <<record, server, signals, runner, pv, world>>

\* _cleanup_owned().
Clean(i) ==
  /\ At(i, "clean")
  /\ StopPreview
  /\ StopOwner
  /\ Goto(i, "write")
  /\ UNCHANGED <<record, server, signals, runner, world>>

\* The record's state for each way out: a limit is a stop, what nobody
\* expected is a failure.
Ending(out) ==
  CASE out = "limit" -> "stopped" [] out = "broken" -> "failed" [] OTHER -> out

\* self.state = ... and tasks.set_state(...) of _finish, _stopped, _failed
\* and _limit, and of the except clause of _run_and_report.
Write(i) ==
  /\ At(i, "write")
  /\ state' = IF th[i].out = "broken" THEN state ELSE th[i].out
  /\ mem' = Ending(th[i].out) /\ disk' = Ending(th[i].out)
  /\ Return(i, "leave")
  /\ UNCHANGED <<server, signals, pending, tokens, steps, procs, world>>

\* The finally clauses: _run_and_report always unregisters the runner,
\* _continue when the runner is over.
Leave(i) ==
  /\ At(i, "leave")
  /\ live' = IF i = 0 \/ state \in Over THEN FALSE ELSE live
  /\ th' = [th EXCEPT ![i] = Resting]
  /\ UNCHANGED <<record, loop, signals, runner, procs, world>>

-----------------------------------------------------------------------------
(* TaskRunner.approve *)

\* Mutated form of Approve: the request is read and stays pending.
ApproveKeeping(i) ==
  /\ At(i, "approve")
  /\ IF pending = NoKey THEN Return(i, "leave") ELSE Run(i)
  /\ UNCHANGED <<record, server, signals, runner, procs, world>>

\* The pending request is taken, under the lock; a grant becomes a token for
\* its key, a refusal goes back to the model.
Approve(i) ==
  /\ At(i, "approve")
  /\ pending' = NoKey
  /\ \/ /\ pending = NoKey
        /\ Return(i, "leave")
        /\ UNCHANGED tokens
     \/ /\ pending # NoKey /\ ~th[i].granted
        /\ Run(i)
        /\ UNCHANGED tokens
     \/ /\ pending # NoKey /\ th[i].granted
        /\ tokens' = IF pending.kind \in KeyedKinds THEN tokens \cup {pending} ELSE tokens
        /\ th' = [th EXCEPT ![i] = [@ EXCEPT !.pc = "exec", !.kind = pending.kind,
                                             !.grant = pending]]
  /\ UNCHANGED <<record, server, signals, state, steps, procs, world>>

\* execute_proposal() of the approved proposal: a stop is an exception here,
\* and a declaration that changed since makes it ask again.
Exec(i) ==
  /\ At(i, "exec")
  /\ \/ Return(i, "leave") /\ UNCHANGED <<tokens, pv>>
     \/ ~Stopped /\ Execute(i, "approve", th[i].kind)
  /\ UNCHANGED <<record, server, signals, state, pending, steps,
                 cmd, ledger, cancelled, world>>

-----------------------------------------------------------------------------
(* The endpoints, on the event loop *)

\* POST /coding/tasks/plan.
Plan ==
  /\ loop = "idle" /\ disk = "none"
  /\ disk' = "awaiting_plan_approval"
  /\ UNCHANGED <<mem, server, signals, runner, th, procs, world>>

\* POST /coding/tasks/start: the runner is registered and its thread
\* started, or setup failed and everything is taken back.
Start ==
  /\ loop = "idle" /\ disk = "awaiting_plan_approval" /\ ~live
  /\ \/ /\ mem' = "running" /\ disk' = "running"
        /\ live' = TRUE
        /\ Run(0)
     \/ /\ mem' = "failed" /\ disk' = "failed"
        /\ UNCHANGED <<live, th>>
  /\ UNCHANGED <<loop, signals, runner, procs, world>>

\* POST /coding/tasks/decide: somebody answers what the task waits on.
Decide ==
  /\ loop = "idle" /\ live /\ pending # NoKey
  /\ decided < Decisions
  /\ decided' = decided + 1
  /\ \E granted \in BOOLEAN :
       th' = [th EXCEPT ![decided + 1] =
                [Resting EXCEPT !.pc = "approve", !.granted = granted]]
  /\ UNCHANGED <<record, server, signals, runner, procs, ver, edits>>

\* The stop endpoint reads the record and leaves a finished one alone.
ReadRecord ==
  loop' = IF disk \in {"deleted", "completed", "failed"} THEN "idle" ELSE "write"

\* POST /coding/tasks/stop, its calls in order: request_stop, the preview,
\* the ledger, unregister, and the record read and then written; only the
\* record if there is no session.
StopRequest ==
  /\ loop = "idle" /\ disk # "none"
  /\ IF live THEN stop' = TRUE /\ loop' = "preview"
             ELSE ReadRecord /\ UNCHANGED stop
  /\ UNCHANGED <<record, live, timeUp, runner, th, procs, world>>

StopThePreview ==
  /\ loop = "preview" /\ loop' = "ledger"
  /\ StopPreview
  /\ UNCHANGED <<record, live, signals, runner, th, cmd, ledger, cancelled, world>>

StopTheCommands ==
  /\ loop = "ledger" /\ loop' = "unregister"
  /\ StopOwner
  /\ UNCHANGED <<record, live, signals, runner, th, pv, world>>

StopUnregisters ==
  /\ loop = "unregister" /\ ReadRecord
  /\ live' = FALSE
  /\ UNCHANGED <<record, signals, runner, th, procs, world>>

StopWrites ==
  /\ loop = "write" /\ loop' = "idle"
  /\ disk' = "stopped"
  /\ UNCHANGED <<mem, live, signals, runner, th, procs, world>>

\* DELETE /coding/tasks/{id}: refused while a session is live.
Delete ==
  /\ loop = "idle" /\ ~live /\ disk \in TaskStates
  /\ disk' = "deleted"
  /\ UNCHANGED <<mem, server, signals, runner, th, procs, world>>

-----------------------------------------------------------------------------
(* The rest of the world *)

\* Somebody, or a file the task itself writes, changes the declared scripts.
\* Only execute_proposal reads them, so an edit is put off until it is about
\* to, and is of interest only once a decision was made on an older version.
Edit ==
  /\ decided > 0 /\ \E i \in Threads : th[i].pc \in {"propose", "exec"}
  /\ edits < MaxEdits /\ edits' = edits + 1
  /\ ver' \in Versions \ {ver}
  /\ UNCHANGED <<record, server, signals, runner, th, procs, decided>>

\* Only check_alive() looks at the clock, so time is up just before it does.
TimePasses ==
  /\ ~Stopped /\ \E i \in Threads : th[i].pc \in {"top", "propose", "exec"}
  /\ timeUp' = TRUE
  /\ UNCHANGED <<record, server, stop, runner, th, procs, world>>

\* The preview's lifetime timer, or the preview exits.
PreviewEnds ==
  /\ pv = "up" /\ pv' = "none"
  /\ UNCHANGED <<record, server, signals, runner, th, cmd, ledger, cancelled, world>>

\* The server process ends, whatever it was doing, and a new one reclassifies
\* the record; its children are the launcher's to end.  Before there is a
\* task a restart has nothing to lose.
Restart ==
  /\ disk # "none"
  /\ disk' = IF disk \in Unfinished THEN "interrupted" ELSE disk
  /\ live' = FALSE /\ loop' = "idle"
  /\ stop' = FALSE /\ timeUp' = FALSE
  /\ state' = "running" /\ pending' = NoKey /\ tokens' = {} /\ steps' = Steps
  /\ th' = [i \in Threads |-> Resting]
  /\ cmd' = NoCommand /\ ledger' = {} /\ cancelled' = {} /\ pv' = "none"
  /\ mem' = "awaiting_plan_approval"
  /\ UNCHANGED <<ver, edits, decided>>

-----------------------------------------------------------------------------

\* What the code does next by itself, in each thread and on the event loop.
ThreadStep(i) ==
  \/ Top(i) \/ Ask(i) \/ Propose(i) \/ Remove(i)
  \/ Track(i) \/ Spawn(i) \/ Identify(i) \/ Wait(i)
  \/ Serve(i) \/ Adopt(i) \/ Ready(i)
  \/ Record(i) \/ Pause(i) \/ Paused(i)
  \/ Clean(i) \/ Write(i) \/ Leave(i)
  \/ Approve(i) \/ Exec(i)

LoopStep ==
  StopThePreview \/ StopTheCommands \/ StopUnregisters \/ StopWrites

Requests == Plan \/ Start \/ Decide \/ StopRequest \/ Delete

World == Edit \/ TimePasses \/ PreviewEnds \/ Restart

Next ==
  \/ \E i \in Threads : ThreadStep(i)
  \/ LoopStep \/ Requests \/ World

\* The operating system runs the threads (that some thread goes on is enough),
\* the event loop finishes the endpoint it is in, and provider calls, commands and the wait for a preview
\* end at their time limits.  Nothing is assumed of a user or a preview.
Spec ==
  Init /\ [][Next]_vars /\ WF_vars(LoopStep)
       /\ WF_vars(\E i \in Threads : ThreadStep(i))

-----------------------------------------------------------------------------
(* Properties *)

Places == {"off", "top", "ask", "propose", "remove", "track", "spawn",
           "identify", "wait", "serve", "adopt", "ready", "record", "pause",
           "paused", "clean", "write", "leave", "approve", "exec"}

\* Where a proposal is being carried out, and where a thread has the task in
\* its hands: between taking a decision, or starting, and giving it away.
CarriedOut == {"remove", "track", "spawn", "identify", "wait",
               "serve", "adopt", "ready"}
Working == CarriedOut \cup {"top", "ask", "propose", "exec", "record", "pause",
                            "clean", "write"}

ThreadStates ==
  [pc : Places, from : {"run", "approve"}, kind : Kinds \cup {"none"}, key : Keys,
   grant : Keys, granted : BOOLEAN, bad : 0 .. BadTurns - 1,
   out : {"ok", "request", "broken"} \cup Over]

\* Every variable has its type; commands, preview and ledger stay in the
\* states the runner, the preview session and the ledger know.
TypeOK ==
  /\ disk \in TaskStates \cup {"none", "deleted"} /\ mem \in TaskStates
  /\ live \in BOOLEAN /\ stop \in BOOLEAN /\ timeUp \in BOOLEAN
  /\ loop \in {"idle", "preview", "ledger", "unregister", "write"}
  /\ state \in {"running", "awaiting_approval"} \cup Over
  /\ pending \in Keys /\ tokens \subseteq Keys /\ steps \in 0 .. Steps
  /\ th \in [Threads -> ThreadStates]
  /\ cmd \in [Threads -> {"none", "tracked", "spawned", "running", "ended"}]
  /\ ledger \subseteq Threads /\ cancelled \subseteq Threads
  /\ pv \in {"none", "spawned", "up"}
  /\ ver \in Versions /\ edits \in 0 .. MaxEdits
  /\ decided \in 0 .. Decisions

\* What needs the user's approval is carried out only by the very approve()
\* call whose decision granted it, and for the declaration the request named:
\* neither a declaration that changed meanwhile, nor one that was changed
\* back later, nor a second proposal of the same thing runs on an old grant.
RunsAsGranted ==
  \A i \in Threads :
    th[i].pc \in CarriedOut /\ th[i].kind \in KeyedKinds =>
      th[i].from = "approve" /\ th[i].granted /\ th[i].key = th[i].grant

\* However many decisions arrive for one request, at most one thread has the
\* task in its hands, and none while a request waits to be decided.
OneHand ==
  /\ \A i, j \in Threads :
       th[i].pc \in Working /\ th[j].pc \in Working => i = j
  /\ pending # NoKey => \A i \in Threads : th[i].pc \notin Working

AllOff == \A i \in Threads : th[i].pc = "off"

\* Every ending is written down: a record never says "running" once no thread
\* runs the task, whichever way the threads ended and wherever the server was
\* restarted.
EndingsAreWritten == AllOff /\ loop = "idle" => disk # "running"

Quiet == AllOff /\ (\A i \in Threads : cmd[i] = "none") /\ pv = "none"

\* A stop that reached the runner takes hold: in the end no thread works for
\* the task, no command and no preview of it runs, and that stays so, wherever
\* the stop fell.
StopTakesHold == <>stop => <>[]Quiet

\* A task recorded as waiting for approval can be decided (loop.py: "Nothing
\* continues until `approve()` is called with a real decision").
AwaitingIsDecidable ==
  AllOff /\ loop = "idle" /\ disk = "awaiting_approval" => live

\* Once the stop endpoint has answered, no command of the task goes on that was
\* not told to stop (sessions.py: Stop "ends every owned process tree").
StopReachesCommands ==
  stop /\ loop = "idle" => \A i \in Threads : cmd[i] = "running" => i \in cancelled

\* A deleted record stays deleted (coding_routes.py: "Stop the running task
\* and wait for it to finish before deleting its history").
DeletedStaysDeleted == [][disk = "deleted" => disk' = "deleted"]_vars
=============================================================================

# JARVIS: a formal model of the assistant's core

JARVIS is a desktop assistant for Windows: a tray launcher starts a FastAPI
server and a WebView window, and the server turns typed or spoken commands into
tool calls, chats with an AI provider, keeps API keys in the Windows credential
store and runs a coding agent on the user's projects. This directory holds
TLA+ models of the parts where the order of events decides whether the program
is right, the TLC runs that check them, and TLAPS proofs.

Paths below are relative to the repository. `PROJECT.json` maps every
definition that models code to its lines, lists the runs, the mutants that show
that each property can fail, the hazards and the findings.

## 1. Inventory

| Component | State it keeps | Operations | Talks to |
|---|---|---|---|
| Routing and policy (`core/router`, `policy`, `permissions`, `models`) | none between calls | `_dispatch`, `evaluate`, `risk_for` | queue, audit, registry, events, runtime state |
| Approval queue (`core/pending_actions`, `api/actions`) | `_actions` under an RLock | create, get, list, confirm, cancel, mark_executed/failed, lazy expiry, scrubbing | audit record, registry |
| Audit record (`core/action_lifecycle`, `db/database`) | a row per action in SQLite | propose, transition | everyone who executes |
| Tool registry (`core/tool_registry`) | an eight-worker pool | execute, execute_approved, timeout | desktop tools |
| Runtime state (`core/runtime_state`) | one enum under a lock | transition, try_transition | events |
| Events (`core/events`, `api/ws`, stream part of `ui/static/app.js`) | ring of events, a connection's bookmark, the page's last number and shown state | publish, since, stream_events, refreshRuntimeState, reconnect | page |
| Credential store (`core/credentials`) | desired values with generations, in-flight counts, one backend lock | detailed set and clear, reconciliation, discarding the superseded copy | keyring's Windows backend |
| Credential pair (`core/ai/credential_pair`, `credential_transaction`, `credential_view`, part of `core/providers`, `api/routes`) | gate, revision, admitted and claimed intents, published snapshot, remembered rejection | save, clear, current, note_runtime_failure | credential store, preferences, provider |
| Chat (`api/chat`, `core/generation`, `conversation`, `brain`, provider adapters) | a token per generation, conversation rows | stream, command, stop one, stop all, reset | provider, runtime state, database |
| Preferences and privacy (`core/preferences`, `privacy`, `onboarding`, `memory`) | one JSON document under one lock, a flag | load, get, store_many, set | everyone |
| Coding task (`coding/service`, `sessions`, `loop`, `agent`, `runner`, `tasks`) | task records, live runners, pending approval, process ledger | plan, start, run, approve, stop, decide, delete | provider, child processes |
| Commands (`coding/commands`, `stacks`, `runner`, `launcher/process_tree`) | the project's declarations, approvals, plans of a preview, a command's handle with the processes it was shown | classify, detect, approve, plan and start a preview, run, recapture, stop | project files, operating system |
| Coding files (`coding/editing`, `undo`, `delivery`, `gitsafe`) | private copies, undo record, export plan, worktree and branch | edit, undo, export, isolate, clean up | the project, git |
| Coding projects (`coding/folder_requests`, `project_plan`, `templates`, `projects`, `folder_picker`, `ui/static/coding.js`) | folder requests, plans, the registry file | browse, resolve, plan, create, add, remove | page, window, file system |
| Preview and browser QA (`coding/preview`, `browser_qa`, `cdp`, `browser_*`) | the owned server with its timer, findings of a check | start, read, check, stop, expire | dev server, browser |
| Launcher (`launcher/*`) | lock file, marker, server child, window child, control channel, readiness facts | start, second launch, restart, quit, clicks | server over HTTP, window over IPC |
| Tray lines (`launcher/tray`, `tray_client`, `voice/clap`) | last report and its age, what the tray shows | report, poll, toggle privacy | page, server |
| Playback (`voice/audio`, `engines`, `sapi5`, `winrt_voices`, `kokoro`, cloud voices) | player, tokens, workers | speak, stop, privacy | devices, cloud |
| Microphone (`ui/static/clap-controller.js`, `app.js`, `voice/clap`) | streams, reasons for suspension, labels | configure, suspend, resume, calibrate, test, push-to-talk | browser, server |
| Cloud voice settings (`voice/engines`, `api/voice_routes`, `voice/openai_tts`) | key in the credential store, flag and settings in preferences | save, delete, select, validate, test | credential store, preferences, provider |
| Installers (`core/local_ai*`, `voice/kokoro/install`, `voice/model_installer`, `safe_fetch`) | a thread, a cancel flag and a state each | start, cancel, download, verify, execute, pull | Ollama, file system |
| Data directory, migration, removal (`core/legacy_migration`, `ownership`, `launcher/uninstall`, `packaging/jarvis.iss`) | database, marker, backups, report, credentials | import, serve, remove, sweep | file system, Windows |
| Sessions, origin, redaction | tokens | check, scrub | every request |
| Desktop tools, UI rendering, configuration, diagnostics, packaging | - | - | - |

How they interact. FastAPI runs every synchronous handler in its own thread, so
two requests interleave everywhere outside a lock. The coding endpoints are the
exception: they are coroutines without an await, run one after another on the
event loop, and interleave only with the threads that run tasks. The WebSocket loop runs on
the event loop and only meets those threads in the event bus and the runtime
state. A tool runs on a pool shared by all. The audit record and the queue
describe the same action with no lock in common. A credential call runs on a
worker thread of its own, which the caller may stop waiting for and which may
then still write. The Anthropic key, its Workspace ID and its verification
state live in two stores that no transaction spans. A coding task is in the
hands of one thread at a time, the one that started it or the one that a decision
started, while the endpoints stop, decide and delete it from outside. The page learns the runtime
state over two channels, the socket and an HTTP snapshot.

What is hard, and what makes each part correct:

* *Approval.* A tool behind approval starts only after exactly one confirmation
  won, at most once, never after a cancel or an expiry, and with the parameters
  that were shown; the audit trail must not deny what ran.
* *Runtime state.* "executing" is shown only while something executes.
* *Credential store.* After calls that time out and land late, the entry holds
  what was asked for last; replacing a key never destroys it; "nothing changed"
  is only said when it is so; no copy of a replaced secret stays behind.
* *Credential pair.* No request mixes one key with another key's workspace; the
  newest admitted change wins however long a key check took; a late rejection is
  never held against the key that replaced the one it was about.
* *Events.* What was missed is sent, in order, unless two threads race to publish; the
  page converges to the current state, and says "disconnected" when it knows nothing.
* *Chat.* A stop reaches every generation; what is kept is what was shown; the
  page gets back from "thinking".
* *Coding task.* One runner per task; an approval is used once; stop ends the
  task and its processes.
* *Commands.* What is refused stays refused; what needs an approval runs only as it
  was shown, whatever the project says meanwhile; a stop forgets no process.
* *Coding files.* No byte of the user's is lost to an edit, an undo, an export or
  a worktree that is taken back; what is exported was reviewed.
* *Coding projects.* What is created is what was shown, a chosen folder is spent
  once.
* *Preview and browser QA.* A held preview is watched; findings belong to the
  page that was proved; what was not looked at is not found good; what a check leaves
  running is in its report.
* *Launcher.* No launch leaves its server behind; readiness is proved; restart
  and quit get through.
* *Voice.* A stopped utterance sends nothing further; privacy silences; every
  open microphone is in somebody's hands and every label admits to it.
* *Settings.* No write of the preferences undoes another; key and flag agree.
* *Installers.* What the panel says happened; a job that ends says so; a good file
  stays good; a cancel is answered.
* *Data.* No row is overwritten by an import; a removal says what it left.

## 2. Modules

| Module | Models | Proofs |
|---|---|---|
| `RuntimeState` | the transition table and `try_transition` | typed in `ActionPipelineProofs` (`TryTransitionType`) |
| `ApprovalGate` | abstract: what the approval machinery promises | refined by `ActionPipeline` |
| `ActionPipeline` | dispatch, policy, queue, audit record, endpoints, pool, restart | `ActionPipelineProofs` |
| `CredentialStore` | `_mutate_detailed`, its workers and the vault | `CredentialStoreProofs` |
| `CredentialPair` | transactions over the key and its description, readers, rejections | `CredentialPairProofs` |
| `EventStream` | bus, socket, snapshot, page | model-checked |
| `CodingSession` | one coding task: runner, approvals, commands, preview, stop, decide, delete, restart | `CodingSessionProofs` |
| `CommandPolicy` | what a project declares, the verdict on each command, approvals and plans of a preview | `TaskProofs` |
| `CommandTree` | one command with the processes it starts, its end and its stop from two threads | `TaskProofs` |
| `Chat` | streamed and one-piece turns, the generation registry, stop, reset, privacy, the two rows | `ChatProofs` |
| `Launcher` | launches over one lock file and port: children, tray, restart, quit | `LauncherProofs` |
| `DataDirectory` | the import of a v0.1 database, the database in use, the removal | `LauncherProofs` |
| `Playback` | requests to speak, tokens, workers, every engine, stop, privacy | `VoiceProofs` |
| `Microphone` | one page's streams and the settings behind them | `VoiceProofs` |
| `CloudVoice` | `preferences.json` under its lock, and the OpenAI key with its flag | `VoiceProofs` |
| `Listening` | reports about the listener and what the tray shows, with time | `VoiceProofs` |
| `Setup` | the four installers, their threads and what the panel says | `CodingSessionProofs` |
| `NewProject` | folder requests, plans, creation, registry, the page's calls | `CodingSessionProofs` |
| `Isolation` | the worktree and branch of a task, with the user's own git between any two commands | `CodingSessionProofs` |
| `TaskChanges` | a task's edits, private copies, undo and export against the user's editor | `TaskProofs` |
| `Preview` | the owned preview: task thread, event loop, lifetime timers | `TaskProofs` |
| `BrowserCheck` | one browser check from the proof to the clean-up | `TaskProofs` |
| `MC*` | constants for TLC; seven of them run several components | - |

Components that share no variable are run together where each is small:
`MCStartup` (`Launcher`, `DataDirectory`), `MCPage` (`Chat`, `EventStream`),
`MCBackground` (`CodingSession`, `Setup`), `MCCommands` (`CommandPolicy`, `CommandTree`),
`MCVoice` (`Playback`, `Microphone`,
`CloudVoice`, `Listening`), `MCTaskStart` (`NewProject`, `Isolation`) and
`MCTaskWork` (`TaskChanges`, `Preview`, `BrowserCheck`). A behaviour of such a run
is a behaviour of one of its components, chosen by `part` at the start, while
the others stay at an initial state. This is not a composition and shows nothing
about one component disturbing another; it is one exploration where several
would repeat the same question of different state. `MCTaskWork` and `MCTaskStart` take
their components with INSTANCE and names of their own (`workPart`, `request`, `places`),
so that `TaskProofs` can extend `MCCommands` beside the one and `CodingSessionProofs`
`MCBackground` beside the other, and prove about the specifications the runs check.

### ActionPipeline

Actions and requests are processes with a place `pc`. `store` and `params` are
the entry of `pending_store`, `life` the status in `action_lifecycle`, `handler`
the call in the pool, `rt` the runtime state. One step is one lock-protected
section or one database statement: `transition()` reads the record and updates
it by id in two statements, so a step that moves the audit record leaves
`write[p]` behind and `WriteLife` performs the update, with anything in
between. `Dispatch` is the policy decision; `CreatePending`, `AwaitApproval`,
`RecordPending` the branch for approval; `ShowExecuting` to `RecordResult` the
branch that runs at once. `Confirm`, `Cancel`, `GetAction`, `ListPending` and
`Expire` are the store's methods (expiry is lazy: it happens when somebody
looks); `Mark` is `mark_executed`/`mark_failed`. `HandlerStart`/`HandlerEnd`
are the pool's workers, `TimeOut` and `GiveUp` are `_run_with_timeout`, which
cancels a call that has not started and abandons one that has. `Restart` kills
every thread and forgets the queue; audit records stay. Command text is
abstracted to the tools its route may name, parameters to "as given" or
"scrubbed".

### CredentialStore

`Users` are the owned entries of the service. The vault is external: keyring's
Windows backend keeps one plain target per service and moves what it replaces
to a compound target per user, in two calls that can fail between them.
`ReadBaseline`, `Record`, `Submit`, then one of `Landed`, `TimeOut`, `Refused`
is `_mutate_detailed`; `Take`, `ApplySucceeds`, `ApplyFails`, `Compare` is
`_mutation_worker`, whose loop reconciles to the newest recorded intent; the
`Discard*` actions are `_discard_superseded`, called by the request or queued
behind its late write. A call that never answers is a `Take` whose end comes
arbitrarily late or never: no fairness is put on the backend.

### CredentialPair

One call to the credential store is one step (its inside is `CredentialStore`):
applied, unchanged, or uncertain, and then the value written or the one asked
back may land later (`stray`, `StrayLands`). `CallApplied` clears `stray`: a
call that succeeded is converged to, which is `CredentialStore`'s
`LatestIntentWins`; the exception to it, a late call that raises after it has
written, is not repeated here. `desc` is what `preferences.json` says of the key: the key
its Workspace ID came with, and the verdict. `Admit`, `Verify`, `Begin` (gate,
revision, claim), `Snapshot`, `WriteKey`, `Describe`, `Restore`, `BlankDesc`,
`Release` is a save, with each place where it can fail; `RemoveKey` a removal;
`Busy` the wait that ran out. A reader takes the gate, reads both stores,
publishes and uses the pair (`Ask` to `Publish`), or falls back on the previous
snapshot; `Rejected`, `Look`, `EnterNote`, `Remember`, `Persist` is a request
turned down by the provider. Branches of `credential_pair.py` that the gate makes
unreachable (`is_newest`, a store-level "superseded") are left out; the second
negative verdict (account unfunded) behaves like the first and is merged with it.

### EventStream

Each event has a request thread of its own (`Publishers`): a thread that publishes
twice does no more than two of which the second waits for the first. `Transition` changes
the state under the machine's lock; the event about it is published after that lock is
released. `Begin`, `DrawSeq`, `AppendEvent` are `EventBus.publish`: the number is drawn
outside the lock that guards the append. Between any two of these steps the other
threads go on, so the bus may hold events out of the order of their numbers, and numbers
out of the order of the changes. `raced` remembers both: which numbers were appended behind a
higher one, and whether one was drawn before that of an earlier change. `Accept`, `Greet`,
`Bookmark`, `Poll` are `stream_events`; `GetNumber` and `GetState` the HTTP
snapshot, read in that order; `Open`, `HandleEvent`, `Observe`, `GetReturns`, `Lost`,
`Drop`, `Reconnect` the page. `Restart` replaces the server: the numbers start at 1 again,
the page keeps its own. A handshake refused because its token is gone is a `Drop` while
connecting.

### CodingSession

Thread 0 is `_run_and_report` around `TaskRunner.run()`, threads 1, 2, ... are
the continuations that `decide()` starts around `approve()`. `Top`, `Ask`,
`Propose` are the loop; `Execute` is `agent.execute_proposal()` after
`check_alive()`, with the model proposing any kind of action; `Track` to `Wait`
is a command, from `ledger.track` over `Popen` and the capture of its identity to
the end of `runner.run`; `Serve`, `Adopt`, `Ready` a preview coming up; `Record`,
`Pause`, `Paused` are what follows an outcome; `Clean`, `Write`, `Leave` every
way out. `Approve` and `Exec` are `approve()`. The stop endpoint is four steps
(`StopRequest` to `StopUnregisters`) and `StopWrites`, because the threads go on
between its calls; `Plan`, `Start`, `Decide`, `Delete` are one step each. A
proposal is its kind, and for what a declaration can change also the version of
the declaration (`KeyNow`), which is what `approval_key()` binds a grant to.
`disk` is the task's record in the file and `mem` the runner's own copy: a save
writes the copy over whatever the file says, or appends it.

Left out: the cancellation token of the provider call (a stop only shortens the
call), a save that fails, the other tasks of the same file, and a process that
survives its termination. `sessions.unregister` inside `_finish`, `_failed` and
`_limit` is folded into the finally clause that follows it (`Leave`). After a
crash the child processes are the launcher's to end.

### CommandPolicy

A command is a list of words, and the verdict on it is computed from the words
as `classify` does, rule by rule and in its order. `project` is what the project's files
say: lockfiles, the field in `package.json`, scripts, the Python tools they mention; anybody
may change it at any step (`Edit`). `Declared` is `project_commands`, read again at
every decision. `Propose`, `Execute`, `Leave` and `Decide` are a proposal, its
execution or request, and the user's answer; `PlanPreview` and `StartPreview` the
preview the user plans himself. An approval key is what it is the hash of. Words are
in lower case. A decision and the start of what it allows are one step; a program
that was started reads the project again on its own, which is the project's
business. Limits, stops and the preview's life are in `CodingSession` and `Preview`.

### CommandTree

The caller `run` is the thread inside `runner.run()`, `other` whoever took the handle from
the ledger; both may be in `stop()` at once. `Start` to `Returned` are `run`; `Cancel`,
`Gather` and the steps of `terminate_identities` (`Expand` to `Report`) are `stop`. Processes are
numbered as they are created and have a pid besides, which `Spawn` gives again when its
process is gone, except the command's own, which its handle keeps. An identity has
its creation time or not (a reading that is refused), and without one it cannot prove
itself. psutil is taken at its word: a walk shows what lives below a process, and a signal
reaches the process it was resolved to. Left out: the output, and zombies, which the
code counts as exited.

### Chat

Each request is a thread (`pc`), a stream or a command. `Ask` to `Finish` are
`chat_stream`: the registration, the history that is sent, the deltas, what is
kept when it ends, fails or is stopped, the rows, the state. `StopOne` and
`StopAll` are the two stops, `Reset` and `SetPrivacy` Clear chat and privacy
mode, `Leaves` a client that closes its connection, `Elsewhere` a transition of
the runtime state by some other part. Left out: the adapters' wire formats.

### Launcher

`Parents` are launches of the program; the supervisor has no lock, so its two
fields `server` and `window` are read and written by the tray's thread and by
the attention thread in separate steps. `srv` are the server children (unbound,
bound, healthy, dying), `win` the window objects with their control channel and
helper processes. `launch()`, `restart()`, `quit()` and
`open_or_focus_window_detailed()` are sequences of steps with each look, wait and
kill a step of its own; `facts` is what the readiness publisher has recorded, and
`shown` what was really proved. `server` stands also for quit()'s local copy
(`gui.py:354-357`). Left out: the forced exit after 45 seconds, which would hide
a quit that hangs.

### DataDirectory

A server child goes through `_migrate` step by step (`ReadMarker` to `Record`),
each file operation being one that can fail and the process one that can end
between two of them, makes its tables and serves. The uninstaller (`Prove` to
`Sweep`) is `uninstall.run()` called by the installer's script, which looks at
its exit and its report. A database is whether it is there, sound and has its
tables, and which rows it holds. Left out: the `-wal` file of the old database,
which no code copies, and the installer's own part.

### Playback

A request's thread goes through the engine it was given to `begin_utterance`,
which makes a token and waits for the previous worker at most two seconds; a
cloud voice asks, is answered and gives its bytes to the player if the token is
still current; the local ones make sentences in a worker (`WorkerStep`), and
the classic voice in one of its own. `Stop` and `PrivacyOn` set tokens. A
sentence that was let through to the device is counted, not cut.

### Microphone

One page is one thread: what runs up to an `await` is a step, and
`getUserMedia`, `addModule` and the server's answers come back as steps of their
own, in any order. `c` is the controller's state with the stream it holds, its
reasons for suspension and its start under way; `ptt` and `test` the two other
users. Settings reach the page by answers that may be old and by events. Pages
are hidden, shown and loaded again; the microphone is unplugged. Left out: what
the worklet hears (`clap-processor.js`).

### CloudVoice

Each request of the Voice page is a thread: `Call` is what it asks for, `Writes`
the writes of the preferences that makes, `LoadForUpdate` and `WriteDocument`
one `store_many` under `_write_lock` (the document is read, merged and replaced;
either file operation may fail), `ChangeKey` and `UndoKey` the calls to the
credential store around them. `UseAllowed` to `UseEnds` is a request that uses
the key: it looks at privacy, reads the key, then the settings one by one without
the lock, looks at privacy again, sends and is answered. The document is
one value per kind of write; what the credential store does with a change is
`CredentialStore`'s. Left out: the ElevenLabs key, which has no flag, and the
other settings of the same file, whose writers go through the same `store_many`
as `tuning` does here.

### Listening

The one module with a clock: a tick is about four seconds, so a page's heartbeat
(8 s) is 2 ticks, the freshness of a report (20 s) 5, the tray's poll (5 s) 1, and a
request (3 s time limit) at most 1. `Tick` is not possible while something that
must have happened by then has not. `PageTurns` and `PageBeats` are the reports,
`ReportArrives` the server's one slot for all pages, `PollAsks` to
`PollPaintsClap` the poll loop, `MenuOpens` to `MenuPaints` the menu, which is
built once and stays, and `toggle_privacy`. `clock` is how long ago each thing was
so. Left out: a timer the browser slows down in a hidden tab, and a request of the
tray that fails although the server is up.

### Setup

The four installers have one shape; a job is a thread of one of them, `Install`
the call that publishes it, `Begin` its start. Ollama: download, signature,
execution, look for the service, ask for the model. The puller reads lines from
Ollama and proves the model by a question; the two voice installers fetch,
verify and move. Three of them make a temporary directory before their `try`; when that
fails the thread ends and nothing is said (`Vanishes`; `lost` marks such a job).
`thread.start()` is taken to succeed. `ByHand` is the user installing or removing things outside;
`Restart` ends every thread. Left out: the catalogue and the signature check's
inside.

### NewProject

The server's handlers are one step each, except `create`, which writes a folder
while the world goes on (`MakeFolder`, `WriteFiles`, `RegisterNew`). The page's
calls are sent, handled and answered in separate steps (`Send`, `Handling`,
`Answering`), so that Cancel and Create overlap; the window's dialog is a step
between `OpenDialog` and `Resolve`, whose report may be lost. Requests and plans
grow old (`TimeOut`). Left out: the file contents of the templates.

### Isolation

`start_task` up to the running task, with every git command a step that may fail,
and between any two of them the user: a commit, a merge in progress, a branch or
a folder of the planned name, work inside the worktree. `Fails` and the clean-up
that follows are the ways back. Commits are numbers. Left out: the commit of a
task's changes at its end.

### TaskChanges

The task's thread edits (`Propose`, `Backup`, `Check`, `Replace`, `Save`), the
event loop undoes, plans and exports, the user's editor writes between any two
steps. Content is a value, and a hash is the content it is the hash of. `taken`
remembers what of the user's was replaced, `first` the files before the task. Left
out: the other tasks of the record file, and the pruning of old copies.

### Preview and BrowserCheck

`Preview` has a session whose lock covers only the exchange of its handle: the
task's thread starts, checks and stops, the event loop reads and stops, a lifetime
timer is a thread per process, and any port may be taken by a stranger.
`BrowserCheck` is the inside of a check, which `Preview` has as its four answers: a
browser with children that outlive it, a profile on disk, a page with defects, a
collector that counts while probes run, a budget and a cancel. A tab may leave the preview
for an address the collector notes, or for one it does not (`about:blank`, which also
passes for the preview, `blob:`, or the browser's error page). The clean-up is five steps,
with the browser going on between them: `Cleanup` looks for its children once more, `Expand`
again on behalf of `terminate_identities`, `Resolve` leaves alone who cannot be proved,
`Kill` ends the rest or does not see them end, `RemoveProfile` leaves files in use. Any look
may show nothing, any step may raise, and the report (`said`, `broke`) has what the code
puts in it. A caller that stopped waiting is told of none of it. Left out: grandchildren (a
walk shows them with their parents), numbers that are used again during the
clean-up, which `CommandTree` has for the same function, and the end of the process while a check
runs.

## 3. What is checked

Passing runs, all exhaustive:

| Run | Instance | Properties |
|---|---|---|
| `approval_pipeline` | 2 commands over 4 tools (`clear_logs` waits for approval, `open_app` runs at once, one whose declared risk asks for less than its permission level and which `execute` therefore turns away, one declared destructive and denied), 2 requests that confirm, cancel or read either, pool of 1, 1 restart; 435k states | `GateSpec` (refinement), `RunsAsApproved`, `RecordsAreHonest` (the audit trail denies no run and claims none, nothing is shown as executing that is not), `ConfirmedSettles` |
| `credential_store` | 2 overlapping requests, each a save or removal, empty or filled store, 1 raised call, any number of timeouts; 267k states | `LatestIntentWins`, `KeysAreKept` (a replacement destroys nothing, "unchanged" is so, no copy is left), `EveryRequestReturns` |
| `credential_pair` | 1 save, 1 removal, 1 reader, 2 keys, 2 failures; 318k states | `ReadsNeverMixed`, `LatestAdmittedWins`, `NoFalseDowngrade`, `OutcomeIsHonest`, `EveryChangeReturns` |
| `page` | 2 turns of 2 deltas, 2 presses; 2 events of 2 request threads, ring of 2, 1 loss or restart; 1.4M states | `StopReaches`, `HistoryIsHonest`, `StreamIsHonest` (a resumed page is current unless threads raced, one without a stream says so; what was missed is sent except what was appended late), `ThinkingEnds`, `DropsHeal` |
| `background` | 1 task, 2 decisions, 2 model calls, 2 edits of the declaration, any number of stops and restarts; 1 voice, 2 jobs, 2 presses, a speech model at the start only where no voice file is; 449k states | `RunsAsGranted`, `OneHand`, `EndingsAreWritten`, `StopTakesHold`; `StatusIsHonest`, `GoodStaysGood`, `CancelIsAnswered` |
| `commands` | 21 commands, at least one of each rule, over 4 states of a project, 2 edits, 1 plan; 3 processes, 1 refused reading; 1.2M states | `RunsAsReviewed`, `StopsAreThorough`; `DeclarationsAsk` and `RefusalStands` as an ASSUME over the tables |
| `startup` | 2 launches, one of them with a window, 2 servers and 2 window objects, 1 helper, 1 click, 1 crash; 1 server at a time with 3 starts, 2 credentials, 1 row, 2 failures; 3.5M states | `ServerIsAccountedFor`, `StopsAreClean`, `DataIsKept` (no row of the user's is overwritten by an import; a removal says what it left) |
| `voice` | 2 requests of 2 sentences, 2 presses; 2 presses of Calibrate, 2 toggles, 1 talk, 1 page load; 3 requests in 2 threads, 2 failures; 2 pages, 3 changes; the microphone starts on the chat page with a device; 2.1M states | `SilenceIsKept`, `MicrophoneIsHonest`, `SettingsAreHonest`, `TrayIsHonest`, `EachWriteIsItsOwn` |
| `task_start` | 2 folder requests, 2 plans, 1 folder that nobody has made yet (another program may), 3 posts, 1 fault, a registry and a plan store of 1; 2 starts of a task, 5 acts of the user, 2 failed git commands; 1.9M states | `ProjectsAreAsAgreed`, `IsolationIsHonest` |
| `task_work` | 2 files, 2 contents of the user and 2 of the task, 3 edits, 1 write, 1 request; 2 preview processes, 1 fault, 1 read; 2 children of the browser, 1 error, 2 mishaps; 3.7M states | `UndoGivesBack`, `ExportIsReviewed`, `PreviewIsAccountedFor`, `CheckIsHonest` (every outcome is of what happened; what still runs is in the report) |

A property with a general name is the conjunction of the named ones its definition
lists; each is stated on its own in the module, with the code it is about. Every
module has a `TypeOK`; it was checked with each of them and is not repeated in the
configurations: all but `EventStream`'s are proved (section 4; of `CommandTree` without the
counter of faults, of `NewProject` without the list of plans the server keeps).

Two runs have a property that is violated, and each is a finding. `coding_decide`: run()
returns when it pauses for an approval, and the finally clause of its thread
unregisters the runner, so the decision that follows is answered "That task is
not running". A decision is only taken in the moment before the thread has left.

`cleanup_expands`: "Only our own descendants" is the first rule of `process_tree.py` (11),
and what is found at clean-up is to be "a live descendant of a process already proven to be
our descendant" (355-356). `terminate_identities` walks below every number it was given
(379-384) before `_resolve` proves whose it is (389). A child of the command ends, a stranger
gets its number and has a child of its own: that child is added with its own creation
time, proves itself, and is terminated. The number's new owner is not: it fails the proof.

Other places where the code does not keep what it says, or what one would expect
of it. Each is stated in its module after the properties that hold, and TLC finds it
violated; where a configuration is named, `tlc -config X.cfg M` shows the trace,
otherwise it takes the module with the constants of its run and that one property.

| Module | Property (configuration) | What happens |
|---|---|---|
| `ActionPipeline` | `TerminalIsFinal` | "A finished action is never reopened" (`action_lifecycle.py:33-36`): `transition()` reads, then updates by id, and a read that came first replaces a terminal status. `GateSpec` shows that no tool runs twice for it: the queue decides that, under its lock. |
| `CredentialStore` | `CopyIsNeverTheLastKey` (`MCCredentialStoreShared`, with `MCCredentialStore`) | `credentials.py:424`: between the check that a key is in place (426-428) and the deletion of its copy (439-446), a save of the *other* credential makes the backend move the key to the copy's target; the deletion takes the only copy. |
| `EventStream` | `NothingIsMissed` | "Append-only event log with monotonic sequence numbers so a client can ask 'what have I missed since seq N'" (`events.py:55-58`): the number is drawn (71) before the lock for the append is taken (78). The higher of two numbers may be appended first; a poll in between sets its bookmark there, and the lower one is never served. |
| `EventStream` | `SequenceOrdersStates` | "The sequence is the server's answer to that question" (`app.js:4678-4679`): a transition is made under the lock and published after it (`runtime_state.py:113-128`), so of two threads the one that changed the state first may publish under the higher number. The page then shows the earlier state, and a snapshot of the same number does not repaint it. |
| `EventStream` | `RecoveredPageIsCurrent` | "So recovering the connection also recovers the truth" (`app.js:4836`): a page that outlives the server bookmarks at the old server's number and is not sent the new server's first transitions. The greeting and one snapshot are all it gets of them; a transition after both, or after the greeting when the snapshot fails, is not shown. |
| `CodingSession` | `StopReachesCommands` (`MCCodingSessionStop`, with `CodingSession`) | `sessions.py:12-13`: a thread that looked at the stop flag before the stop tracks its command after the stop emptied the ledger; the command runs on to its end or its own time limit. `StopTakesHold` shows that it is the last one. |
| `CodingSession` | `DeletedStaysDeleted` (`MCCodingSessionDelete`, with `CodingSession`) | `coding_routes.py:508`: stop unregisters the session while the thread still runs; the task can be deleted, and the thread's last save appends the record again. |
| `CommandPolicy` | `QueriesAreInert` | "Version queries are the one genuinely inert family" (`commands.py:368`): only the last word is looked at, so that `python -m pytest -v` counts as one and runs the tests without a question. |
| `Launcher` | `QuitLeavesNoWindow` (`MCLauncherQuit`, with `Launcher`) | "The quitting flag is set first so no recovery path can resurrect a child" (`gui.py`, quit): the attention thread looked at the flag before (256-276) and opens its window after quit has stopped the one there was. |
| `DataDirectory` | `RowsAreKept` with two servers at once | "A destination that already holds user data is never overwritten" (`legacy_migration.py:31-33`): an import runs before the port is bound, so of two launches one may replace the database the other has already served. |
| `DataDirectory` | `CompleteMeansComplete` | `preferences.py:96-97` takes it that the application was told to stop; nothing stops it, and what it saves after the cleanup stays behind a report that says "complete". |
| `DataDirectory` | `MarkerIsHonest` | After a crash between the replacement and its marker the import counts as "skipped_destination_has_data". |
| `DataDirectory` | `AlwaysStarts` | "A failure here must never stop JARVIS starting" (`legacy_migration.py:47`): a damaged copy that could not be removed does. |
| `Playback` | `StopMeansSilence` (`MCPlaybackStop`, with `Playback`) | "Stop works the same way whichever engine produced the sound" (`winrt_voices.py:149-154`): a request that is between its choice of voice and its token has no token a Stop could set. |
| `Microphone` | `OffMeansClosed`, `OnMeansOpen` | "Switched off. Nothing is listening." (`app.js:3989`): `configure()` does not tear down a start that is under way. A calibration that fails late tears down the live stream under a state that says "listening" (`clap-controller.js:110`). |
| `CloudVoice` | `FlagIsAlwaysHonest` | A save and a deletion of the OpenAI key that overlap, or a process that ends between its two writes (`voice_routes.py:734-777`), leave a key without its flag or a flag without a key; nothing puts them right but the next save. |
| `CloudVoice` | `OneProfile` | `preferences.py`, `store_many`, saves the four OpenAI settings as one so that nobody sees a half-old profile; a request reads them one by one without the lock and sees one. |
| `CloudVoice` | `NameIsTheVoices`, `SavedMeansSaved` | `set_selected_cloud_voice` makes two writes of which one may fail (`engines.py:552-558`), and two endpoints answer "saved" without looking at the result (`voice_routes.py:562-611`). |
| `CloudVoice` | `PrivateMeansUnsent` | "Privacy Mode is on, so no text was sent" (`openai_tts.py:66`) is also the answer when privacy mode came on after the request went out. |
| `Listening` | `ClickDoesWhatItSays` | `toggle_privacy` (`tray.py:337`) sends the opposite of what the tray knows when the line is clicked; the line shows what it knew when the menu was opened, and the poll goes on under it. |
| `Chat` | `PrivacyWritesNothing` | `privacy.py:4-6`: privacy is looked at before the first of two inserts (`conversation.py:92-99`); both rows are written after it came on. |
| `Setup` | `NeverDiesSilently` | "A background thread must never die silently" (`local_ai_install.py:259`): the temporary directory is made before the `try` (249; `kokoro/install.py:210`, `model_installer.py:183` likewise). When that fails - a full disk, a TEMP that cannot be written - the status stays "downloading" with no thread behind it. |
| `Setup` | `RecheckRecovers` | "Install Ollama yourself and press Re-check" (`local_ai.py:301-309`): after a failed install the panel shows the failure first, whatever is on the machine. |
| `TaskChanges` | `ExportCoversTheTask` | "Invalidated by any later edit" (`delivery.py:5-6`): the plan is compared over its own paths, and an edit of another file leaves it valid. |
| `NewProject` | `CancelledMeansNothing`, `FailedCanBeRetried` | "Cancelled. Nothing was created." (`coding.js:577`) is said when Cancel is pressed while the create call is under way; a plan whose creation failed after its folder was made (`project_plan.py:411-412`) is refused for ever because the folder is there. |
| `Isolation` | `ChangesAreKept` | "Never one that still holds changes" (`gitsafe.py:505`): the start that fails removes its worktree by force. |
| `Isolation` | `BranchesAreTheUsers` | `gitsafe.py:478-481`: a branch the user makes between the look and the command is taken back as the start's own. |
| `Isolation` | `ConflictsStopIt` | A failed `git status` reads as a repository without conflicts. |
| `Preview` | `OneServer`, `OursIsOpened` | "At most one per task" (`preview.py:132`): start is refused only while the preview it has answers. The proof of ownership (251-262) is older than the page that is opened on it. |
| `BrowserCheck` | `AlwaysTearsDown` | "Launch, check, and tear down. Always tears down." (`browser_qa.py:606`): the browser is a target of the clean-up only if its identity could be read when it started (251). Otherwise it may be left running, with an empty report. |
| `BrowserCheck` | `ProfileIsDeleted` | "The profile is deleted after every run" (`browser_qa.py:288`): files in use stay and nothing says so (295), and a failure before the `try` (612-629) leaves the directory. |
| `BrowserCheck` | `BlockedTriedToLeave` | "The page tried to navigate away from this task's preview" (`browser_qa.py:715`) is said of every tab whose address is not the preview's (768), the browser's error page included, which a reload shows when the preview has died; `_note_foreign` (366-369) does not note that kind. |
| `BrowserCheck` | `CountsAreNeverInvented`, `LeavingIsBlocked` | "A count is never invented" (`browser_qa.py:29-30`): a probe that threw is an empty list. Whether the page has left is asked once, before the probes. |

Further disagreements, each reproduced on the same models or on one with a step added:

* A late worker of an overtaken credential save that raises after writing skips
  the comparison with the newest intent (`credentials.py:528`); the older key
  stays, although lines 56-59 say that a late write is reconciled.
* A transition between the greeting and the bookmark of a newly opened page
  (`ws.py:77-79`) is not sent to it, although line 65 promises a correct page.
* A save whose superseded copy could not be removed reports `consistent=True` and
  "asked for your previous key to be put back" (`credential_pair.py:325-330`)
  although neither is so.
* A rejection that could not be written "applies for this session"
  (`providers.py:329`); any later transaction, also one that failed, makes the
  same key read as before, because `begin()` moves the revision.

* "An exact command already approved in this task" is listed as automatic
  (`commands.py:582`); an approval is for one execution, and the same command is asked
  about again.

Read while modelling, and stated nowhere as a promise:

* *Coding task.* A decision names the task and not the request, so it is applied to
  whatever is pending when it arrives; a granted `request_approval` is only asked
  again, as it has no key; after a grant the record goes on saying
  "awaiting_approval"; the preview of a paused task outlives a stop, because the
  runner is no longer registered. Undo, export and commit save the copy of the
  record they read at their beginning over what the runner wrote meanwhile
  (`tasks.py:193`).
* *Launcher.* The loser of two launches removes the winner's lock file in its quit();
  `wait_until_healthy` is content with another launch's server; after a restart
  `/desktop/ready` never says ready; a failed restart leaves no server and no way
  to notice it; a parent that crashes leaves its server.
* *Chat.* A client that leaves at the first yield leaves its token in the registry
  (`chat.py:121-126`); a failed answer of `/command` is recorded as the
  assistant's turn (`router.py:237-245`); a stream that finishes moves a waiting
  approval's state to standby.
* *Voice.* A cloud voice's failure other than a cancel falls back to a local one,
  also after Stop; a worker that outlives the two-second wait clears `playing` of
  the next utterance (`audio.py:279`); the server's greeting does not suspend
  the listener; a resume timer that is cleared leaves it suspended.
* *Settings.* A failed write of the flag while a key is *replaced* removes the key
  and leaves the flag set; preferences that cannot be read make the fallback
  allowed and the engine automatic.
* *Installers.* A timed-out `subprocess.run` kills the installer it ran
  (`local_ai_install.py:341-354`); "Nothing was installed" is said of a cancel after
  the installer ran (244, 380-382); two starts in the gap between publishing a
  thread and starting it run two jobs.
* *Projects.* A lost report of the dialog blocks Browse until the request expires;
  a full registry is noticed after the folder was written; an answer with an error
  enables Create for the plan that is then shown.
* *Isolation.* Nobody removes the worktrees of tasks that ended; a git that does not
  answer makes the project "not a repository".

Bounds. Every bound is a constant, named `Max...` unless it is a number of the code
(`PoolSize`, `Sentences`, the times of `Listening`). Two actions and two requests contain every
race between a confirm, a cancel, a listing and a second action's call in the
same pool; a pool of one is the smallest that a hung call blocks. The credential
protocols speak of "this request" and "the newest one": two requests are both,
and a third adds no new relation, only a longer queue. Two events of two threads
are every order of two changes, two numbers and two appends; a ring of two with the
transition of the start before them already drops and replays. More than one failure is explored where failures
compound (a rollback that fails after a write that failed needs two).

For the coding task: two decisions are the race for one request, and a request
and its repetition; two model calls are a proposal before and one after a
decision; two edits are a declaration that changes and is changed back. An edit
and the end of the task's time are put off to the places that look at them
(`execute_proposal`, `check_alive`), which leaves out no behaviour of the rest.
`CHECK_DEADLOCK` is off there because a task ends and stays ended.

For the commands: two edits are a change and its reversal; one plan is enough for
what a plan is compared with. Three processes are the command, a child and a grandchild or
a stranger with a used number; `cleanup_expands` takes four, for a stranger has a child there.
The verdict's rules are functions of the words, and the 21 commands are chosen to
meet each and to miss each by one word; the theorems are about all commands.

For the other components the same reasoning gives the numbers of the table. Two of
whatever races: launches, requests to speak, turns, calibrations, threads over the
preferences, pages, plans, folder requests, preview processes, files (a rename
needs two). One or two faults: a second one where the first starts a way back that
can fail as well (a clean-up of git, the removal, the key that is taken out again).
Presses, toggles and acts count what the user does: two are an act and its
opposite, and the five acts of `Isolation` are a branch, a folder, and work inside
what was made. Three changes in `Listening` are a page that opens, begins to
listen, and one thing that then changes (the other page opens, privacy, the server
goes); the four that two listening pages take were checked as well, outside the
runs, with the same result. The times are the code's, in ticks, and the bounds `Round` and `Behind` of
its properties are made of them. A registry and a plan store of one are the
smallest that are full. Where a component may stop by design - the user has no
more presses - `CHECK_DEADLOCK` is off. Symmetry is used where the named sets are
interchangeable and no liveness is checked; runs of several components give
their sets the same model values so that one group serves all.

Some things worth knowing when reading the properties. `StopTakesHold` speaks of
a stop that found the runner registered: one that comes after a pause does not.
`UnchangedIsHonest` is said of saves only: a refused removal re-records absence before it looks, and in
the window before another request enters its mutation it can report "nothing
changed" and be carried out afterwards by that request's reconciliation.
`StreamIsHonest` holds with racing publishers and says what the races can do: an event that
is not appended behind a higher number is never passed over, whatever else happens; if
none is, events arrive in order and once each (`StreamIsExact`); and a resumed page is
current if moreover no number was drawn out of the order of the changes and the server is
the one it knew (`ResumedPageIsCurrent`). The exceptions are the code's: without them the
properties are `NothingIsMissed`, `SequenceOrdersStates` and `RecoveredPageIsCurrent`, which
are violated. In the
same way `BusyIsReal` has `DiedUnheard`, a job that died before its `try`, and
`LeftoversAreReported` leaves out who was shown to no look.

Fairness. `ActionPipeline`: request threads run on (`ExecuteStep`,
`RequestStep`); nothing is assumed of a handler, which may hang forever, nor of
whether a client ever confirms. `CredentialStore`: a request thread, and the
single calls it makes, go on; `_run_isolated` and `future.result` are bounded
by timeouts, and a backend that never answers is allowed. `CredentialPair`:
every thread is scheduled and every wait for the gate is bounded by
`WAIT_SECONDS`; nothing makes a client come back. `EventStream`, in `MCPage`: the page's
reconnect timer, the server's event loop and loopback delivery run on; no
fairness on publishers, losses, restarts or HTTP answers. `CodingSession`, in `MCBackground`: the
threads go on (some thread that can, does), and so does the endpoint under way,
because the provider call, a command
(`runner.run`'s deadline) and the wait for a preview all end at a time limit of
their own; nothing is assumed of the user, of the preview's life or of the
task's total time. `Chat`: every turn goes on, because the provider's call has a
deadline; nothing makes a client stay or a user press. `Setup`: every job goes on;
a line that Ollama never sends is bounded by the read timeout, and nothing is
assumed of the user. All of it is weak fairness of steps that stay enabled. The
other modules state no fairness: their properties are about what is never so.
`Launcher` says with ENABLED instead that a quit always has a next step
(`QuitNeverWaits`), since every wait in it is bounded.

## 4. What is proved

`ActionPipelineProofs` (checked by `tlapm`, for any number of actions, requests
and tools, any registry, pool size and number of restarts, under the ASSUMEs of
`ActionPipeline`):

* `TypeCorrect`: `Spec => []TypeOK`.
* `Invariance`: `Spec => []IInv`, the inductive invariant.
* `ApprovedParameters`: `Spec => []RunsAsApproved`.
* `ImplementsGate`: `Spec => GateSpec`: the pipeline refines `ApprovalGate`.
* `HonestRecords`: `Spec => []RecordsAreHonest`, from invariants about who is on the
  way to write which status of the audit record.

The argument. Neither `RunsAsApproved` nor the refinement is inductive: both
speak of what has started, and a step that starts something is only right
because of what its process is entitled to. `IInv` says it: only actions policy
holds back are ever queued (`QueueInv`); a dispatch follows the branch policy
chose (`BranchInv`); a request past `confirm()` owns its entry, alone
(`ClaimInv`); no call exists before its dispatch or approval (`FreshInv`); a
queued call stands on an approval or an exemption (`QueuedInv`); parameters are
scrubbed only of finished entries (`ParamsInv`). `ClaimInv` is where "at most
once" comes from: `confirm()` moves "pending" to "confirmed" under the lock and
nobody leaves "confirmed" but the request that won. Every step then maps to a
step of the gate or a stutter, with `InvStep` proving both facts together.

`CredentialPairProofs` (for any number of saves, removals and readers, any keys
and any number of failures, under the ASSUMEs of `CredentialPair`):

* `TypeCorrect`: `Spec => []TypeOK`, with the gate's mutual exclusion in it.
* `Invariance`: `Spec => [](TypeOK /\ Owed)`, the inductive invariant.
* `ReadsWhole`, `DowngradesTrue`, `OutcomesHonest`, `LatestWins`: `Spec =>
  []ReadsNeverMixed`, `[]NoFalseDowngrade`, `[]OutcomeIsHonest`,
  `[]LatestAdmittedWins`.

The argument. The four properties speak of moments when nobody is between the
stores, or of snapshots taken earlier; none is inductive. `Owed` says what is
owed in between. A key *fits* a description that came with it or with nothing
and calls it rejected only if it was. The stored pair fits whenever no request
is between its two writes and nothing is in doubt (`StoredInv`); a request that
is between them knows which half is new (`BetweenInv`) and holds a previous key
that fits what the other half still says (`PreviousInv`), so both going on and
going back end in a pair that fits. Every doubt was told to the user or is about
to be (`DoubtInv`). A snapshot carries the revision it was taken at, and `begin`
moves the revision before it touches anything, so a snapshot at the current
revision still describes what is stored (`RevisionInv`, `ViewInv`); that is why
the comparison inside the gate authorises recording a rejection, and the one
before it does not (`RejectedInv`, `NoteInv`; the mutant `EnterNoteBelieving`
breaks exactly this step of the proof). Places in the order of admission are
unique and the change under way is newer than all that were applied
(`OrderInv`), so the key is the one the latest of them asked for, or is about to
be again (`LatestInv`).

`CodingSessionProofs` (for any number of decisions, model calls, bad turns and
edits, under the ASSUME of `CodingSession`):

* `TypeCorrect`: `Spec => []TypeOK`.
* `Invariance`: `Spec => []IInv`, the inductive invariant.
* `GrantedOnly`, `OneAtATime`, `EndingsRecorded`: `Spec => []RunsAsGranted`,
  `[]OneHand`, `[]EndingsAreWritten`.

The argument. `OneHand` is a token passed on: starting a task takes it
(`FreshInv`: nothing can be there before), pausing gives it to the pending
request, and `approve()` takes it from there under the lock, so a second decision
for the same request finds nothing. A grant exists only in the hands of the thread
it was given to (`GrantInv`), until the outcome is recorded and what is left of it
is revoked; a continuation that dies with a grant leaves a task that nothing can
bring back, and so one that nobody can spend it in. Hence a proposal whose key is
among the grants is the approved one, and `RunsAsGranted` follows. `RunningInv`
ties a record that says "running" to the task's own thread being on its way to
say otherwise; `EndInv` says that a thread on its way out has something to write.

The same module, about the specification the run `background` checks (for any number of
voices, downloads and presses, under `SetupAssumption`):

* `SetupBookkeeping`, `SetupTypes`: `Panels!Spec => []SInv`, `[]TypeOK`.
* `StatusStaysHonest`, `GoodFilesStayGood`: `[]StatusIsHonest`, and the action property
  `GoodStaysGood`.
* `TheWorkIsHonest`: `WorkSpec =>` every safety property of the run.

The argument. Unless two installations of a kind ran at once, the thread that its installer
publishes is the only one of it that is not over (`OneJob`), so what a job finds is what that
job left. A job of Ollama's that was told to stop in time finds the flag whenever it looks
(`StoppedOK`); what a job of the voice has still to fetch or to move was not right when it
looked and nobody else moves a file (`FilesOK`); a job that is over without a last status
is one that died before its `try`, with nothing staged or moved; hence a right file is not replaced, and a
"cancelled" one moved nothing (`ReportOK`).

And about the specification the run `task_start` checks (for any number of the user's acts, faults,
starts, folder requests, plans, folders and calls, under `PlaceAssumption` and `ProjectAssumption`):

* `PlaceBookkeeping`, `PlaceTypesHold`, `TheStartIsHonest`: `Iso!Spec => []IsInv`,
  `[]TypeOK`, `[]IsolationIsHonest`.
* `ProjectBookkeeping`, `ProjectsStayAsAgreed`: `Prep!Spec => []NpInv`, `[]ProjectsAreAsAgreed`.
* `TheTaskStartIsHonest`: `StartSpec =>` both properties.

The arguments. *Place*: commits only grow (`NumbersOK`), so a branch that was there before
is told from the one made here; a start that makes a worktree found its path absent and its
branch unborn, unless a reading failed (`BeforeOK`); what is JARVIS's at the path or of the
branch belongs to a start that is at work on it, has ended, or is on its way to take it back
(`OwnersOK`), stage by stage (`StagesOK`); so what a refusal says is what is left (`EndsOK`).
*Project*: a selection is consumed at most once (`SelectionOK`) and the page's pick is of a
request that was answered with a path (`PickOK`); a call to create names a plan that was on
screen when it was sent (`CallOK`); of the one writing that is under way the plan had found
nothing at its folder (`CreatingOK`), so what is half or wholly there was agreed to (`WorldOK`).

`CredentialStoreProofs` (for any requests, keys and number of refused calls, under the
ASSUMEs of `CredentialStore`):

* `Bookkeeping`: `Spec => []SInv`, and `TypeCorrect` from it, for any number of users.
* `TheLatestIntentWins`, `TheKeysAreKept`, `NoCopyStays`: `Spec =>
  []LatestIntentWins`, `[]KeysAreKept`, `[]NoCopyLeft`, each under `OneUser`.

`OneUser` says that all requests are about one credential. It is a premise of the theorems
and no ASSUME, because the program has more than one and the statements are false then:
the backend keeps the credential written last under the plain target and moves the
others to copies, so that a save of one credential can move the other under a running
discard (`MCCredentialStoreShared`). The run checks one user too; with it the theorems
say about any number of requests and faults what the run says about two requests and one.

The argument. `SInv` is the bookkeeping: a worker runs its first job, a writing one
holds the lock, a request that waits has exactly its write queued, a request that
is done has no write that no discard follows, and `_inflight_mutations` is the number of
queued jobs. `MInv` is what a generation means: whoever acts under the newest one acts
on the value that was recorded with it. Then the store reads as the newest intent says, or a
write is still to come (`LatestInv`): a write that lands late finds at its comparison that it
is not the newest, and reconciles. A copy that is left has somebody who will remove it
(`CopyInv`). As long as nobody removes a key, a plain entry that was once there stays
(`KeyInv`). For `UnchangedIsHonest` the prover asked for a value's way into the store: a
value no request holds, has read or has queued does not appear there (`ForeignInv`).
With two faults TLC refuted the first form of that property: a refused save's key may
get into the store through another request that asked for the same key, or found it
there and puts it back. The property now says so.

`ChatProofs` (for any number of turns, deltas and presses, under `ChatAssumption`):

* `Bookkeeping`: `Spec => []CInv`, and `TypeCorrect`.
* `StopWorks`, `TheHistoryIsHonest`: `Spec => []StopReaches`, `[]HistoryIsHonest`.

The argument. What a turn has collected is what it has shown but for the piece on
its way (`SentOf`), at most one piece goes out after a stop (`TurnInv`), and a turn's two rows
are written by itself, in order, between two places nobody else is at (`RowInv`,
`PairInv`); a reset that takes one row takes all and marks who lost them.

`LauncherProofs` (for any number of launches, servers, windows, clicks and faults, under
`LauncherAssumption`):

* `Bookkeeping`: `Spec => []LInv`, and `TypeCorrect`.
* `NoServerIsLost`: `Spec => []ServerIsAccountedFor`.
* `HelpersAreCleanedUp`: `Spec => []CleanStop`, the part of `StopsAreClean` without ENABLED.
* `DataTypes`, `RemovalStaysHonest`: `Data!Spec => []TypeOK`, `[]RemovalIsHonest`, for any rows,
  keys, servers and faults, under `DataAssumption` of `MCStartup`.
* `DatabaseStaysKept`: `OneServer /\ Data!Spec => []DatabaseIsKept`.
* `TheMachineIsKept`: what the run `startup` checks of both, but for ENABLED.

`OneServer` says that there is one server child. It is a premise and no ASSUME, because two
launches can each have one that imports before either has the port, and the statement is
false then (`RowsAreKept` in the second table of section 3).

The argument. A launch holds the child it spawned last and knows nothing of it that was
not proved since (`ServerOf`); a child that runs is held or its launch crashed (`RunsOf`).
A thread has a window in hand exactly while it opens or stops it (`ThreadInv`), and
a window whose command channel is closed has had its helper looked after (`WindowOf`).
*Data*: `AppInv` and `CleanupInv` say, for each stage of the removal, what must be gone if nothing
failed and no server ran meanwhile; "complete" is only said where nothing failed. `ImportInv`
says how far the import is: from the look until the replacement the database is as it was when
the server looked, and after the replacement nothing is recorded as done before the old rows
have been found in it.

`VoiceProofs` (about the specification the run `voice` checks, under `PlaybackAssumption` and the
three ASSUMEs of `MCVoice`, for any number of requests, sentences, sessions, pages, changes and
failures, and any clock units with `Delay < Beat` and `Beat + Delay < Believed`; in the code
the three are 3 s, 8 s and 20 s):

* `PlaybackBookkeeping`, `StoppedIsSilent`: `[]PInv`, `[]SilenceIsKept`.
* `SettingsBookkeeping`, `SettingsStayHonest`, `WritesAreTheirOwn`: `[]SInv`,
  `[]SettingsAreHonest`, and the action property `EachWriteIsItsOwn`.
* `MicrophoneBookkeeping`, `MicrophoneStaysHonest`: `[]MInv`, `[]MicrophoneIsHonest`.
* `TrayBookkeeping`, `TrayTypes`, `TrayStaysHonest`: `[]TInv`, `[]TypeOK`, `[]TrayIsHonest`.
* `TheVoiceSideIsHonest`: `VoiceSpec =>` all five properties, by `Parts`: a behaviour of the run
  is one of each part.

The arguments. *Player*: a token that was set is never unset, and a sentence is let through
only before it is (`TailInv`); a cloud request holds a token of its own from its reservation
on, so switching privacy mode on sets it or finds it superseded (`ExposedInv`). *Settings*:
whoever is about to replace the file holds the write lock, and its base is the file as it
is (`LockInv`), which is why no write undoes another; a request at the key is alone or the
key is in doubt (`KeyInv`). *Microphone*: `Good` says that there is one owner: a pending start
is the only one, a stream that is open or opening shows no label that denies it, and a
listener has no reason to be suspended; push-to-talk's reason is held as long as it has the
microphone (`PttInv`), and `teardown` leaves everything still whatever it finds.
*Tray*: nothing in it is exact, everything is late by a bounded amount. A message sent
since the last change carries the page's state (`PostInv`); the server's report is as
fresh as the beat of any page that still beats (`BeatInv`, `ReportInv`); each line of the
tray is as true as the age of the answer it was painted from allows, phase by phase of
its poll (`LineInv`, `PrivInv`). Each of the four was an invariant of a TLC run on the
constants of `MCVoice.cfg` before it was proved.

`TaskProofs` (first about the specification the run `commands` checks, under
`PolicyAssumption`, `PolicyBounds` and `CommandBounds`: for any words, commands and projects, any
number of plans, edits, processes and failed readings):

* `TheRefusalStands`, `TheDeclarationsAsk`: `RefusalStands` and `DeclarationsAsk`, which the run
  assumes of its own tables, for every table with the code's lists of programs.
* `PolicyBookkeeping`, `PolicyTypes`, `WhatRunsWasReviewed`: `[]IInv`, `[]TypeOK`,
  `[]RunsAsReviewed`.
* `TreeBookkeeping`, `EveryStopIsThorough`: `[]TreeInv`, `[]StopsAreThorough`.
* `TheCommandsAreHonest`: `CommandSpec =>` both properties.

`PolicyAssumption` says of the constants that a program's name is its own word (`Stem` is the
identity on the known programs), and that the names the code itself puts into commands have no shell
syntax or path in them.

The arguments. *Policy*: what the user is told is a function of what the key binds
(`KeySaysAll`), so that an approval that is found under a key was given to what is shown
now; a token is only in the hands of the thread it was given to, and is gone when that
thread waits again (`TokenInv`), so no later proposal finds it. *Tree*: what was ever
shown is captured or is the command itself (`KnownInv`), and a stop that has set to work
answers for each at every stage, as a target, as one that lives, or as one that could not be
verified (`StopOf`); `EndInv` ties the outcome to the cancellation. The type of the tree's
counter of faults is not proved: it counts with the cardinality of sets that would have to be
shown finite.

The same module, about the specification the run `task_work` checks (for any paths, contents,
processes and children, any number of edits, writes, requests, page errors and faults, under
`WorkAssumption`, `PreviewAssumption` and `CheckAssumption`: the user's contents are not the task's,
the bounds are numbers, and a process has none of the names the model itself uses):

* `ChangesBookkeeping`, `ChangesTypes`: `Work!Spec => []GInv`, `[]TypeOK`.
* `BackupsKeepTheBytes`, `UndoGivesAllBack`: `[]TakenIsKept`, and all of `[]UndoGivesBack`.
* `ArchivesAreReviewed`: the action property `ExportIsReviewed`.
* `PreviewBookkeeping`, `PreviewTypes`, `PreviewIsWatched`: `Pre!Spec => []PInv`, `[]TypeOK`,
  `[]PreviewIsAccountedFor`.
* `CheckBookkeeping`, `CheckTypesHold`, `CheckStaysHonest`: `QA!Spec => []QInv`, `[]TypeOK`,
  `[]CheckIsHonest`.
* `TheTaskWorkIsHonest`: `WorkSpec =>` all four properties.

The arguments. *Changes*: in `GInv` each entry of a record has a number of its own, smaller than
that of the edit under way (`EntriesOK`, `LenOK`, `InOrder`), so a copy is of one entry
and no other edit writes it (`CopiesOK`); an edit or an undo between its look and its
write is bound to what it read, unless somebody wrote in that instant (`BoundOK`, `UndoOK`). That
keeps the user's bytes. That an undo is complete needs more (`UInv`): as long as nobody else
writes, there is a sequence of trees, from the files before the task to those there are,
each following from the one before by one change on record (`Story`); an undo walks it back from
the end, and every copy it still needs is there (`Kept`), so each change it meets is one
`may_undo` admits and nothing is skipped. *Preview*: the handle and the state a session shows are
of one process or the state is blank (`OfOne`), since a finding is written only while its check
is under way and nobody puts another preview there before. *Check*: nothing is
decided before the clean-up (`Decides`); once the last look is over, who runs and is not among
the targets was born after it, or it showed nothing (`NobodyOverlooked`); and once the targets
are dealt with, who runs among them is in the report or the report says that the clean-up failed
(`SurvivorsAreSaid`). Each inductive invariant of this section was
an invariant of a TLC run before it was proved.

Model-checked only:

* Liveness (`ConfirmedSettles`, `EveryRequestReturns`, `DropsHeal`, `EveryChangeReturns`,
  `StopTakesHold`, `ThinkingEnds`, `CancelIsAnswered`; fairness is out of the prover's reach),
  and the ENABLED of `QuitNeverWaits` in `StopsAreClean`.
* `StreamIsHonest`: its part `StreamIsExact` says what a selection from a sequence is, which takes
  induction over the sequence.
* The type of `EventStream`, of which nothing is proved, and in `NewProject!TypeOK` the bound of
  `kept`, the list of plans, which the server shortens with SelectSeq.

## 5. Not modelled, and why

* `account_unfunded` as a state of its own, the `ANTHROPIC_API_KEY` override,
  and a process that ends between the key write and the metadata write
  (`CredentialPair`): the last one is a listed hazard; nothing in the code
  repairs it.
* The text of commands, messages and logs, and the handlers' effects.
* `AWAITING_APPROVAL` after a lazy expiry: nobody moves the runtime state then.
  No document says that anything should, so it is a hazard without a property.
* Two readers may publish their snapshots in the opposite order of their reads
  (`credential_view.py:212`); the snapshot is only a fallback.
* The coding page beyond the project forms: it was read and has no state that the
  server does not have. The task form stays in place while a task runs, so a new plan or
  a cancel changes the task the page's buttons speak of; an approval is shown by its
  kind and summary only.
* Recognition of speech and the detector of claps: numbers over samples.
* The commit of a task's changes: one git command after the proposal; it adds the
  files of the record, with whatever the user has in them.
* Retirement of old tasks, their copies and worktrees: nothing in the code does
  the last one.
* The signature check, the catalogue of models and the templates: tables and pure
  functions.
* Sessions, origin and redaction: checks without state between calls. Desktop tools:
  one call to Windows each, which `ActionPipeline` sees end, fail or hang.
  Configuration, diagnostics and packaging: settings, logs and scripts.

## 6. Plan

Done: approval, credentials, events, the coding task and its commands, chat, launcher, data directory, voice,
settings, tray, installers, projects, isolation, changes, preview and browser check, and proofs
for all of them but the events.

Next, in this order:

1. Composition. `CloudVoice` over `CredentialStore` in place of the three outcomes
   it has for a key change; `CodingSession` with the record of `TaskChanges`, for
   the saves that overwrite each other.
2. The commit of a task's changes, on `Isolation`'s repository; the path rules of
   `workspace.py`, on a small file system.

---------------------------- MODULE CommandPolicy ----------------------------
(***************************************************************************)
(* Which commands of a coding task run, and on whose word                  *)
(* (app/coding/commands.py, stacks.py, of agent.py and loop.py the steps   *)
(* that ask, of api/coding_routes.py the preview the user plans himself).  *)
(*                                                                         *)
(* A command is a list of words.  The project says which commands are its  *)
(* own, and anybody may edit it at any time; it is read again before each  *)
(* decision.  The task's thread decides on the model's proposals; the page *)
(* shows a plan of a preview and starts it when the user confirms.  What   *)
(* else moves a task (stops, limits, failures) is in CodingSession.        *)
(*                                                                         *)
(* Words are in lower case: hardly a rule looks at the case of a letter.   *)
(***************************************************************************)
EXTENDS Naturals, Sequences, FiniteSets

CONSTANTS
  Words,      \* the words of commands and scripts
  Stems,      \* the names of the programs whose word is not their name
  Shellish,   \* the words with shell syntax in them
  Paths,      \* the words that are paths
  Options,    \* the words that begin with a dash
  Reaching,   \* the words that name a host or a proxy
  Hosts,      \* the hosts of words like --registry=host
  Lines,      \* the commands that are proposed
  Projects,   \* what the project's files may say
  MaxPlans,   \* bound: plans of a preview that the server has at a time
  MaxEdits    \* bound: edits of the project

VARIABLES
  project,    \* what the project's files say
  tokens,     \* context.approval_tokens
  pending,    \* TaskRunner._pending: what waits for the user
  job,        \* the task's thread: the proposal it is at
  plans,      \* _preview_plans
  edits,
  ran         \* what was started last, and what the user had seen of it (history)

vars == <<project, tokens, pending, job, plans, edits, ran>>

ASSUME PolicyBounds == MaxPlans \in Nat /\ MaxEdits \in Nat

-----------------------------------------------------------------------------
(* The words that commands.py knows *)

BlockedPrograms == {
  "powershell", "pwsh", "cmd", "command", "wscript", "cscript", "bash", "sh", "zsh", "dash",
  "ksh", "csh", "fish", "busybox", "psexec", "psexec64", "runas", "sudo", "su", "gsudo",
  "elevate", "winrs", "wmic", "at", "schtasks", "sc", "net", "net1", "reg", "regedit",
  "regedt32", "bcdedit", "diskpart", "format", "vssadmin", "wbadmin", "cipher", "takeown",
  "icacls", "cacls", "netsh", "firewall", "defender", "mpcmdrun", "secedit", "gpupdate",
  "shutdown", "logoff", "tsdiscon", "cmdkey", "vaultcmd", "mimikatz", "lsass", "nmap",
  "masscan", "netcat", "nc", "ncat", "telnet", "ssh", "scp", "sftp", "rsync", "ftp", "tftp",
  "curl", "wget", "iwr", "invoke-webrequest", "del", "erase", "rd", "rmdir", "rm", "move",
  "robocopy", "xcopy", "attrib", "fsutil", "taskkill", "tskill", "kill", "pkill", "killall",
  "rundll32", "certutil", "bitsadmin", "mshta", "regsvr32", "installutil", "odbcconf",
  "msiexec", "forfiles", "pcalua", "wusa", "conhost", "explorer", "msdt", "cmstp", "hh",
  "ieexec"}

KnownToolchain == {
  "node", "npm", "npx", "pnpm", "pnpx", "yarn", "bun", "bunx", "deno", "python", "python3",
  "py", "pip", "pip3", "uv", "poetry", "pipenv", "pytest", "ruff", "black", "mypy", "pyright",
  "flake8", "isort", "tsc", "eslint", "prettier", "vite", "vitest", "jest", "webpack",
  "rollup", "esbuild", "swc", "playwright", "git"}

GitReadOnly == {
  "status", "diff", "log", "show", "branch", "remote", "rev-parse", "ls-files", "ls-tree",
  "worktree", "config", "describe", "shortlog", "blame", "cat-file", "symbolic-ref", "stash"}

GitBlocked == {
  "push", "merge", "rebase", "reset", "clean", "checkout", "switch", "restore", "cherry-pick",
  "revert", "filter-branch", "filter-repo", "gc", "prune", "reflog", "am", "apply", "clone",
  "fetch", "pull", "submodule", "remote-add", "update-ref", "daemon", "credential"}

RemoteMutations == {"add", "set-url", "remove", "rm", "rename", "prune", "set-branches",
                    "set-head"}

BranchDestructive == {"-d", "--delete", "-m", "--move", "--force", "-f", "-u",
                      "--set-upstream-to"}

InstallSubcommands == {"install", "i", "add", "ci", "update", "upgrade", "remove",
                       "uninstall", "link", "unlink", "dlx", "create", "init", "exec"}

NodeManagers == {"npm", "pnpm", "yarn", "bun"}
Managers     == NodeManagers \cup {"pip", "pip3", "poetry", "uv", "pipenv"}
Downloaders  == {"npx", "pnpx", "bunx"}
Reports      == {"list", "ls", "outdated", "why", "view", "show", "--version"}
Queries      == {"--version", "-v", "--help", "-h"}
RegistryFlags == {"--registry", "--index-url", "--extra-index-url"}

-----------------------------------------------------------------------------
(* What the project declares: stacks.detect and project_commands *)

\* The names under which a script is taken for an intent, the first one first.
Candidates == [
  test      |-> <<"test", "tests", "test:unit", "vitest", "jest">>,
  lint      |-> <<"lint", "eslint", "lint:js">>,
  format    |-> <<"format", "fmt", "prettier">>,
  typecheck |-> <<"typecheck", "type-check", "tsc", "types">>,
  build     |-> <<"build", "compile">>,
  dev       |-> <<"dev", "start", "serve", "preview">>]

PythonRuns == [
  test      |-> <<"python", "-m", "pytest", "-q">>,
  lint      |-> <<"python", "-m", "ruff", "check", ".">>,
  format    |-> <<"python", "-m", "black", "--check", ".">>,
  typecheck |-> <<"python", "-m", "mypy", ".">>]

Intents == DOMAIN Candidates

\* _detect_node and _detect_python: the managers whose lockfiles are there, the
\* one that package.json names, its scripts, and the tools the Python files
\* mention, if there are any.
IsProject(p) ==
  /\ p.lockfiles \subseteq NodeManagers /\ p.field \in NodeManagers \cup {"none"}
  /\ \A n \in DOMAIN p.scripts : p.scripts[n] \in Seq(Words)
  /\ p.tools \subseteq {"pytest", "ruff", "black", "mypy", "pyright"}

\* A program's name is its word's own, and no name of a program, nor of a script that
\* is looked for, has shell syntax or a path in it.
ASSUME PolicyAssumption ==
  /\ Lines \subseteq Seq(Words) /\ \A p \in Projects : IsProject(p)
  /\ DOMAIN Stems \cap KnownToolchain = {} /\ KnownToolchain \cap Paths = {}
  /\ \A i \in Intents : \A n \in DOMAIN Candidates[i] : Candidates[i][n] \notin Shellish
  /\ \A i \in DOMAIN PythonRuns : \A n \in DOMAIN PythonRuns[i] : PythonRuns[i][n] \notin Shellish
  /\ NodeManagers \cap Shellish = {} /\ "run" \notin Shellish

\* Two lockfiles: JARVIS does not choose between their managers.
Ambiguous(p) == Cardinality(p.lockfiles) > 1

Manager(p) == IF p.lockfiles = {} THEN p.field ELSE CHOOSE m \in p.lockfiles : TRUE

RunPrefix(p) ==
  <<IF Manager(p) \in {"pnpm", "yarn", "bun"} THEN Manager(p) ELSE "npm", "run">>

Named(p, i) == {n \in DOMAIN Candidates[i] : Candidates[i][n] \in DOMAIN p.scripts}

FromNode(p) == IF Ambiguous(p) THEN {} ELSE {i \in Intents : Named(p, i) # {}}

ScriptOf(p, i) ==
  Candidates[i][CHOOSE n \in Named(p, i) : \A other \in Named(p, i) : n <= other]

\* ruff is preferred to black; a script of the same intent, to either.
FromPython(p) ==
  {i \in DOMAIN PythonRuns \ FromNode(p) :
     \/ i = "test" /\ "pytest" \in p.tools
     \/ i = "lint" /\ "ruff" \in p.tools
     \/ i = "format" /\ "black" \in p.tools /\ "ruff" \notin p.tools
     \/ i = "typecheck" /\ "mypy" \in p.tools}

\* project_commands: the body of a Python default is not known.
Declared(p) ==
  [i \in FromNode(p) \cup FromPython(p) |->
     IF i \in FromNode(p)
     THEN [argv |-> Append(RunPrefix(p), ScriptOf(p, i)), source |-> ScriptOf(p, i),
           body |-> p.scripts[ScriptOf(p, i)]]
     ELSE [argv |-> PythonRuns[i], source |-> "configuration", body |-> <<>>]]

-----------------------------------------------------------------------------
(* The verdict: commands.classify *)

Stem(w) == IF w \in DOMAIN Stems THEN Stems[w] ELSE w

\* _classify_git, its refusals and what only reads.
GitRefused(rest) ==
  /\ rest # <<>>
  /\ \/ rest[1] \in GitBlocked
     \/ rest[1] = "remote" /\ Len(rest) > 1 /\ rest[2] \in RemoteMutations
     \/ rest[1] = "branch" /\ \E n \in 2 .. Len(rest) : rest[n] \in BranchDestructive

GitReads(rest) ==
  /\ rest # <<>> /\ rest[1] \in GitReadOnly \ {"stash"}
  /\ rest[1] = "worktree" => Len(rest) > 1 /\ rest[2] = "list"
  /\ rest[1] = "config" =>
       \A n \in 2 .. Len(rest) : rest[n] # "--unset" /\ (n > 2 => rest[n] \in Options)

\* Refused at every level: nobody can approve it.
Refused(argv) ==
  \/ argv = <<>> \/ argv[1] = ""
  \/ \E n \in DOMAIN argv : argv[n] \in Shellish
  \/ Stem(argv[1]) \in BlockedPrograms \/ argv[1] \in Paths
  \/ Stem(argv[1]) = "git" /\ GitRefused(Tail(argv))

\* The intents that the project declares this very command for.
Declaring(argv, declared) == {i \in DOMAIN declared : declared[i].argv = argv}

\* _classify_package_manager: what only reports.
ManagerReads(rest) == rest # <<>> /\ rest[1] \in Reports

\* What runs without a question.
Reads(argv, declared) ==
  LET program == Stem(argv[1])
  IN  \/ program = "git" /\ GitReads(Tail(argv))
      \/ /\ program \in KnownToolchain \ {"git"} /\ Declaring(argv, declared) = {}
         /\ \/ program \in Managers /\ ManagerReads(Tail(argv))
            \/ /\ program \notin Managers \cup Downloaders
               /\ \A n \in DOMAIN argv : argv[n] \notin Reaching
               /\ Len(argv) > 1 /\ argv[Len(argv)] \in Queries

Tier(argv, declared) ==
  IF Refused(argv) THEN "blocked" ELSE IF Reads(argv, declared) THEN "auto" ELSE "approval"

\* _suspicious_script_body
Suspicious(body) ==
  \E n \in DOMAIN body : body[n] \notin Options /\ Stem(body[n]) \in BlockedPrograms

\* _registry_for: the first word that says where packages come from.
Overrides(rest) ==
  {n \in DOMAIN rest : rest[n] \in DOMAIN Hosts \/ (rest[n] \in RegistryFlags /\ n < Len(rest))}

Registry(rest) ==
  IF Overrides(rest) = {} THEN "default"
  ELSE LET n == CHOOSE m \in Overrides(rest) : \A other \in Overrides(rest) : m <= other
       IN  IF rest[n] \in DOMAIN Hosts THEN Hosts[rest[n]] ELSE rest[n + 1]

NoEntry == [argv |-> <<>>, source |-> "", body |-> <<>>]

EntryFor(argv, declared) ==
  IF Declaring(argv, declared) = {} THEN NoEntry
  ELSE declared[CHOOSE i \in Declaring(argv, declared) : TRUE]

\* What the user is told of a command before he approves it.
Says(argv, entry) ==
  LET program == Stem(argv[1])
      rest == Tail(argv)
  IN  IF program = "git" THEN "git"
      ELSE IF program \notin KnownToolchain THEN "unknown tool"
      ELSE IF entry # NoEntry
        THEN IF entry.body = <<>> THEN "unreadable"
             ELSE IF Suspicious(entry.body) THEN "flagged" ELSE "declared"
      ELSE IF program \in Managers
        THEN IF rest # <<>> /\ rest[1] \in InstallSubcommands THEN Registry(rest) ELSE "manager"
      ELSE IF program \in Downloaders THEN "downloads"
      ELSE IF \E n \in DOMAIN argv : argv[n] \in Reaching THEN "network" ELSE "unlisted"

-----------------------------------------------------------------------------
(* Asking *)

\* Mutated form of Key: an approval is for the words alone.
KeyOfWords(argv, declared) == [argv |-> argv, entry |-> NoEntry]

\* approval_key
Key(argv, declared) == [argv |-> argv, entry |-> EntryFor(argv, declared)]

\* An ApprovalRequest: what the user sees.
Request(argv, declared) ==
  LET entry == EntryFor(argv, declared)
  IN  [kind |-> "request", argv |-> argv, entry |-> entry, says |-> Says(argv, entry)]

None == [kind |-> "none"]
Idle == [at |-> "idle", what |-> None, seen |-> None, key |-> None, asks |-> None]
Commands == {[kind |-> "command", argv |-> argv] : argv \in Lines}
Previews == {[kind |-> "preview", script |-> i] : i \in Intents}

Init ==
  /\ project \in Projects /\ edits = 0
  /\ tokens = {} /\ pending = None /\ job = Idle
  /\ plans = [n \in 1 .. MaxPlans |-> None]
  /\ ran = None

\* What is started, beside what the user was shown before he said yes to it.
Started(argv, declared, seen) ==
  ran' = [kind |-> "ran", tier |-> Tier(argv, declared), now |-> Request(argv, declared),
          seen |-> seen]

\* run(): the model's next proposal.
Propose(what) ==
  /\ job = Idle /\ pending = None
  /\ job' = [Idle EXCEPT !.at = "execute", !.what = what]
  /\ UNCHANGED <<project, tokens, pending, plans, edits, ran>>

\* execute_proposal is through: it did something, or it asks.
Through(asks) == job' = [job EXCEPT !.at = "end", !.asks = asks]

\* The command is refused, or there is no such script to preview.
RefuseIt ==
  /\ UNCHANGED <<tokens, ran>> /\ Through(None)

\* An approval is taken for this execution if there is one, and asked for if
\* there is none.
AskOrRun(argv, declared) ==
  \/ /\ Key(argv, declared) \in tokens
     /\ tokens' = tokens \ {Key(argv, declared)}
     /\ Started(argv, declared, job.seen) /\ Through(None)
  \/ /\ Key(argv, declared) \notin tokens
     /\ UNCHANGED <<tokens, ran>>
     /\ Through([kind |-> "asks", what |-> job.what, key |-> Key(argv, declared),
                 request |-> Request(argv, declared)])

\* agent.execute_proposal: the declarations are read again first.
Execute ==
  LET declared == Declared(project)
      what == job.what
  IN  /\ job.at = "execute"
      /\ \/ /\ what.kind = "command"
            /\ \/ Tier(what.argv, declared) = "blocked" /\ RefuseIt
               \/ /\ Tier(what.argv, declared) = "auto"
                  /\ Started(what.argv, declared, job.seen) /\ Through(None)
                  /\ UNCHANGED tokens
               \/ Tier(what.argv, declared) = "approval" /\ AskOrRun(what.argv, declared)
         \/ /\ what.kind = "preview"
            /\ IF what.script \in DOMAIN declared
               THEN AskOrRun(declared[what.script].argv, declared) ELSE RefuseIt
      /\ UNCHANGED <<project, pending, plans, edits>>

\* approve() takes back what was not used; run() and approve() wait for the
\* user if there is something to ask.
Leave ==
  /\ job.at = "end" /\ job' = Idle /\ pending' = job.asks
  /\ tokens' = tokens \ {job.key}
  /\ UNCHANGED <<project, plans, edits, ran>>

\* TaskRunner.approve(granted)
Decide(granted) ==
  /\ job = Idle /\ pending # None /\ pending' = None
  /\ IF granted
     THEN /\ tokens' = tokens \cup {pending.key}
          /\ job' = [at |-> "execute", what |-> pending.what, seen |-> pending.request,
                     key |-> pending.key, asks |-> None]
     ELSE UNCHANGED <<tokens, job>>
  /\ UNCHANGED <<project, plans, edits, ran>>

-----------------------------------------------------------------------------
(* The user's own preview *)

\* POST /preview/plan shows a script that the project declares.
PlanPreview(n, i) ==
  LET declared == Declared(project)
  IN  /\ plans[n] = None /\ i \in DOMAIN declared
      /\ plans' = [plans EXCEPT ![n] =
           [kind |-> "plan", script |-> i, key |-> Key(declared[i].argv, declared),
            request |-> Request(declared[i].argv, declared)]]
      /\ UNCHANGED <<project, tokens, pending, job, edits, ran>>

\* Its time is up, or there are too many.
PlanGoes(n) ==
  /\ plans[n] # None /\ plans' = [plans EXCEPT ![n] = None]
  /\ UNCHANGED <<project, tokens, pending, job, edits, ran>>

\* POST /preview/start takes the plan out, and starts it if nothing changed.
StartPreview(n) ==
  LET declared == Declared(project)
      plan == plans[n]
  IN  /\ plan # None /\ plans' = [plans EXCEPT ![n] = None]
      /\ IF plan.script \in DOMAIN declared /\ Key(declared[plan.script].argv, declared) = plan.key
         THEN Started(declared[plan.script].argv, declared, plan.request)
         ELSE UNCHANGED ran
      /\ UNCHANGED <<project, tokens, pending, job, edits>>

\* Somebody edits the project's files: the user, his tools or the task.
Edit(p) ==
  /\ edits < MaxEdits /\ edits' = edits + 1 /\ project' = p
  /\ UNCHANGED <<tokens, pending, job, plans, ran>>

Next ==
  \/ \E what \in Commands \cup Previews : Propose(what)
  \/ Execute \/ Leave \/ \E granted \in BOOLEAN : Decide(granted)
  \/ \E n \in 1 .. MaxPlans : PlanGoes(n) \/ StartPreview(n) \/ \E i \in Intents : PlanPreview(n, i)
  \/ \E p \in Projects : Edit(p)

Spec == Init /\ [][Next]_vars

-----------------------------------------------------------------------------
(* Properties *)

\* What the user is asked about, and has seen: nothing is started that is refused, and
\* what needs an approval is started only by one that was given, for this very execution,
\* to the words and the declaration that are there now, whatever was edited, declined,
\* asked again or planned in between (execute_proposal, approve, start_preview).
RunsAsReviewed ==
  ran # None => ran.tier # "blocked" /\ (ran.tier = "approval" => ran.seen = ran.now)

\* A declaration is evidence, not permission: whatever the project says, what it declares
\* can be run, needs an approval, and is declared once, so that the request names the
\* right script (classify, project_commands; the preview is started without a verdict).
DeclarationsAsk ==
  \A p \in Projects : \A i \in DOMAIN Declared(p) :
    LET argv == Declared(p)[i].argv
    IN  Tier(argv, Declared(p)) = "approval" /\ Declaring(argv, Declared(p)) = {i}

\* What is refused is refused with any further words (classify, _classify_git).
RefusalStands ==
  \A argv \in Lines, w \in Words : argv # <<>> /\ Refused(argv) => Refused(Append(argv, w))

TypeOK ==
  /\ project \in Projects /\ edits \in 0 .. MaxEdits
  /\ job.at \in {"idle", "execute", "end"} /\ job.what \in Commands \cup Previews \cup {None}
  /\ pending.kind \in {"none", "asks"} /\ ran.kind \in {"none", "ran"}
  /\ \A n \in 1 .. MaxPlans : plans[n].kind \in {"none", "plan"}

\* Not so: "Version queries are the one genuinely inert family" (commands.py:368).  Only
\* the last word is looked at, and -v also asks a test runner to say more.
QueriesAreInert ==
  \A argv \in Lines : ~Refused(argv) /\ Reads(argv, Declared(project)) =>
    Stem(argv[1]) \in Managers \cup {"git"} \/ Len(argv) = 2
=============================================================================

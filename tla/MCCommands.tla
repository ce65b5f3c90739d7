------------------------------ MODULE MCCommands ------------------------------
(* The commands of a coding task, on a small instance: the verdict on each and  *)
(* the user's word (CommandPolicy), and one that runs, with the processes it    *)
(* starts (CommandTree).  They share no variable, so a behaviour here is a      *)
(* behaviour of one of them while the other stays at its start: `part` says     *)
(* which.                                                                       *)
EXTENDS CommandPolicy

CONSTANTS MaxProcs, MaxFaults

VARIABLES
  part,
  alive, pid, parent, births, root, own, captured, cancelled, tracked, at, targets, live,
  unknown, timedOut, outcome, shown, promised, forgotten, signalled, faults

treeVars == <<alive, pid, parent, births, root, own, captured, cancelled, tracked, at,
              targets, live, unknown, timedOut, outcome, shown, promised, forgotten,
              signalled, faults>>

ASSUME CommandBounds == MaxProcs \in Nat /\ MaxFaults \in Nat

\* One command of each rule, and what is nearly one.
MCLines == {
  <<>>, <<"">>, <<"PowerShell.exe">>, <<"./npm">>, <<"tool">>,
  <<"git">>, <<"git", "status">>, <<"git", "push">>, <<"git", "remote", "add">>,
  <<"git", "branch", "-d">>, <<"git", "worktree">>, <<"git", "config", "name", "-v">>,
  <<"npm", "run", "test">>, <<"npm", "run", "a;b">>, <<"npm", "ls">>,
  <<"npm", "install", "--registry", "host">>, <<"npm", "install", "--registry=host">>,
  <<"npx", "tool">>, <<"python", "-m", "pytest", "-q">>, <<"python", "-m", "pytest", "-v">>,
  <<"node", "http:host">>}

MCWords == UNION {{line[n] : n \in DOMAIN line} : line \in MCLines} \cup {"vitest", "curl"}
MCStems == [w \in {"PowerShell.exe"} |-> "powershell"]
MCHosts == [w \in {"--registry=host"} |-> "host"]

Files(locks, named, scripts, tools) ==
  [lockfiles |-> locks, field |-> named, scripts |-> scripts, tools |-> tools]

\* A project, its scripts replaced, two lockfiles with other tests, and no lockfile.
MCProjects == {
  Files({"npm"}, "none", [test |-> <<"vitest">>, dev |-> <<"curl", "host">>], {}),
  Files({"npm"}, "none", [test |-> <<"tool">>, dev |-> <<>>], {"ruff"}),
  Files({"npm", "pnpm"}, "none", [test |-> <<"vitest">>], {"pytest"}),
  Files({}, "pnpm", [vitest |-> <<"vitest">>, start |-> <<"tool">>], {"black", "mypy"})}

Tree == INSTANCE CommandTree

CommandInit ==
  /\ part \in {"policy", "tree"} /\ Init /\ Tree!Init
  /\ part = "tree" => project = CHOOSE p \in MCProjects : p.tools = {}

CommandNext ==
  /\ UNCHANGED part
  /\ \/ part = "policy" /\ Next /\ UNCHANGED treeVars
     \/ part = "tree" /\ Tree!Next /\ UNCHANGED vars

CommandSpec == CommandInit /\ [][CommandNext]_<<part, vars, treeVars>>

\* What the tables of the policy are to guarantee, on these commands and projects.
ASSUME PolicyTables == DeclarationsAsk /\ RefusalStands

\* A stop leaves nothing behind that it knows of and does not report.
StopsAreThorough == Tree!StopsAreThorough
=============================================================================

----------------------------- MODULE CommandTree -----------------------------
(***************************************************************************)
(* One command of a coding task and the processes it starts                *)
(* (app/coding/runner.py, app/launcher/process_tree.py).                   *)
(*                                                                         *)
(* The caller "run" is the task's thread inside runner.run(); the caller   *)
(* "other" is whoever took the handle out of the ledger to stop it.  Both  *)
(* may be inside CommandHandle.stop() at once.  The system numbers its     *)
(* processes in the order they are created and gives each a pid: one that  *)
(* was not used before, named here after its first process, or the pid of  *)
(* a process that is gone, except the command's own, which Popen's handle  *)
(* keeps.  Any process may end at any time.                                *)
(*                                                                         *)
(* psutil is taken at its word: a walk shows the living processes that     *)
(* were started below the one it begins at, and a signal reaches the       *)
(* process it was resolved to or nobody.                                   *)
(***************************************************************************)
EXTENDS Naturals, FiniteSets

CONSTANTS
  MaxProcs,    \* bound: processes that are started, by the command or anybody
  MaxFaults    \* bound: readings and waits that fail

Callers == {"run", "other"}
Procs == 1 .. MaxProcs

VARIABLES
  alive,      \* the processes that run
  pid,        \* the pid each one has, or had
  parent,     \* the process that started it, 0 for the rest of the machine
  births,     \* how many processes there have been
  root,       \* CommandHandle._process, 0 before Popen
  own,        \* CommandHandle._own: no identity or one
  captured,   \* CommandHandle._captured
  cancelled,  \* CommandHandle._cancelled
  tracked,    \* the ledger has the handle
  at,         \* where each caller is
  targets,    \* terminate_identities: what it is to end
  live,       \* and what of it has not been seen to exit
  unknown,    \* and what it left alone, for it could not be verified
  timedOut,   \* run() reached its deadline
  outcome,    \* what run() returned
  shown,      \* processes the handle's looks at the tree have shown (history)
  promised,   \* and what each stop had been shown when it set to work (history)
  forgotten,  \* what ran on when a stop returned, and no report of it (history)
  signalled,  \* processes a signal was sent to (history)
  faults

machine == <<alive, pid, parent, births>>
handle  == <<root, own, captured, cancelled, tracked, shown>>
cleanup == <<targets, live, unknown, promised, forgotten, signalled>>
ending  == <<timedOut, outcome>>
vars == <<machine, handle, at, cleanup, ending, faults>>

\* A ProcessIdentity: without its creation time it cannot prove itself later.
Identities == [proc : Procs, dated : BOOLEAN]

Init ==
  /\ alive = {} /\ births = 0
  /\ pid = [b \in Procs |-> b] /\ parent = [b \in Procs |-> 0]
  /\ root = 0 /\ own = {} /\ captured = {} /\ cancelled = FALSE /\ tracked = TRUE
  /\ at = [k \in Callers |-> "idle"]
  /\ targets = [k \in Callers |-> {}] /\ live = [k \in Callers |-> {}]
  /\ unknown = [k \in Callers |-> {}]
  /\ timedOut = FALSE /\ outcome = "none"
  /\ shown = {} /\ promised = [k \in Callers |-> {}] /\ forgotten = {}
  /\ signalled = {} /\ faults = 0

-----------------------------------------------------------------------------
(* The machine *)

\* The pids of processes among these that are gone and that somebody may get.
Freed(procs) ==
  {p \in {pid[b] : b \in procs \ alive} :
     (root # 0 => p # pid[root]) /\ \A b \in alive : pid[b] # p}

\* Somebody is still at work on the command.
Busy == at["run"] # "over" \/ at["other"] \notin {"idle", "over"}

\* A process comes up on a pid.
Born(by, p) ==
  /\ births < MaxProcs
  /\ births' = births + 1
  /\ alive' = alive \cup {births + 1}
  /\ pid' = [pid EXCEPT ![births + 1] = p]
  /\ parent' = [parent EXCEPT ![births + 1] = by]

\* A process starts one, or the rest of the machine gets the pid of one that
\* the handle knows: elsewhere it would be of no interest.
Spawn ==
  /\ Busy
  /\ \/ \E by \in alive, p \in {births + 1} \cup Freed(1 .. births) : Born(by, p)
     \/ \E p \in Freed(shown) : Born(0, p)
  /\ UNCHANGED <<handle, at, cleanup, ending, faults>>

Exit ==
  /\ Busy /\ \E b \in alive : alive' = alive \ {b}
  /\ UNCHANGED <<pid, parent, births, handle, at, cleanup, ending, faults>>

\* psutil.Process(pid).children(recursive=True).
Below(b) ==
  LET under[c \in Procs] ==
        parent[c] = b \/ (parent[c] \in alive /\ under[parent[c]])
  IN  IF b \in alive THEN {c \in alive : under[c]} ELSE {}

-----------------------------------------------------------------------------
(* Looking at processes *)

Fault(n) == faults + n <= MaxFaults /\ faults' = faults + n

\* capture_descendants over some processes: the creation time of one may be
\* refused, and a walk that raises shows nothing.
Sees(below, ids) ==
  \/ ids = {} /\ below # {} /\ Fault(1)
  \/ \E refused \in SUBSET below :
       /\ Fault(Cardinality(refused))
       /\ ids = {[proc |-> b, dated |-> b \notin refused] : b \in below}

Seen(below) ==
  {ids \in SUBSET [proc : below, dated : BOOLEAN] :
     \A i, j \in ids : i.proc = j.proc => i = j}

\* Mutated form of Recapture: the last look replaces the earlier ones.
RecaptureAnew ==
  \E ids \in Seen(Below(root)) :
    /\ Sees(Below(root), ids)
    /\ captured' = ids
    /\ shown' = shown \cup {i.proc : i \in ids}

\* CommandHandle._recapture: what is new is added, nothing is dropped.
Recapture ==
  \E ids \in Seen(Below(root)) :
    /\ Sees(Below(root), ids)
    /\ captured' = captured \cup ids
    /\ shown' = shown \cup {i.proc : i \in ids}

PidsOf(ids) == {pid[i.proc] : i \in ids}

-----------------------------------------------------------------------------
(* runner.run *)

Go(k, from, to) == at[k] = from /\ at' = [at EXCEPT ![k] = to]

\* Popen, or the program is not there, belongs to the project or fails.
Start ==
  /\ \/ /\ Go("run", "idle", "identify")
        /\ Born(0, births + 1)
        /\ root' = births + 1
        /\ UNCHANGED <<own, captured, cancelled, tracked, shown, ending>>
     \/ /\ Go("run", "idle", "over")
        /\ outcome' = "failed" /\ tracked' = FALSE
        /\ UNCHANGED <<machine, root, own, captured, cancelled, shown, timedOut>>
  /\ UNCHANGED <<cleanup, faults>>

\* _identity_for_pid: the command may have exited already.
Identify ==
  /\ Go("run", "identify", "born")
  /\ IF root \in alive
     THEN /\ \E refused \in BOOLEAN :
               /\ own' = {[proc |-> root, dated |-> ~refused]}
               /\ Fault(IF refused THEN 1 ELSE 0)
          /\ shown' = shown \cup {root}
     ELSE UNCHANGED <<own, shown, faults>>
  /\ UNCHANGED <<machine, root, captured, cancelled, tracked, cleanup, ending>>

\* The first capture, and the ones the loop repeats.
Watch ==
  /\ at["run"] \in {"born", "loop"}
  /\ at' = [at EXCEPT !["run"] = "loop"]
  /\ Recapture
  /\ UNCHANGED <<machine, root, own, cancelled, tracked, cleanup, ending>>

\* The loop ends: the command did, it was cancelled, or its time is up.  Then
\* it is stopped, unless it ended by itself and nobody cancelled it.
Leave ==
  /\ \/ (root \notin alive \/ cancelled) /\ UNCHANGED timedOut
     \/ root \in alive /\ ~cancelled /\ timedOut' = TRUE
  /\ Go("run", "loop", IF timedOut' \/ cancelled THEN "stop" ELSE "join")
  /\ UNCHANGED <<machine, handle, cleanup, outcome, faults>>

\* The CommandOutcome, and ledger.forget in the caller's finally.
Returned ==
  /\ Go("run", "join", "over")
  /\ tracked' = FALSE
  /\ \/ timedOut /\ outcome' = "timed_out"
     \/ ~timedOut /\ cancelled /\ outcome' = "cancelled"
     \/ ~timedOut /\ ~cancelled /\ outcome' \in {"ok", "error"}
  /\ UNCHANGED <<machine, root, own, captured, cancelled, shown, cleanup, timedOut, faults>>

-----------------------------------------------------------------------------
(* CommandHandle.stop, by either caller *)

\* ledger.stop_owner or stop_all takes the handle: nobody else gets it.
TakeHandle ==
  /\ tracked /\ tracked' = FALSE
  /\ Go("other", "idle", "stop")
  /\ UNCHANGED <<machine, root, own, captured, cancelled, shown, cleanup, ending, faults>>

\* self._cancelled.set(), and one more look if there is a process.
Cancel(k) ==
  /\ Go(k, "stop", "gather")
  /\ cancelled' = TRUE
  /\ IF root = 0 THEN UNCHANGED <<captured, shown, faults>> ELSE Recapture
  /\ UNCHANGED <<machine, root, own, tracked, cleanup, ending>>

\* stop() returns with its report; run() goes on to join its output's readers.
Return(k, from, admitted) ==
  /\ Go(k, from, IF k = "run" THEN "join" ELSE "over")
  /\ forgotten' = forgotten \cup ((promised[k] \cap alive) \ admitted)
  /\ promised' = [promised EXCEPT ![k] = {}]
  /\ unknown' = [unknown EXCEPT ![k] = {}]
  /\ live' = [live EXCEPT ![k] = {}]

\* What was captured, and the command itself.  If there is nothing, the next
\* steps find nothing.
Gather(k) ==
  /\ Go(k, "gather", "expand")
  /\ targets' = [targets EXCEPT ![k] = captured \cup own]
  /\ promised' = [promised EXCEPT ![k] = shown]
  /\ UNCHANGED <<machine, handle, live, unknown, forgotten, signalled, ending, faults>>

\* terminate_identities looks below every pid it was given, for pids it does
\* not have yet.
Expand(k) ==
  LET below == UNION {Below(b) : b \in {c \in alive : pid[c] \in PidsOf(targets[k])}}
      new   == {b \in below : pid[b] \notin PidsOf(targets[k])}
  IN  /\ Go(k, "expand", "resolve")
      /\ \E ids \in Seen(new) :
           /\ Sees(new, ids)
           /\ targets' = [targets EXCEPT ![k] = @ \cup ids]
           /\ promised' = [promised EXCEPT ![k] = @ \cup {i.proc : i \in ids}]
      /\ UNCHANGED <<machine, handle, live, unknown, forgotten, signalled, ending>>

\* _resolve: the process is there and can prove itself.
Proves(i) == i.dated /\ i.proc \in alive

\* The pid is taken, but by whom cannot be told.
Hidden(i) == ~i.dated /\ \E b \in alive : pid[b] = pid[i.proc]

\* What is proved to be there is sent terminate(); the rest is left alone, and a
\* reading that is refused makes a process unknown as well.
Resolve(k) ==
  \E refused \in SUBSET {i \in targets[k] : Proves(i)} :
    LET mine   == {i \in targets[k] : Proves(i)} \ refused
        hidden == {i \in targets[k] : Hidden(i)} \cup refused
    IN  /\ Go(k, "resolve", "grace")
        /\ Fault(Cardinality(refused))
        /\ live' = [live EXCEPT ![k] = {i.proc : i \in mine}]
        /\ unknown' = [unknown EXCEPT ![k] = {i.proc : i \in hidden}]
        /\ signalled' = signalled \cup {i.proc : i \in mine}
        /\ targets' = [targets EXCEPT ![k] = {}]
        /\ UNCHANGED <<machine, handle, promised, forgotten, ending>>

\* _settle: what has exited is done with; a wait that raises has seen nothing.
Settled(k, rest) ==
  \/ rest = live[k] \cap alive /\ UNCHANGED faults
  \/ rest = live[k] /\ live[k] \ alive # {} /\ Fault(1)

\* The grace after terminate() is over: what is left is sent kill().
Kill(k) ==
  \E rest \in SUBSET live[k] :
    /\ Go(k, "grace", "last")
    /\ Settled(k, rest)
    /\ live' = [live EXCEPT ![k] = rest]
    /\ signalled' = signalled \cup (rest \cap alive)
    /\ UNCHANGED <<machine, handle, targets, unknown, promised, forgotten, ending>>

\* And the grace after kill(): what is left then has survived.
Report(k) ==
  /\ \E rest \in SUBSET live[k] :
       Settled(k, rest) /\ Return(k, "last", rest \cup unknown[k])
  /\ UNCHANGED <<machine, handle, targets, signalled, ending>>

-----------------------------------------------------------------------------

StopStep(k) ==
  \/ Cancel(k) \/ Gather(k) \/ Expand(k) \/ Resolve(k) \/ Kill(k) \/ Report(k)

Next ==
  \/ Spawn \/ Exit
  \/ Start \/ Identify \/ Watch \/ Leave \/ Returned
  \/ TakeHandle \/ \E k \in Callers : StopStep(k)

Spec == Init /\ [][Next]_vars

-----------------------------------------------------------------------------
(* Properties *)

Places == {"idle", "identify", "born", "loop", "join", "over", "stop", "gather", "expand",
           "resolve", "grace", "last"}

TypeOK ==
  /\ alive \subseteq Procs /\ births \in 0 .. MaxProcs
  /\ pid \in [Procs -> Procs] /\ parent \in [Procs -> 0 .. MaxProcs]
  /\ root \in 0 .. MaxProcs
  /\ own \subseteq Identities /\ captured \subseteq Identities
  /\ cancelled \in BOOLEAN /\ tracked \in BOOLEAN
  /\ at \in [Callers -> Places]
  /\ targets \in [Callers -> SUBSET Identities] /\ live \in [Callers -> SUBSET Procs]
  /\ unknown \in [Callers -> SUBSET Procs]
  /\ timedOut \in BOOLEAN
  /\ outcome \in {"none", "failed", "ok", "error", "cancelled", "timed_out"}
  /\ shown \subseteq Procs /\ promised \in [Callers -> SUBSET Procs]
  /\ forgotten \subseteq Procs /\ signalled \subseteq Procs /\ faults \in 0 .. MaxFaults

\* A stop forgets nothing it was ever shown: when it returns, each process that
\* a look at the tree had found by then, and the command itself, has ended or
\* is reported as surviving or unverified - whoever else stops the command
\* meanwhile, and whichever pid was given away again.  And run() says what was
\* done: a command that was sent a signal is never returned as a success.
StopsAreThorough ==
  /\ forgotten = {}
  /\ outcome = "ok" => root \notin signalled

\* Only what the command started, directly or through others, is ended.
Kin == LET below[b \in Procs] == b = root \/ (parent[b] # 0 /\ below[parent[b]])
       IN  {b \in Procs : below[b]}

OnlyOurs == root # 0 => signalled \subseteq Kin
=============================================================================

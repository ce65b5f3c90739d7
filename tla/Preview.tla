------------------------------- MODULE Preview -------------------------------
(***************************************************************************)
(* The owned preview of a coding task (preview.py) and what the browser    *)
(* check does with it (browser_qa.run_checks).  The task's thread starts,  *)
(* checks and stops it, the server's event loop reads and stops it, and    *)
(* each lifetime timer is a thread of its own; they share one              *)
(* PreviewSession whose lock covers only the exchange of its handle.       *)
(***************************************************************************)
EXTENDS Integers, FiniteSets

CONSTANTS
  Procs,       \* processes that can be started, each with its lifetime timer
  MaxFaults,   \* bound: strangers' listeners and deaths
  MaxReads     \* bound: requests that the event loop carries out

VARIABLES
  life,    \* every process: not listening, listening, listening wide, dead
  portOf,  \* the port each process was told to use
  squat,   \* ports on which a stranger listens
  handle,  \* self._handle
  timer,   \* self._lifetime_timer, named by its process
  armed,   \* timers that have not fired and are not cancelled
  aged,    \* processes whose lifetime is over
  ledger,  \* the process ledger's entries for this task
  state,   \* self._state
  pc,      \* where each thread is
  check,   \* the check under way: whose process was verified, who answered
  cancel,  \* the task was told to stop
  faults,
  reads

vars == <<life, portOf, squat, handle, timer, armed, aged, ledger, state, pc,
          check, cancel, faults, reads>>

None     == "none"
Ports    == 1..2
Threads  == {"task", "loop"} \cup Procs
Lives    == {"unused", "mute", "up", "wide", "dead"}
Alive(p) == life[p] \in {"mute", "up", "wide"}
Blank    == [running |-> FALSE, port |-> 0, pid |-> None, page |-> None]
At(w)    == [at |-> w, p |-> None, port |-> 0, then |-> "idle"]

TypeOK ==
  /\ life \in [Procs -> Lives] /\ portOf \in [Procs -> Ports \cup {0}]
  /\ squat \subseteq Ports
  /\ handle \in Procs \cup {None} /\ timer \in Procs \cup {None}
  /\ armed \subseteq Procs /\ aged \subseteq Procs /\ ledger \subseteq Procs
  /\ state \in [running : BOOLEAN, port : Ports \cup {0}, pid : Procs \cup {None},
                page : Procs \cup {None}]
  /\ check \in [of : Procs \cup {None}, saw : Procs \cup {None, "stranger"}]
  /\ pc \in [Threads -> [at : {"idle", "look", "take", "end", "owner", "start", "spawned",
                               "wait", "probe", "verify", "launch", "open", "report"},
                         p : Procs \cup {None}, port : Ports \cup {0},
                         then : {"idle", "start", "probe", "launch", "owner"}]]
  /\ cancel \in BOOLEAN /\ faults \in 0..MaxFaults /\ reads \in 0..MaxReads

Init ==
  /\ life = [p \in Procs |-> "unused"] /\ portOf = [p \in Procs |-> 0]
  /\ squat = {} /\ handle = None /\ timer = None /\ armed = {} /\ aged = {}
  /\ ledger = {} /\ state = Blank
  /\ pc = [t \in Threads |-> At("idle")]
  /\ check = [of |-> None, saw |-> None]
  /\ cancel = FALSE /\ faults = 0 /\ reads = 0

world   == <<life, portOf, squat>>
session == <<handle, timer, armed>>
bounds  == <<cancel, faults, reads, check>>

Is(t, where)   == pc[t].at = where
Goes(t, where) == pc' = [pc EXCEPT ![t].at = where]

-----------------------------------------------------------------------------
(* What everybody does: read the state, prove the listener, stop. *)

Listeners(port) ==
  {p \in Procs : portOf[p] = port /\ life[p] \in {"up", "wide"}}
    \cup (IF port \in squat THEN {"stranger"} ELSE {})

\* _listener_status(): whose listener is on the port.
Status(p, port) ==
  IF port = 0 \/ ~Alive(p) \/ Listeners(port) = {} THEN "waiting"
  ELSE IF Listeners(port) = {p} /\ life[p] = "up" THEN "ready"
  ELSE "unsafe"

\* state, up to the lock: the lifetime, the handle, and whether its process lives.
Refresh(t, then) ==
  /\ IF state.pid # None /\ state.pid \in aged
       THEN /\ pc' = [pc EXCEPT ![t] = [At("take") EXCEPT !.then = then]]
            /\ UNCHANGED <<state, ledger>>
     ELSE IF handle = None \/ ~Alive(handle)
       THEN /\ state' = [state EXCEPT !.running = FALSE]
            /\ ledger' = ledger \ {handle}
            /\ pc' = [pc EXCEPT ![t] = At(then)]
     ELSE /\ pc' = [pc EXCEPT ![t] = [at |-> "look", p |-> handle, port |-> state.port,
                                      then |-> then]]
          /\ UNCHANGED <<state, ledger>>
  /\ UNCHANGED <<world, session, aged>>

\* state, after the lock was given up: what the listener is found to be is written into
\* the state there is by now.
Look(t) ==
  /\ Is(t, "look")
  /\ LET found == Status(pc[t].p, pc[t].port)
     IN IF found = "unsafe" THEN Goes(t, "take") /\ UNCHANGED state
        ELSE state' = [state EXCEPT !.running = (found = "ready")] /\ Goes(t, pc[t].then)
  /\ UNCHANGED <<world, session, aged, ledger, bounds>>

\* stop(): the handle is taken under the lock and its timer cancelled ...
Take(t) ==
  /\ Is(t, "take")
  /\ handle' = None /\ timer' = None /\ armed' = armed \ {timer}
  /\ pc' = [pc EXCEPT ![t].at = "end", ![t].p = handle]
  /\ UNCHANGED <<world, aged, ledger, state, bounds>>

\* ... and then the process is ended and the state begun anew.
EndTaken(t) ==
  /\ Is(t, "end")
  /\ life' = [q \in Procs |-> IF q = pc[t].p THEN "dead" ELSE life[q]]
  /\ ledger' = ledger \ {pc[t].p}
  /\ state' = Blank
  /\ Goes(t, pc[t].then)
  /\ UNCHANGED <<portOf, squat, session, aged, bounds>>

-----------------------------------------------------------------------------
(* The task's thread. *)

Begins(t) == UNCHANGED bounds /\ Is(t, "idle")

StartPreview == Begins("task") /\ ~cancel /\ Refresh("task", "start")
CheckPreview == Begins("task") /\ ~cancel /\ Refresh("task", "probe")
StopPreview  ==
  /\ Begins("task") /\ Goes("task", "take")
  /\ UNCHANGED <<world, session, aged, ledger, state>>

\* find_free_port() looks for a port that nobody listens on.
FreePorts == {port \in Ports : Listeners(port) = {}}

\* start(): refused while a preview is running, whatever else there is.
Spawn ==
  /\ Is("task", "start")
  /\ \/ state.running /\ Goes("task", "idle") /\ UNCHANGED <<life, portOf, ledger, state>>
     \/ /\ ~state.running /\ state' = Blank /\ Goes("task", "idle")
        /\ UNCHANGED <<life, portOf, ledger>>
     \/ \E p \in Procs :
          /\ ~state.running /\ FreePorts # {} /\ life[p] = "unused"
          /\ portOf' = [portOf EXCEPT ![p] = CHOOSE n \in FreePorts : \A m \in FreePorts : n <= m]
          /\ life' = [life EXCEPT ![p] = "mute"]
          /\ ledger' = ledger \cup {p}
          /\ pc' = [pc EXCEPT !["task"] = [At("spawned") EXCEPT !.p = p]]
          /\ UNCHANGED state
  /\ UNCHANGED <<squat, session, aged, bounds>>

Begun(p) == [Blank EXCEPT !.port = portOf[p], !.pid = p]

Adopt ==
  /\ Is("task", "spawned")
  /\ LET p == pc["task"].p
     IN handle' = p /\ timer' = p /\ armed' = armed \cup {p} /\ state' = Begun(p)
  /\ Goes("task", "wait")
  /\ UNCHANGED <<world, aged, ledger, bounds>>

\* The wait for the listener ends: it is ready, unsafe, gone or late.
Wait ==
  /\ Is("task", "wait")
  /\ LET p == pc["task"].p
     IN \/ /\ Status(p, portOf[p]) = "ready"
           /\ state' = [state EXCEPT !.running = TRUE]
           /\ pc' = [pc EXCEPT !["task"] = At("idle")]
        \/ /\ Status(p, portOf[p]) # "ready"
           /\ pc' = [pc EXCEPT !["task"] = At("take")]
           /\ UNCHANGED state
  /\ UNCHANGED <<world, session, aged, ledger, bounds>>

\* http_probe() and verify_ownership(); the state is read once more for its port.
Probe ==
  /\ Is("task", "probe")
  /\ \/ state.running /\ Goes("task", "verify")
     \/ pc' = [pc EXCEPT !["task"] = At("idle")]
  /\ UNCHANGED <<world, session, aged, ledger, state, bounds>>

Verify ==
  /\ Is("task", "verify") /\ UNCHANGED <<cancel, faults, reads>>
  /\ IF handle # None /\ Status(handle, state.port) = "ready"
       THEN check' = [of |-> handle, saw |-> None] /\ Refresh("task", "launch")
       ELSE /\ pc' = [pc EXCEPT !["task"] = At("idle")]
            /\ UNCHANGED <<world, session, aged, ledger, state, check>>

\* The browser is started for the port that was read; that takes its time.
Launch ==
  /\ Is("task", "launch")
  /\ \/ /\ state.running /\ state.port # 0
        /\ pc' = [pc EXCEPT !["task"] = [At("open") EXCEPT !.port = state.port]]
        /\ UNCHANGED check
     \/ /\ pc' = [pc EXCEPT !["task"] = At("idle")]
        /\ check' = [of |-> None, saw |-> None]
  /\ UNCHANGED <<world, session, aged, ledger, state, cancel, faults, reads>>

\* Page.navigate: whoever listens on the port answers.
Answerer(port) ==
  IF Listeners(port) = {} THEN None ELSE CHOOSE who \in Listeners(port) : TRUE

Open ==
  /\ Is("task", "open") /\ Goes("task", "report")
  /\ check' = [check EXCEPT !.saw = Answerer(pc["task"].port)]
  /\ UNCHANGED <<world, session, aged, ledger, state, cancel, faults, reads>>

\* The findings are written into the state that the session has by now.
Report ==
  /\ Is("task", "report")
  /\ state' = [state EXCEPT !.page = check.of]
  /\ check' = [of |-> None, saw |-> None]
  /\ pc' = [pc EXCEPT !["task"] = At("idle")]
  /\ UNCHANGED <<world, session, aged, ledger, cancel, faults, reads>>

-----------------------------------------------------------------------------
(* The event loop, the timers, and the world. *)

LoopReads ==
  /\ Is("loop", "idle") /\ reads < MaxReads /\ reads' = reads + 1
  /\ Refresh("loop", "idle") /\ UNCHANGED <<cancel, faults, check>>

\* sessions.stop(): the preview first, then everything the ledger has for the task.
LoopStops ==
  /\ Is("loop", "idle") /\ reads < MaxReads /\ reads' = reads + 1
  /\ cancel' = TRUE
  /\ pc' = [pc EXCEPT !["loop"] = [At("take") EXCEPT !.then = "owner"]]
  /\ UNCHANGED <<world, session, aged, ledger, state, faults, check>>

StopOwner ==
  /\ Is("loop", "owner")
  /\ life' = [p \in Procs |-> IF p \in ledger THEN "dead" ELSE life[p]]
  /\ ledger' = {}
  /\ pc' = [pc EXCEPT !["loop"] = At("idle")]
  /\ UNCHANGED <<portOf, squat, session, aged, state, bounds>>

\* The lifetime is longer than the wait for the listener.
TimePasses(p) ==
  /\ p \in armed /\ pc["task"].p # p
  /\ aged' = aged \cup {p}
  /\ UNCHANGED <<world, session, ledger, state, pc, bounds>>

\* Mutated form of Expire: the timer only ends the preview it was made for.
ExpireUnlessReplaced(p) ==
  /\ p \in armed \cap aged /\ Is(p, "idle")
  /\ armed' = armed \ {p}
  /\ IF state.pid = p THEN Goes(p, "take") ELSE UNCHANGED pc
  /\ UNCHANGED <<world, handle, timer, aged, ledger, state, bounds>>

\* _expire(): stops whatever preview the session has by now.
Expire(p) ==
  /\ p \in armed \cap aged /\ Is(p, "idle")
  /\ armed' = armed \ {p} /\ Goes(p, "take")
  /\ UNCHANGED <<world, handle, timer, aged, ledger, state, bounds>>

\* The development server starts listening, stops, or ends by itself.
ServerDoes(p) ==
  /\ Alive(p)
  /\ \/ /\ life[p] = "mute" /\ Listeners(portOf[p]) = {}
        /\ \E how \in {"up", "wide"} : life' = [life EXCEPT ![p] = how]
        /\ UNCHANGED faults
     \/ /\ faults < MaxFaults /\ faults' = faults + 1
        /\ \E how \in {"mute", "dead"} : life' = [life EXCEPT ![p] = how]
  /\ UNCHANGED <<portOf, squat, session, aged, ledger, state, pc, cancel, reads, check>>

Stranger(port) ==
  /\ faults < MaxFaults /\ faults' = faults + 1
  /\ port \in FreePorts /\ squat' = squat \cup {port}
  /\ UNCHANGED <<life, portOf, session, aged, ledger, state, pc, cancel, reads, check>>

TaskThread ==
  \/ StartPreview \/ CheckPreview \/ StopPreview
  \/ Spawn \/ Adopt \/ Wait \/ Probe \/ Verify \/ Launch \/ Open \/ Report

Next ==
  \/ TaskThread \/ LoopReads \/ LoopStops \/ StopOwner
  \/ \E t \in Threads : Look(t) \/ Take(t) \/ EndTaken(t)
  \/ \E p \in Procs : TimePasses(p) \/ Expire(p) \/ ServerDoes(p)
  \/ \E port \in Ports : Stranger(port)

Spec == Init /\ [][Next]_vars

-----------------------------------------------------------------------------
(* Properties *)

\* The findings in a preview's state come from a check that proved this preview's process
\* to be the owned one, not an earlier preview's (preview.handle, PreviewSession.start).
FindingsBelong ==
  state.pid # None /\ state.page # None => state.page = state.pid

\* A preview's lifetime is hard: whatever the session holds has a timer that will still
\* take it away, whichever timers, starts and stops came in between (preview.py).
LifetimeIsWatched == handle # None => handle \in armed \/ pc[handle].at = "take"

\* A preview is watched for as long as it is held, and its findings are its own.
PreviewIsAccountedFor == FindingsBelong /\ LifetimeIsWatched

\* "One owned dev server. At most one per task." (preview.py:132).  Violated: start() is
\* refused only while the preview it has answers.
OneServer == Cardinality({p \in Procs : Alive(p) /\ pc["task"].p # p}) <= 1

\* verify_ownership() is there so that JARVIS does not "open a stranger's application"
\* (preview.py:251-262).  Violated: the browser is started between the proof and the
\* navigation.
OursIsOpened == check.saw \in {None, check.of}
=============================================================================

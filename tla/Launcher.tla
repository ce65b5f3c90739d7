------------------------------ MODULE Launcher ------------------------------
(***************************************************************************)
(* The desktop launcher (app/launcher): the parent process with its lock   *)
(* file, its tray loop and its attention thread, the server child it       *)
(* starts, restarts and stops, and the window child both of its threads    *)
(* may open.  Several launches of the program share one lock file, one     *)
(* marker file and one port.                                               *)
(*                                                                         *)
(* A parent is a launch of JARVIS.exe.  Its main thread runs launch() and  *)
(* then the tray's message loop; the attention thread opens the window for *)
(* other launches.  The supervisor object has no lock: `server` and        *)
(* `window` are its two fields, read and written by both threads.          *)
(***************************************************************************)
EXTENDS Integers, Sequences

CONSTANTS
  Parents,      \* launches of the program
  Windowed,     \* bound: the launches whose window child can be spawned
  None,         \* no launch: the lock file is not there
  MaxServers,   \* bound: server children that are ever spawned
  MaxWindows,   \* bound: WindowProcess objects that are ever made
  MaxHelpers,   \* bound: helper processes WebView2 starts for windows
  MaxClicks,    \* bound: choices made in the tray menu
  MaxFaults     \* bound: crashes of a process and children that survive kill()

ASSUME LauncherAssumption ==
  /\ None \notin Parents
  /\ Windowed \subseteq Parents
  /\ MaxServers \in Nat
  /\ MaxWindows \in Nat
  /\ MaxHelpers \in Nat
  /\ MaxClicks \in Nat
  /\ MaxFaults \in Nat

VARIABLES
  lock,     \* the launch named in jarvis.lock, or None
  marker,   \* whether show-window.request is there
  port,     \* the server child whose socket is bound to the port, or 0
  srv,      \* the server children, in the order they were spawned
  win,      \* the WindowProcess objects, in the order they were made
  pc,       \* where each thread of each parent is
  why,      \* what the main thread of each parent is doing it for
  obj,      \* the window object a thread is opening or stopping
  after,    \* where a thread that stops a window goes then
  server,   \* supervisor._server of each parent, or 0
  window,   \* supervisor._window of each parent, or 0
  facts,    \* what the readiness publisher of each parent has recorded
  shown,    \* what was proved since the parent's server was spawned (history)
  clicks, faults, helpers

vars == <<lock, marker, port, srv, win, pc, why, obj, after, server, window,
          facts, shown, clicks, faults, helpers>>

shared  == <<lock, marker>>
bounds  == <<clicks, faults, helpers>>
session == <<server, facts, shown>>

Threads == {"main", "attention"}
Facts   == {"server", "window", "tray", "parent"}

WindowPlaces == {"look", "new", "spawn", "accept", "await", "stopping"}
MainPlaces   == {"start", "stale", "probe", "acquire", "serve", "health",
                 "opened", "loop", "tray", "down", "ending", "portwait", "unlock"}
EndPlaces    == {"left", "exited", "crashed"}
Places       == WindowPlaces \cup MainPlaces \cup EndPlaces \cup {"off", "waiting"}
Purposes     == {"launch", "open", "restart", "quit"}

ServerStates == {"starting", "serving", "stuck", "gone"}
WindowStates == {"none", "running", "ready", "stuck", "gone"}
Channels     == {"open", "up", "closed"}
HelperStates == {"none", "unseen", "late", "seen", "blind", "reused", "harmed", "gone"}

Server == [own : Parents, st : ServerStates, page : SUBSET Facts]
Window == [own : Parents, st : WindowStates, chan : Channels,
           asked : BOOLEAN, helper : HelperStates]

TypeOK ==
  /\ lock \in Parents \cup {None}
  /\ marker \in BOOLEAN
  /\ srv \in Seq(Server) /\ Len(srv) <= MaxServers
  /\ port \in 0..Len(srv)
  /\ win \in Seq(Window) /\ Len(win) <= MaxWindows
  /\ pc \in [Parents \X Threads -> Places]
  /\ why \in [Parents -> Purposes]
  /\ obj \in [Parents \X Threads -> 0..Len(win)]
  /\ after \in [Parents \X Threads -> {"new", "back", "down"}]
  /\ server \in [Parents -> 0..Len(srv)]
  /\ window \in [Parents -> 0..Len(win)]
  /\ facts \in [Parents -> SUBSET Facts]
  /\ shown \in [Parents -> SUBSET Facts]
  /\ clicks \in 0..MaxClicks /\ faults \in 0..MaxFaults /\ helpers \in 0..MaxHelpers

Init ==
  /\ lock = None /\ marker = FALSE
  /\ port = 0 /\ srv = <<>> /\ win = <<>>
  /\ pc = [p \in Parents \X Threads |-> IF p[2] = "main" THEN "start" ELSE "off"]
  /\ why = [l \in Parents |-> "launch"]
  /\ obj = [p \in Parents \X Threads |-> 0]
  /\ after = [p \in Parents \X Threads |-> "new"]
  /\ server = [l \in Parents |-> 0]
  /\ window = [l \in Parents |-> 0]
  /\ facts = [l \in Parents |-> {}]
  /\ shown = [l \in Parents |-> {}]
  /\ clicks = 0 /\ faults = 0 /\ helpers = 0

-----------------------------------------------------------------------------
(* Helpers. *)

Main(l) == pc[<<l, "main">>]

Go(l, t, place) == pc' = [pc EXCEPT ![<<l, t>>] = place]

\* psutil.pid_exists() of the launch that wrote the lock.
Alive(l) == Main(l) \notin EndPlaces

Answers   == port # 0 /\ srv[port].st = "serving"
Listening == port # 0 /\ srv[port].st \in {"serving", "stuck"}

\* The publisher posts to the port with the secret of its own server child: a
\* server that another launch started refuses it.
Published(l, F) ==
  IF Answers /\ port = server[l] THEN [srv EXCEPT ![port].page = F] ELSE srv

-----------------------------------------------------------------------------
(* launch(): the lock file, the stale lock, the port, the lock again. *)

\* A live holder makes this launch a second one: it leaves a request to be shown
\* and exits.  The number of a dead holder may have gone to another process that
\* looks like JARVIS.
ReadLock(l) ==
  /\ Main(l) = "start"
  /\ \/ /\ lock # None
        /\ marker' = TRUE
        /\ Go(l, "main", "left")
     \/ /\ lock # None /\ ~Alive(lock)
        /\ Go(l, "main", "stale")
        /\ UNCHANGED marker
     \/ /\ lock = None
        /\ Go(l, "main", "probe")
        /\ UNCHANGED marker
  /\ UNCHANGED <<lock, port, srv, win, why, obj, after, window, session, bounds>>

\* The lock is unlinked by name, whoever has written it since it was read.
ClearStale(l) ==
  /\ Main(l) = "stale"
  /\ lock' = None
  /\ Go(l, "main", "probe")
  /\ UNCHANGED <<marker, port, srv, win, why, obj, after, window, session, bounds>>

ProbePort(l) ==
  /\ Main(l) = "probe"
  /\ Go(l, "main", IF Listening THEN "left" ELSE "acquire")
  /\ UNCHANGED <<shared, port, srv, win, why, obj, after, window, session, bounds>>

\* A marker that a crashed run left is removed with it.
AcquireLock(l) ==
  /\ Main(l) = "acquire"
  /\ lock' = l
  /\ marker' = FALSE
  /\ Go(l, "main", "serve")
  /\ UNCHANGED <<port, srv, win, why, obj, after, window, session, bounds>>

-----------------------------------------------------------------------------
(* The server child. *)

SpawnServer(l) ==
  /\ Main(l) = "serve"
  /\ Len(srv) < MaxServers
  /\ srv' = Append(srv, [own |-> l, st |-> "starting", page |-> {}])
  /\ server' = [server EXCEPT ![l] = Len(srv) + 1]
  /\ shown' = [shown EXCEPT ![l] = {}]
  /\ Go(l, "main", "health")
  /\ UNCHANGED <<shared, port, win, why, obj, after, window, facts, bounds>>

\* wait_until_healthy() looks at its own child and then asks the port, whoever
\* answers there.  The publisher is new with every server child.
Healthy(l) ==
  /\ Main(l) = "health"
  /\ srv[server[l]].st # "gone"
  /\ Answers
  /\ facts' = [facts EXCEPT ![l] = {"server"}]
  /\ shown' = [shown EXCEPT ![l] = @ \cup {"server"}]
  /\ srv' = Published(l, {"server"})
  /\ Go(l, "main", "new")
  /\ UNCHANGED <<shared, port, win, why, obj, after, server, window, bounds>>

\* The child has exited, or the time for an answer is over.  A launch gives up
\* through quit(); a restart tells the user and goes back to the tray.
Unhealthy(l) ==
  /\ Main(l) = "health"
  /\ srv[server[l]].st = "gone" \/ ~Answers
  /\ facts' = [facts EXCEPT ![l] = {}]
  /\ srv' = Published(l, {})
  /\ IF why[l] = "launch"
       THEN why' = [why EXCEPT ![l] = "quit"] /\ Go(l, "main", "down")
       ELSE UNCHANGED why /\ Go(l, "main", "tray")
  /\ UNCHANGED <<shared, port, win, obj, after, server, shown, window, bounds>>

\* ServerProcess.stop(): nothing to stop, or terminate().
AskServer(l) ==
  /\ Main(l) = "down"
  /\ \/ /\ server[l] = 0
        /\ Go(l, "main", IF why[l] = "restart" THEN "serve" ELSE "unlock")
     \/ /\ server[l] # 0
        /\ Go(l, "main", "ending")
  /\ UNCHANGED <<shared, port, srv, win, why, obj, after, window, session, bounds>>

\* Mutated form of ServerStopped: terminate() is not escalated to kill().
ServerAsked(l) ==
  LET i == server[l]
  IN /\ Main(l) = "ending"
     /\ \/ srv' = [srv EXCEPT ![i].st = "gone"]
        \/ UNCHANGED srv
     /\ Go(l, "main", "portwait")
     /\ UNCHANGED <<shared, port, win, why, obj, after, window, session, bounds>>

\* It has gone by itself, or terminate() or kill() ends it, or it survives both
\* and is logged.
ServerStopped(l) ==
  LET i == server[l]
  IN /\ Main(l) = "ending"
     /\ \/ srv' = [srv EXCEPT ![i].st = "gone"] /\ UNCHANGED faults
        \/ /\ srv[i].st # "gone" /\ faults < MaxFaults
           /\ faults' = faults + 1
           /\ srv' = [srv EXCEPT ![i].st = "stuck"]
     /\ Go(l, "main", "portwait")
     /\ UNCHANGED <<shared, port, win, why, obj, after, window, session, clicks, helpers>>

\* wait_until_port_released(): the port is free, or the wait ran out.  A restart
\* that could not have the port back spawns nothing.
PortWaited(l) ==
  /\ Main(l) = "portwait"
  /\ server' = [server EXCEPT ![l] = 0]
  /\ \/ /\ port = 0
        /\ Go(l, "main", IF why[l] = "restart" THEN "serve" ELSE "unlock")
     \/ /\ port # 0
        /\ Go(l, "main", IF why[l] = "restart" THEN "tray" ELSE "unlock")
  /\ UNCHANGED <<shared, port, srv, win, why, obj, after, window, facts, shown, bounds>>

\* The child itself: uvicorn binds the port, or cannot and exits.
Bind(i) ==
  /\ srv[i].st = "starting"
  /\ IF port = 0
       THEN port' = i /\ srv' = [srv EXCEPT ![i].st = "serving"]
       ELSE srv' = [srv EXCEPT ![i].st = "gone"] /\ UNCHANGED port
  /\ UNCHANGED <<shared, win, pc, why, obj, after, window, session, bounds>>

ServerDies(i) ==
  /\ srv[i].st \in {"starting", "serving"}
  /\ faults < MaxFaults
  /\ faults' = faults + 1
  /\ srv' = [srv EXCEPT ![i].st = "gone"]
  /\ UNCHANGED <<shared, port, win, pc, why, obj, after, window, session, clicks, helpers>>

\* Process exit and the end of its socket are two moments.
PortReleased ==
  /\ port # 0
  /\ srv[port].st = "gone"
  /\ port' = 0
  /\ UNCHANGED <<shared, srv, win, pc, why, obj, after, window, session, bounds>>

-----------------------------------------------------------------------------
(* Opening the window: by the main thread, or by the attention thread. *)

\* The child runs and its channel takes a command: show() succeeds.
Shows(w) == win[w].st \in {"running", "ready"} /\ win[w].chan = "up"
Live     == {"running", "ready", "stuck"}

\* Where a thread goes when the window is open, or could not be opened: the rest of
\* launch(), the message loop or the attention loop.
Back(l, t) ==
  IF t = "attention" THEN "waiting" ELSE IF why[l] = "launch" THEN "opened" ELSE "tray"

Return(l, t) ==
  /\ Go(l, t, Back(l, t))
  /\ obj' = [obj EXCEPT ![<<l, t>>] = 0]

\* Mutated form of Captured: the descendants are looked for when the child has gone.
CapturedLater(h, seen) == h

\* stop() up to its first look at the child: its descendants are captured before
\* anything is asked to stop; a child that never was, or has gone, is left alone.
Captured(h, seen) ==
  IF h \in {"unseen", "late"} THEN seen ELSE h

BeginStop(l, t, w, next, seen) ==
  /\ obj' = [obj EXCEPT ![<<l, t>>] = w]
  /\ after' = [after EXCEPT ![<<l, t>>] = next]
  /\ Go(l, t, "stopping")
  /\ win' = [win EXCEPT ![w] = [win[w] EXCEPT
       !.asked = win[w].asked \/ Shows(w),
       !.helper = IF win[w].st \in Live THEN Captured(win[w].helper, seen)
                                       ELSE win[w].helper]]

\* A window that answers show() is kept; any other is stopped and replaced.
LookAtWindow(l, t) ==
  LET w == window[l]
  IN /\ pc[<<l, t>>] = "look"
     /\ \/ /\ w = 0
           /\ Go(l, t, "new")
           /\ UNCHANGED <<win, obj, after>>
        \/ /\ w # 0 /\ Shows(w)
           /\ Return(l, t)
           /\ UNCHANGED <<win, after>>
        \/ /\ w # 0 /\ ~Shows(w)
           /\ \E seen \in {"seen", "blind"} : BeginStop(l, t, w, "new", seen)
     /\ UNCHANGED <<shared, port, srv, why, window, session, bounds>>

\* The new object takes the place of the old one at once, and opens its control
\* channel before it has a child; or the channel or the child cannot be had.
NewWindow(l, t) ==
  /\ pc[<<l, t>>] = "new"
  /\ \/ /\ l \in Windowed /\ Len(win) < MaxWindows
        /\ win' = Append(win, [own |-> l, st |-> "none", chan |-> "open",
                               asked |-> FALSE, helper |-> "none"])
        /\ window' = [window EXCEPT ![l] = Len(win) + 1]
        /\ obj' = [obj EXCEPT ![<<l, t>>] = Len(win) + 1]
        /\ Go(l, t, "spawn")
     \/ /\ window' = [window EXCEPT ![l] = 0]
        /\ Return(l, t)
        /\ UNCHANGED win
  /\ UNCHANGED <<shared, port, srv, why, after, session, bounds>>

\* The channel is given to the child when it is spawned.  If the other thread has
\* closed it in between, there is nothing to give.
SpawnWindow(l, t) ==
  LET w == obj[<<l, t>>]
  IN /\ pc[<<l, t>>] = "spawn"
     /\ \/ /\ win[w].chan = "open"
           /\ win' = [win EXCEPT ![w].st = "running"]
           /\ Go(l, t, "accept")
           /\ UNCHANGED <<obj, window>>
        \/ /\ win[w].chan = "closed"
           /\ window' = [window EXCEPT ![l] = 0]
           /\ Return(l, t)
           /\ UNCHANGED win
     /\ UNCHANGED <<shared, port, srv, why, after, session, bounds>>

\* accept() ends when the child has authenticated or after a bounded time.  With
\* the channel closed by the other thread there is no listener left to ask: the
\* exception ends the call.
Accept(l, t) ==
  LET w == obj[<<l, t>>]
  IN /\ pc[<<l, t>>] = "accept"
     /\ \/ /\ win[w].chan = "open" /\ win[w].st = "running"
           /\ win' = [win EXCEPT ![w].chan = "up"]
           /\ Go(l, t, "await")
           /\ UNCHANGED <<obj, after>>
        \/ /\ win[w].chan = "open"
           /\ \E seen \in {"seen", "blind"} : BeginStop(l, t, w, "back", seen)
        \/ /\ win[w].chan = "closed"
           /\ Return(l, t)
           /\ UNCHANGED <<win, after>>
     /\ UNCHANGED <<shared, port, srv, why, window, session, bounds>>

AwaitReady(l, t) ==
  LET w == obj[<<l, t>>]
  IN /\ pc[<<l, t>>] = "await"
     /\ \/ /\ win[w].st = "ready" /\ win[w].chan = "up"
           /\ Return(l, t)
           /\ UNCHANGED <<win, after>>
        \/ /\ win[w].st # "ready" \/ win[w].chan = "closed"
           /\ \E seen \in {"seen", "blind"} : BeginStop(l, t, w, "back", seen)
        \/ /\ win[w].chan = "closed"
           /\ Return(l, t)
           /\ UNCHANGED <<win, after>>
     /\ UNCHANGED <<shared, port, srv, why, window, session, bounds>>

-----------------------------------------------------------------------------
(* Stopping a window: the rest of WindowProcess.stop(). *)

\* While it waits, stop() captures the descendants before each look at the child.
CaptureAgain(l, t) ==
  LET w == obj[<<l, t>>]
  IN /\ pc[<<l, t>>] = "stopping"
     /\ win[w].st \in Live /\ win[w].helper \in {"unseen", "late"}
     /\ \E seen \in {"seen", "blind"} : win' = [win EXCEPT ![w].helper = seen]
     /\ UNCHANGED <<shared, port, srv, pc, why, obj, after, window, session, bounds>>

\* terminate_identities(): a captured process is ended if its creation time is
\* still the captured one; a number that another process has now, and a process
\* whose creation time could not be read, are left alone.
Cleaned(h) == IF h = "seen" THEN "gone" ELSE h

\* The child has gone, or terminate() or kill() ends it, or it survives both.
\* Then the leftovers are cleaned up and the channel is closed.
StopDone(l, t) ==
  LET w    == obj[<<l, t>>]
      h    == IF win[w].st \in Live THEN Captured(win[w].helper, "seen") ELSE win[w].helper
      shut == [win[w] EXCEPT !.chan = "closed", !.helper = Cleaned(h)]
  IN /\ pc[<<l, t>>] = "stopping"
     /\ \/ /\ win' = [win EXCEPT ![w] = [shut EXCEPT
                       !.st = IF win[w].st = "none" THEN "none" ELSE "gone"]]
           /\ UNCHANGED faults
        \/ /\ win[w].st \in {"running", "ready"} /\ faults < MaxFaults
           /\ faults' = faults + 1
           /\ win' = [win EXCEPT ![w] = [shut EXCEPT !.st = "stuck"]]
        \/ /\ win[w].st = "stuck"
           /\ win' = [win EXCEPT ![w] = shut]
           /\ UNCHANGED faults
     /\ window' = [window EXCEPT ![l] = 0]
     /\ Go(l, t, IF after[<<l, t>>] = "back" THEN Back(l, t) ELSE after[<<l, t>>])
     /\ obj' = [obj EXCEPT ![<<l, t>>] = 0]
     /\ after' = [after EXCEPT ![<<l, t>>] = "new"]
     /\ UNCHANGED <<shared, port, srv, why, session, clicks, helpers>>

-----------------------------------------------------------------------------
(* The window child. *)

\* The window object exists and its command pump has started.
WindowReady(w) ==
  /\ win[w].st = "running" /\ win[w].chan = "up"
  /\ win' = [win EXCEPT ![w].st = "ready"]
  /\ UNCHANGED <<shared, port, srv, pc, why, obj, after, window, session, bounds>>

\* It was told to quit, and close-to-tray does not veto that.
WindowQuits(w) ==
  /\ win[w].st = "ready" /\ win[w].asked
  /\ win' = [win EXCEPT ![w].st = "gone"]
  /\ UNCHANGED <<shared, port, srv, pc, why, obj, after, window, session, bounds>>

\* A runtime it needs is missing, it crashes, or the user closes it for good.
WindowDies(w) ==
  /\ win[w].st \in {"running", "ready"}
  /\ faults < MaxFaults
  /\ faults' = faults + 1
  /\ win' = [win EXCEPT ![w].st = "gone"]
  /\ UNCHANGED <<shared, port, srv, pc, why, obj, after, window, session, clicks, helpers>>

\* WebView2 starts its helper processes lazily, also while its host is being
\* stopped; one that ends may leave its number to a stranger.
BeingStopped(w) ==
  \E p \in Parents \X Threads : pc[p] = "stopping" /\ obj[p] = w

HelperBorn(w) ==
  /\ win[w].st \in {"running", "ready"} /\ win[w].helper = "none"
  /\ helpers < MaxHelpers
  /\ helpers' = helpers + 1
  /\ win' = [win EXCEPT ![w].helper = IF BeingStopped(w) THEN "late" ELSE "unseen"]
  /\ UNCHANGED <<shared, port, srv, pc, why, obj, after, window, session, clicks, faults>>

\* Only the end of a captured one can matter.
HelperEnds(w) ==
  /\ win[w].helper = "seen"
  /\ \E h \in {"gone", "reused"} : win' = [win EXCEPT ![w].helper = h]
  /\ UNCHANGED <<shared, port, srv, pc, why, obj, after, window, session, bounds>>

-----------------------------------------------------------------------------
(* The rest of launch(), and the tray's message loop. *)

\* The window is asked for a pong, and what is known is published; then the tray
\* loop and the attention thread start.
FinishLaunch(l) ==
  LET w     == window[l]
      pongs == IF w # 0 /\ win[w].st = "ready" /\ win[w].chan = "up"
                 THEN {{"window"}} ELSE {{}}
  IN /\ Main(l) = "opened"
     /\ \E pong \in pongs :
          /\ facts' = [facts EXCEPT ![l] = (@ \ {"window"}) \cup pong \cup {"parent"}]
          /\ shown' = [shown EXCEPT ![l] = @ \cup pong \cup {"parent"}]
          /\ srv' = Published(l, (facts[l] \ {"window"}) \cup pong \cup {"parent"})
     /\ pc' = [pc EXCEPT ![<<l, "main">>] = "loop", ![<<l, "attention">>] = "waiting"]
     /\ why' = [why EXCEPT ![l] = "open"]
     /\ UNCHANGED <<shared, port, win, obj, after, server, window, bounds>>

\* The first message of the loop is its own: the tray is listening.
TrayReady(l) ==
  /\ Main(l) = "loop"
  /\ facts' = [facts EXCEPT ![l] = @ \cup {"tray"}]
  /\ shown' = [shown EXCEPT ![l] = @ \cup {"tray"}]
  /\ srv' = Published(l, facts[l] \cup {"tray"})
  /\ Go(l, "main", "tray")
  /\ UNCHANGED <<shared, port, win, why, obj, after, server, window, bounds>>

ClickOpen(l) ==
  /\ Main(l) = "tray" /\ clicks < MaxClicks
  /\ clicks' = clicks + 1
  /\ why' = [why EXCEPT ![l] = "open"]
  /\ Go(l, "main", "look")
  /\ UNCHANGED <<shared, port, srv, win, obj, after, window, session, faults, helpers>>

\* Restart and Quit begin alike: the window first, if there is one.
WindowFirst(l, purpose) ==
  /\ why' = [why EXCEPT ![l] = purpose]
  /\ IF window[l] = 0
       THEN Go(l, "main", "down") /\ UNCHANGED <<win, obj, after>>
       ELSE \E seen \in {"seen", "blind"} : BeginStop(l, "main", window[l], "down", seen)
  /\ UNCHANGED <<shared, port, srv, window, session, faults, helpers>>

ClickRestart(l) ==
  /\ Main(l) = "tray" /\ clicks < MaxClicks
  /\ clicks' = clicks + 1
  /\ WindowFirst(l, "restart")

\* Quit in the menu, a close request or the end of the Windows session.
Quit(l) ==
  /\ Main(l) = "tray"
  /\ WindowFirst(l, "quit")
  /\ UNCHANGED clicks

\* The process ends, and its daemon threads with it.
Ended(l, place) ==
  /\ pc' = [pc EXCEPT ![<<l, "main">>] = place, ![<<l, "attention">>] = "off"]
  /\ obj' = [p \in DOMAIN obj |-> IF p[1] = l THEN 0 ELSE obj[p]]
  /\ after' = [p \in DOMAIN after |-> IF p[1] = l THEN "new" ELSE after[p]]

\* The lock goes last, and is unlinked by name.
Exit(l) ==
  /\ Main(l) = "unlock"
  /\ lock' = None
  /\ Ended(l, "exited")
  /\ UNCHANGED <<marker, port, srv, win, why, window, session, bounds>>

ParentDies(l) ==
  /\ Main(l) \notin EndPlaces \cup {"start"}
  /\ faults < MaxFaults
  /\ faults' = faults + 1
  /\ Ended(l, "crashed")
  /\ UNCHANGED <<shared, port, srv, win, why, window, session, clicks, helpers>>

\* The attention loop takes the marker; one older than MAX_AGE_SECONDS is only
\* removed.  Quit stops the loop, not an opening that is under way.
Consume(l) ==
  /\ pc[<<l, "attention">>] = "waiting" /\ why[l] # "quit"
  /\ marker
  /\ marker' = FALSE
  /\ \E fresh \in BOOLEAN : Go(l, "attention", IF fresh THEN "look" ELSE "waiting")
  /\ UNCHANGED <<lock, port, srv, win, why, obj, after, window, session, bounds>>

-----------------------------------------------------------------------------
(* The specification. *)

OpensWindow(l, t) ==
  \/ LookAtWindow(l, t) \/ NewWindow(l, t) \/ SpawnWindow(l, t)
  \/ Accept(l, t) \/ AwaitReady(l, t)

StopsWindow(l, t) == CaptureAgain(l, t) \/ StopDone(l, t)

ParentStep(l) ==
  \/ ReadLock(l) \/ ClearStale(l) \/ ProbePort(l) \/ AcquireLock(l)
  \/ SpawnServer(l) \/ Healthy(l) \/ Unhealthy(l)
  \/ AskServer(l) \/ ServerStopped(l) \/ PortWaited(l)
  \/ \E t \in Threads : OpensWindow(l, t) \/ StopsWindow(l, t)
  \/ FinishLaunch(l) \/ TrayReady(l)
  \/ ClickOpen(l) \/ ClickRestart(l) \/ Quit(l)
  \/ Exit(l) \/ Consume(l)

ServerStep(i) == Bind(i) \/ ServerDies(i)

WindowStep(w) ==
  WindowReady(w) \/ WindowQuits(w) \/ WindowDies(w) \/ HelperBorn(w) \/ HelperEnds(w)

Next ==
  \/ \E l \in Parents : ParentStep(l) \/ ParentDies(l)
  \/ \E i \in 1..Len(srv) : ServerStep(i)
  \/ \E w \in 1..Len(win) : WindowStep(w)
  \/ PortReleased

Spec == Init /\ [][Next]_vars

-----------------------------------------------------------------------------
(* Properties. *)

\* What a launch still answers for: until it has gone, the server child that its
\* supervisor holds.
Holds(l, i) == server[l] = i /\ Main(l) \notin {"left", "exited"}

\* A server child that runs belongs to the launch that spawned it, and that launch
\* still holds it or was killed: no start, failed start, restart or quit lets go
\* of a child before it has been stopped (gui.py: start_server, restart, quit).
NoOrphanServer ==
  \A i \in 1..Len(srv) :
    srv[i].st \in {"starting", "serving"} =>
      Holds(srv[i].own, i) \/ Main(srv[i].own) = "crashed"

\* GET /desktop/ready says ready only for what was proved since that very server
\* child was spawned: nothing of a session before the restart is believed, and no
\* other launch can vouch for it (desktop_ready.py, gui._new_ready_publisher).
ReadyMeansProved ==
  Answers =>
    LET l == srv[port].own
    IN srv[port].page = Facts /\ server[l] = port => shown[l] = Facts

\* A window child that was alive and took the quit command leaves no helper process
\* behind that existed when it was asked to stop and could be identified; and no
\* stranger that got the number of one is harmed (window_process.stop,
\* process_tree.terminate_identities).
CleanStop ==
  \A w \in 1..Len(win) :
    /\ win[w].asked /\ win[w].chan = "closed" /\ ~BeingStopped(w)
         => win[w].helper \notin {"unseen", "seen"}
    /\ win[w].helper # "harmed"

\* The steps of a shutdown, each of which leads nearer to the end of the process.
ShutsDown(l) ==
  StopDone(l, "main") \/ AskServer(l) \/ ServerStopped(l) \/ PortWaited(l) \/ Exit(l)

\* Once Quit was chosen the main thread never has to wait for anybody: whatever
\* survives terminate() and kill(), whoever holds the port and whatever the
\* attention thread has done to the window, its next step can be taken (gui.quit:
\* "Every step is bounded and none can block the next").
QuitNeverWaits ==
  \A l \in Parents :
    why[l] = "quit" /\ Main(l) \notin EndPlaces => ENABLED ShutsDown(l)

\* Quit and Restart get through, and what they ask to stop stops with all it started.
StopsAreClean == CleanStop /\ QuitNeverWaits

\* No launch leaves its server behind, and readiness is only said of one it proved.
ServerIsAccountedFor == NoOrphanServer /\ ReadyMeansProved

\* After Quit no window of this launch is left running: "the quitting flag is set
\* first so no recovery path can resurrect a child while shutdown is in progress"
\* (gui.py, quit).
QuitLeavesNoWindow ==
  \A l \in Parents : Main(l) = "exited" =>
    \A w \in 1..Len(win) : win[w].own = l => win[w].st \notin {"running", "ready"}

=============================================================================

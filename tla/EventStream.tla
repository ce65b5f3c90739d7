----------------------------- MODULE EventStream -----------------------------
(***************************************************************************)
(* How one open dashboard page learns what JARVIS is doing: the runtime    *)
(* state machine (app/core/runtime_state.py), the event bus it publishes   *)
(* to (events.py), the WebSocket handler that polls the bus (api/ws.py),   *)
(* the GET /runtime/state snapshot (api/routes.py) and the page's rule for *)
(* which observation wins (ui/static/app.js).                              *)
(*                                                                         *)
(* A publisher is a request thread that changes the state or reports       *)
(* something else, one for each event: a thread that publishes twice does  *)
(* no more than two of which the second waits for the first.  It holds no  *)
(* lock from one of its steps to the next.                                 *)
(***************************************************************************)
EXTENDS Integers, Sequences, SequencesExt, RuntimeState

CONSTANTS
    Targets,        \* the runtime states that request threads ask for
    NoState,        \* the payload of an event that is not about the state
    MaxLog,         \* events the bus retains (500 in the code)
    MaxEvents,      \* bound: events begun
    MaxLosses,      \* bound: connections lost, for whatever reason
    MaxRestarts     \* bound: those lost because the server was replaced

VARIABLES
    rt,         \* the runtime state
    log,        \* the bus: retained events, in the order they were appended
    nextSeq,    \* itertools.count
    pub,        \* what each publisher has yet to publish
    conn,       \* the server's end of the page's connection
    wire,       \* messages on their way to the page
    gets,       \* GET /runtime/state requests: one at load, one per open
    page,
    raced,      \* the events that another one overtook (history)
    spent       \* what has been used of the bounds

vars == <<rt, log, nextSeq, pub, conn, wire, gets, page, raced, spent>>

Publishers == 1..MaxEvents
Gets == 0..MaxLosses + 1

Shown == RuntimeStates \cup {"connecting", "disconnected"}
Message == [seq : Nat, to : RuntimeStates \cup {NoState}]

(* Never a RuntimeState: the message by which a page learns of its "open". *)
Opened == [seq |-> 0, to |-> NoState]

IdlePublisher == [at |-> "idle", seq |-> 0, to |-> NoState]
NoConn == [at |-> "none", since |-> 0, start |-> 0, last |-> 0]
IdleGet == [at |-> "idle", generation |-> 0, seq |-> 0, to |-> NoState]

(* EventBus.since and latest_seq; the deque drops its oldest entry.        *)
Since(n) == SelectSeq(log, LAMBDA e : e.seq > n)
LatestSeq == IF log = <<>> THEN 0 ELSE Last(log).seq
Retain(s) == IF Len(s) > MaxLog THEN Tail(s) ELSE s

(* late: the numbers appended behind a higher one.  swapped: whether an     *)
(* event drew its number before one that was begun earlier.                *)
NoRaces == [late |-> {}, swapped |-> FALSE]

(* lifespan(): the one transition of a started process.                    *)
Boot == <<[seq |-> 1, to |-> "standby"]>>

Init ==
    /\ rt = "standby"
    /\ log = Boot
    /\ nextSeq = 2
    /\ pub = [p \in Publishers |-> IdlePublisher]
    /\ conn = NoConn
    /\ wire = <<>>
    /\ gets = [g \in Gets |-> IF g = 0 THEN [IdleGet EXCEPT !.at = "sent"]
                              ELSE IdleGet]
    /\ page = [socket |-> "connecting", generation |-> 0, applied |-> -1,
               shown |-> "connecting", lastSeq |-> 0]
    /\ raced = NoRaces
    /\ spent = [events |-> 0, losses |-> 0, restarts |-> 0]

-----------------------------------------------------------------------------
(* Publishers *)

Begin(p, to) ==
    /\ p = spent.events + 1
    /\ spent' = [spent EXCEPT !.events = p]
    /\ pub' = [pub EXCEPT ![p] = [at |-> "draw", seq |-> 0, to |-> to]]
    /\ UNCHANGED <<log, nextSeq, conn, wire, gets, page, raced>>

(* RuntimeStateMachine.transition: the state changes under the machine's   *)
(* lock, the event about it is published after the lock is released.       *)
Transition(p) ==
    \E to \in Targets :
        /\ Legal(rt, to)
        /\ rt' = to
        /\ Begin(p, to)

(* Any other event: an action's progress, a result, an approval.           *)
OtherEvent(p) ==
    /\ Begin(p, NoState)
    /\ UNCHANGED rt

(* EventBus.publish draws the number first ...                             *)
DrawSeq(p) ==
    /\ pub[p].at = "draw"
    /\ pub' = [pub EXCEPT ![p].at = "append", ![p].seq = nextSeq]
    /\ nextSeq' = nextSeq + 1
    /\ raced' = [raced EXCEPT !.swapped = @ \/ \E q \in 1..p - 1 : pub[q].at = "draw"]
    /\ UNCHANGED <<rt, log, conn, wire, gets, page, spent>>

(* ... and takes the bus's lock only to append.                            *)
AppendEvent(p) ==
    /\ pub[p].at = "append"
    /\ log' = Retain(Append(log, [seq |-> pub[p].seq, to |-> pub[p].to]))
    /\ pub' = [pub EXCEPT ![p] = IdlePublisher]
    /\ raced' = [raced EXCEPT !.late = @ \cup
                   {pub[q].seq : q \in {o \in Publishers :
                      pub[o].at = "append" /\ pub[o].seq < pub[p].seq}}]
    /\ UNCHANGED <<rt, nextSeq, conn, wire, gets, page, spent>>

-----------------------------------------------------------------------------
(* stream_events: the server's end of one connection *)

Serve(at, next) ==
    /\ conn.at = at
    /\ conn' = [conn EXCEPT !.at = next]

(* The handshake passes and the page is told so.                           *)
Accept ==
    /\ page.socket = "connecting"
    /\ Serve("none", "accepted")
    /\ wire' = <<Opened>>
    /\ UNCHANGED <<rt, log, nextSeq, pub, gets, page, raced, spent>>

(* The snapshot, numbered 0 so that it is never taken for a bookmark.      *)
Greet ==
    /\ Serve("accepted", "greeted")
    /\ wire' = Append(wire, [seq |-> 0, to |-> rt])
    /\ UNCHANGED <<rt, log, nextSeq, pub, gets, page, raced, spent>>

(* With ?since= the stream resumes behind it, without from now on; that is *)
(* read after the snapshot has been sent.                                  *)
Bookmark ==
    /\ conn.at = "greeted"
    /\ LET start == IF conn.since # 0 THEN conn.since ELSE LatestSeq
       IN conn' = [conn EXCEPT !.at = "live", !.start = start, !.last = start]
    /\ UNCHANGED <<rt, log, nextSeq, pub, wire, gets, page, raced, spent>>

(* Mutated form of Poll: the bookmark stays where it was. *)
PollAgain ==
    /\ conn.at = "live"
    /\ Since(conn.last) # <<>>
    /\ Len(wire) < MaxLog
    /\ wire' = wire \o Since(conn.last)
    /\ UNCHANGED <<rt, log, nextSeq, pub, conn, gets, page, raced, spent>>

(* One turn of the poll loop: everything after the bookmark is sent, and   *)
(* the bookmark becomes the number of the last event sent.                 *)
Poll ==
    /\ conn.at = "live"
    /\ Since(conn.last) # <<>>
    /\ wire' = wire \o Since(conn.last)
    /\ conn' = [conn EXCEPT !.last = Last(Since(conn.last)).seq]
    /\ UNCHANGED <<rt, log, nextSeq, pub, gets, page, raced, spent>>

-----------------------------------------------------------------------------
(* GET /runtime/state *)

(* runtime_state(): latest_seq() first ... *)
GetNumber(g) ==
    /\ gets[g].at = "sent"
    /\ gets' = [gets EXCEPT ![g].at = "numbered", ![g].seq = LatestSeq]
    /\ UNCHANGED <<rt, log, nextSeq, pub, conn, wire, page, raced, spent>>

(* ... and then the state. *)
GetState(g) ==
    /\ gets[g].at = "numbered"
    /\ gets' = [gets EXCEPT ![g].at = "answered", ![g].to = rt]
    /\ UNCHANGED <<rt, log, nextSeq, pub, conn, wire, page, raced, spent>>

-----------------------------------------------------------------------------
(* The page *)

(* applyRuntimeObservation: nothing issued before a drop, nothing older    *)
(* than what is shown.                                                     *)
Observe(pg, to, seq, generation) ==
    IF generation # pg.generation \/ seq <= pg.applied THEN pg
    ELSE [pg EXCEPT !.applied = seq, !.shown = to]

(* The answer is applied, or the request failed and nothing is.            *)
GetReturns(g) ==
    /\ gets[g].at = "answered"
    /\ gets' = [gets EXCEPT ![g] = IdleGet]
    /\ page' = Observe(page, gets[g].to, gets[g].seq, gets[g].generation)
    /\ UNCHANGED <<rt, log, nextSeq, pub, conn, wire, raced, spent>>
GetFails(g) ==
    /\ gets[g].at = "answered"
    /\ gets' = [gets EXCEPT ![g] = IdleGet]
    /\ UNCHANGED <<rt, log, nextSeq, pub, conn, wire, page, raced, spent>>

(* The socket's "open": the current state is read once more.               *)
Open ==
    /\ wire # <<>> /\ Head(wire) = Opened /\ page.socket = "connecting"
    /\ wire' = Tail(wire)
    /\ page' = [page EXCEPT !.socket = "open"]
    /\ LET g == spent.losses + 1
       IN gets' = [gets EXCEPT ![g] = [IdleGet EXCEPT !.at = "sent",
                                       !.generation = page.generation]]
    /\ UNCHANGED <<rt, log, nextSeq, pub, conn, raced, spent>>

(* handleStreamEvent: lastSeq only ever grows.                             *)
HandleEvent ==
    /\ wire # <<>> /\ page.socket = "open"
    /\ LET e == Head(wire)
           noted == IF e.seq > page.lastSeq THEN [page EXCEPT !.lastSeq = e.seq]
                    ELSE page
       IN page' = IF e.to = NoState THEN noted
                  ELSE Observe(noted, e.to, e.seq, page.generation)
    /\ wire' = Tail(wire)
    /\ UNCHANGED <<rt, log, nextSeq, pub, conn, gets, raced, spent>>

(* Mutated form of Lost: the number on screen is kept across the drop. *)
LostKeepingNumber ==
    /\ conn' = NoConn
    /\ wire' = <<>>
    /\ page' = [page EXCEPT !.socket = "closed", !.generation = @ + 1,
                            !.shown = "disconnected"]

(* runtimeConnectionLost: the page knows nothing any more, and answers to  *)
(* questions asked before are void.                                        *)
Lost ==
    /\ conn' = NoConn
    /\ wire' = <<>>
    /\ page' = [page EXCEPT !.socket = "closed", !.generation = @ + 1,
                            !.applied = -1, !.shown = "disconnected"]

(* A handshake fails or is refused, or an open connection breaks.          *)
Drop ==
    /\ page.socket # "closed"
    /\ spent.losses < MaxLosses
    /\ spent' = [spent EXCEPT !.losses = @ + 1]
    /\ Lost
    /\ UNCHANGED <<rt, log, nextSeq, pub, gets, raced>>

(* connectEventStream, after its delay: ?since= is the page's lastSeq.     *)
Reconnect ==
    /\ page.socket = "closed"
    /\ page' = [page EXCEPT !.socket = "connecting"]
    /\ conn' = [NoConn EXCEPT !.since = page.lastSeq]
    /\ UNCHANGED <<rt, log, nextSeq, pub, wire, gets, raced, spent>>

(* The server process is replaced: numbering starts again, the connection  *)
(* is gone and so is every request not yet answered.                       *)
Restart ==
    /\ page.socket # "closed"
    /\ spent.losses < MaxLosses /\ spent.restarts < MaxRestarts
    /\ spent' = [spent EXCEPT !.losses = @ + 1, !.restarts = @ + 1]
    /\ rt' = "standby"
    /\ log' = Boot
    /\ nextSeq' = 2
    /\ pub' = [p \in Publishers |-> IdlePublisher]
    /\ gets' = [g \in Gets |-> IF gets[g].at = "answered" THEN gets[g] ELSE IdleGet]
    /\ raced' = NoRaces
    /\ Lost

-----------------------------------------------------------------------------
Server ==
    \/ \E p \in Publishers : \/ Transition(p) \/ OtherEvent(p)
                             \/ DrawSeq(p) \/ AppendEvent(p)
    \/ Accept \/ Greet \/ Bookmark \/ Poll
    \/ \E g \in Gets : GetNumber(g) \/ GetState(g)
    \/ Restart

Browser ==
    \/ Open \/ HandleEvent \/ Drop \/ Reconnect
    \/ \E g \in Gets : GetReturns(g) \/ GetFails(g)

Next == Server \/ Browser

Spec == Init /\ [][Next]_vars

(* The connection's own coroutine, and the page on the other end of it.    *)
Connection == Accept \/ Greet \/ Bookmark \/ Poll
PageTurns == Reconnect \/ Open \/ HandleEvent

(* The page's reconnect timer fires, the server's event loop turns, and    *)
(* what is sent over loopback arrives unless the connection breaks first.  *)
Fairness == WF_vars(Connection) /\ WF_vars(PageTurns)

FairSpec == Spec /\ Fairness

-----------------------------------------------------------------------------
(* Properties *)

(* Every variable holds one of the values the code gives it.               *)
TypeOK ==
    /\ rt \in RuntimeStates
    /\ Range(log) \subseteq Message
    /\ nextSeq \in Nat
    /\ \A p \in Publishers : /\ pub[p].at \in {"idle", "draw", "append"}
                             /\ pub[p].to \in RuntimeStates \cup {NoState}
    /\ conn.at \in {"none", "accepted", "greeted", "live"}
    /\ Range(wire) \subseteq Message
    /\ \A g \in Gets : gets[g].at \in {"idle", "sent", "numbered", "answered"}
    /\ page.socket \in {"connecting", "open", "closed"}
    /\ page.shown \in Shown
    /\ raced.late \subseteq Nat /\ raced.swapped \in BOOLEAN
    /\ spent.events \in 0..MaxEvents
    /\ spent.losses \in 0..MaxLosses
    /\ spent.restarts \in 0..MaxRestarts

(* Nothing is under way between the state machine and the page.            *)
Quiet ==
    /\ \A p \in Publishers : pub[p].at = "idle"
    /\ conn.at = "live" /\ Since(conn.last) = <<>> /\ wire = <<>>
    /\ page.socket = "open"
    /\ \A g \in Gets : gets[g].at = "idle"

Current == Quiet /\ conn.since # 0 => page.shown = rt

(* A page that resumed its stream shows, once all is delivered, the state  *)
(* JARVIS is in - however snapshots, replayed events and drops interleaved *)
(* (runtime_state, applyRuntimeObservation, connectEventStream) - unless   *)
(* two request threads published in another order than they changed it.    *)
ResumedPageIsCurrent ==
    raced = NoRaces /\ spent.restarts = 0 => Current

(* "Recovering the connection also recovers the truth" (app.js, the        *)
(* comment in connectEventStream): also of a server that was replaced.     *)
RecoveredPageIsCurrent == raced = NoRaces => Current

(* "The sequence is the server's answer" to the order of what the page     *)
(* observes (app.js, the comment on applyRuntimeObservation): the state    *)
(* under the highest number is the one JARVIS is in.                       *)
SequenceOrdersStates == raced.late = {} /\ spent.restarts = 0 => Current

OnWire == SelectSeq(wire, LAMBDA e : e.seq # 0)

(* Events are on their way to the page in order, and once each.            *)
InOrder ==
    conn.at = "live" =>
        \A i \in 1..Len(OnWire) :
            OnWire[i].seq > IF i = 1 THEN page.lastSeq ELSE OnWire[i - 1].seq

(* None of these that the bus still holds is passed over.                  *)
Sent(events) ==
    conn.at = "live" =>
        \A e \in events :
            conn.start < e.seq /\ e.seq <= conn.last
                => e.seq <= page.lastSeq \/ e \in Range(OnWire)

(* "What have I missed since seq N" is answered: whatever the threads that *)
(* publish do, only an event that is appended behind a higher number is    *)
(* passed over; and if there is none, events reach the page in order, once *)
(* each (EventBus.publish and since, the bookmark of stream_events).       *)
StreamIsExact ==
    /\ Sent({e \in Range(log) : e.seq \notin raced.late})
    /\ raced.late = {} => InOrder

(* "Append-only event log with monotonic sequence numbers so a client can  *)
(* ask what have I missed" (EventBus, docstring): the same of every event. *)
NothingIsMissed == Sent(Range(log)) /\ InOrder

(* While the stream is down the page claims to know nothing: no answer to  *)
(* a question asked before the drop repaints it (runtimeConnectionLost).   *)
DisconnectedSaysSo ==
    page.socket = "closed" => page.shown = "disconnected"

(* The state line is current or says that it is not, and what is on its    *)
(* way to the page is what it missed: each event once and in order.        *)
StreamIsHonest == ResumedPageIsCurrent /\ DisconnectedSaysSo /\ StreamIsExact

(* A page that lost its stream shows a state again, even one that has not  *)
(* changed (the applied number is forgotten with the connection).          *)
DropsHeal == []<>(page.shown # "disconnected")
=============================================================================

-------------------------------- MODULE Chat --------------------------------
(***************************************************************************)
(* Chat (app/api/chat.py, app/core/conversation.py, generation.py and      *)
(* brain.py): streamed answers that can be stopped, answers in one piece   *)
(* from POST /command, the history both are given and both add to, and the *)
(* page that shows them.  Each request runs in a thread of its own; Stop,  *)
(* Clear chat and privacy mode come from any page at any moment.           *)
(***************************************************************************)
EXTENDS Integers, Sequences, RuntimeState

CONSTANTS
  Turns,       \* requests: each is one message typed by the user
  MaxDeltas,   \* bound: pieces a provider makes of one answer
  MaxPresses   \* bound: Stop, Clear chat, privacy mode on or off

ASSUME ChatAssumption ==
  /\ MaxDeltas \in Nat
  /\ MaxPresses \in Nat

VARIABLES
  pc,         \* where the thread of each request is
  kind,       \* "stream" (POST /chat/stream) or "command" (POST /command)
  registry,   \* GenerationRegistry._tokens: the generations in flight
  cancelled,  \* the generations whose token is set
  pieces,     \* deltas collected for the answer of each request
  shown,      \* deltas its client was sent
  outcome,    \* how its generation ended
  reported,   \* what the request said of its persistence
  rows,       \* the conversations table: who wrote the row, and as whom
  context,    \* the requests whose rows were sent to the provider
  privacy,    \* privacy_mode.active
  state,      \* the runtime state
  presses,
  asked,      \* generations a Stop was confirmed for (history)
  late,       \* deltas sent after that confirmation (history)
  wiped       \* requests that a Clear chat came in the middle of (history)

vars == <<pc, kind, registry, cancelled, pieces, shown, outcome, reported, rows,
          context, privacy, state, presses, asked, late, wiped>>

answer  == <<pieces, shown, late, outcome>>
stops   == <<registry, cancelled, asked>>
record  == <<rows, wiped>>
rest    == <<kind, privacy, presses>>

Places   == {"idle", "start", "history", "reading", "call", "chunk", "yield",
             "finally", "record", "question", "answer", "done", "gone"}
Outcomes == {"none", "complete", "stopped", "failed", "left"}
Row      == [role : {"user", "assistant"}, of : Turns, size : 0..MaxDeltas]

TypeOK ==
  /\ pc \in [Turns -> Places]
  /\ kind \in [Turns -> {"stream", "command"}]
  /\ registry \subseteq Turns /\ cancelled \subseteq Turns /\ asked \subseteq Turns
  /\ pieces \in [Turns -> 0..MaxDeltas] /\ shown \in [Turns -> 0..MaxDeltas]
  /\ late \in [Turns -> 0..MaxDeltas]
  /\ outcome \in [Turns -> Outcomes]
  /\ reported \in [Turns -> {"nothing", "persisted", "unpersisted"}]
  /\ rows \in Seq(Row)
  /\ context \in [Turns -> SUBSET Turns]
  /\ privacy \in BOOLEAN /\ state \in RuntimeStates /\ presses \in 0..MaxPresses
  /\ wiped \subseteq Turns

Init ==
  /\ pc = [r \in Turns |-> "idle"]
  /\ kind = [r \in Turns |-> "stream"]
  /\ registry = {} /\ cancelled = {} /\ asked = {}
  /\ pieces = [r \in Turns |-> 0] /\ shown = [r \in Turns |-> 0]
  /\ late = [r \in Turns |-> 0]
  /\ outcome = [r \in Turns |-> "none"]
  /\ reported = [r \in Turns |-> "nothing"]
  /\ rows = <<>> /\ context = [r \in Turns |-> {}]
  /\ privacy = FALSE /\ state = "standby" /\ presses = 0
  /\ wiped = {}

Go(r, place) == pc' = [pc EXCEPT ![r] = place]

-----------------------------------------------------------------------------
(* Asking. *)

\* _stream_events(): a message that matches a route is executed whole, and one that
\* no provider can answer gets the reason; neither is recorded.
AskWhole(r) ==
  /\ pc[r] = "idle"
  /\ Go(r, "done")
  /\ reported' = [reported EXCEPT ![r] = "unpersisted"]
  /\ UNCHANGED <<answer, stops, record, rest, context, state>>

\* generations.start(): the token is registered, then the client is told its id.
AskStream(r) ==
  /\ pc[r] = "idle"
  /\ registry' = registry \cup {r}
  /\ Go(r, "start")
  /\ UNCHANGED <<answer, cancelled, asked, record, rest, context, reported, state>>

\* The client leaves while it is told: nothing after this yield is run.
LeaveAtStart(r) ==
  /\ pc[r] = "start"
  /\ Go(r, "gone")
  /\ UNCHANGED <<answer, stops, record, rest, context, reported, state>>

Think(r) ==
  /\ pc[r] = "start"
  /\ state' = TryTransition(state, "thinking")
  /\ Go(r, "history")
  /\ UNCHANGED <<answer, stops, record, rest, context, reported>>

\* _brain_response() of POST /command: it cannot be stopped.  Without a provider the
\* reason is the answer, and it is recorded like any other.
AskCommand(r) ==
  /\ pc[r] = "idle"
  /\ kind' = [kind EXCEPT ![r] = "command"]
  /\ state' = TryTransition(state, "thinking")
  /\ \/ Go(r, "history") /\ UNCHANGED outcome
     \/ Go(r, "finally") /\ outcome' = [outcome EXCEPT ![r] = "failed"]
  /\ UNCHANGED <<pieces, shown, late, stops, record, privacy, presses, context, reported>>

-----------------------------------------------------------------------------
(* The history a request carries. *)

\* history_enabled()
HistoryEnabled == ~privacy

\* recent_messages(): nothing while privacy mode is on, nothing if the table cannot
\* be read; the mode is looked at first, the table afterwards.
CheckHistory(r) ==
  /\ pc[r] = "history"
  /\ Go(r, IF HistoryEnabled THEN "reading" ELSE "call")
  /\ UNCHANGED <<answer, stops, record, rest, context, reported, state>>

ReadHistory(r) ==
  /\ pc[r] = "reading"
  /\ context' \in {context, [context EXCEPT ![r] = {rows[i].of : i \in DOMAIN rows}]}
  /\ Go(r, "call")
  /\ UNCHANGED <<answer, stops, record, rest, reported, state>>

-----------------------------------------------------------------------------
(* The answer. *)

Ends(r, how) == outcome' = [outcome EXCEPT ![r] = how] /\ Go(r, "finally")

\* check_cancelled() of the provider, and the loop's own look at the token.
Cancelled(r) == r \in cancelled

\* The provider's stream(): it looks at the token before the request and before each
\* piece it hands over; the answer may end, or the request fail, at any piece.
Chunk(r) ==
  /\ pc[r] = "call" /\ kind[r] = "stream"
  /\ \/ Cancelled(r) /\ Ends(r, "stopped")
     \/ ~Cancelled(r) /\ pieces[r] < MaxDeltas /\ Go(r, "chunk") /\ UNCHANGED outcome
     \/ (~Cancelled(r) \/ pieces[r] > 0) /\ Ends(r, "complete")
     \/ (~Cancelled(r) \/ pieces[r] > 0) /\ Ends(r, "failed")
  /\ UNCHANGED <<pieces, shown, late, stops, record, rest, context, reported, state>>

\* Mutated form of Collect: the piece is kept before the token is looked at.
CollectFirst(r) ==
  /\ pc[r] = "chunk"
  /\ pieces' = [pieces EXCEPT ![r] = @ + 1]
  /\ IF Cancelled(r) THEN Ends(r, "stopped") ELSE Go(r, "yield") /\ UNCHANGED outcome
  /\ UNCHANGED <<shown, late, stops, record, rest, context, reported, state>>

\* The loop of _stream_events() looks again, and keeps the piece.
Collect(r) ==
  /\ pc[r] = "chunk"
  /\ IF Cancelled(r)
       THEN Ends(r, "stopped") /\ UNCHANGED pieces
       ELSE pieces' = [pieces EXCEPT ![r] = @ + 1] /\ Go(r, "yield") /\ UNCHANGED outcome
  /\ UNCHANGED <<shown, late, stops, record, rest, context, reported, state>>

\* The piece is sent, whatever was pressed since the loop looked.
Yield(r) ==
  /\ pc[r] = "yield"
  /\ shown' = [shown EXCEPT ![r] = @ + 1]
  /\ late' = [late EXCEPT ![r] = IF r \in asked THEN @ + 1 ELSE @]
  /\ Go(r, "call")
  /\ UNCHANGED <<pieces, outcome, stops, record, rest, context, reported, state>>

\* The client has left: GeneratorExit is raised at the yield.
LeaveAtYield(r) ==
  /\ pc[r] = "yield"
  /\ Ends(r, "left")
  /\ UNCHANGED <<pieces, shown, late, stops, record, rest, context, reported, state>>

\* generate_response(): one request, whose failure is an answer too.
Reply(r) ==
  /\ pc[r] = "call" /\ kind[r] = "command"
  /\ Ends(r, "complete") \/ Ends(r, "failed")
  /\ UNCHANGED <<pieces, shown, late, stops, record, rest, context, reported, state>>

\* What is recorded: a command's answer always, a streamed one when there is one.
Remembers(r) ==
  \/ kind[r] = "command"
  \/ pieces[r] > 0 /\ outcome[r] \in {"complete", "stopped"}

\* Mutated form of Finish: a failed answer leaves its state for the next one to clear.
FinishThinking(r) ==
  /\ pc[r] = "finally"
  /\ registry' = registry \ {r}
  /\ state' = IF outcome[r] = "failed" THEN state ELSE TryTransition(state, "standby")
  /\ \/ outcome[r] = "left" /\ Go(r, "gone") /\ UNCHANGED reported
     \/ outcome[r] # "left" /\ Remembers(r) /\ Go(r, "record") /\ UNCHANGED reported
     \/ /\ outcome[r] # "left" /\ ~Remembers(r) /\ Go(r, "done")
        /\ reported' = [reported EXCEPT ![r] = "unpersisted"]
  /\ UNCHANGED <<answer, cancelled, asked, record, rest, context>>

\* The finally of _stream_events(), and the end of _brain_response().
Finish(r) ==
  /\ pc[r] = "finally"
  /\ registry' = registry \ {r}
  /\ state' = TryTransition(state, "standby")
  /\ \/ outcome[r] = "left" /\ Go(r, "gone") /\ UNCHANGED reported
     \/ outcome[r] # "left" /\ Remembers(r) /\ Go(r, "record") /\ UNCHANGED reported
     \/ /\ outcome[r] # "left" /\ ~Remembers(r) /\ Go(r, "done")
        /\ reported' = [reported EXCEPT ![r] = "unpersisted"]
  /\ UNCHANGED <<answer, cancelled, asked, record, rest, context>>

-----------------------------------------------------------------------------
(* record_exchange() *)

Reports(r, what) == reported' = [reported EXCEPT ![r] = what] /\ Go(r, "done")

CheckRecord(r) ==
  /\ pc[r] = "record"
  /\ IF HistoryEnabled
       THEN Go(r, "question") /\ UNCHANGED reported
       ELSE Reports(r, "unpersisted")
  /\ UNCHANGED <<answer, stops, record, rest, context, state>>

Added(r, role, size) == Append(rows, [role |-> role, of |-> r, size |-> size])

WriteQuestion(r) ==
  /\ pc[r] = "question"
  /\ \/ rows' = Added(r, "user", 0) /\ Go(r, "answer") /\ UNCHANGED reported
     \/ Reports(r, "unpersisted") /\ UNCHANGED rows
  /\ UNCHANGED <<answer, stops, rest, context, state, wiped>>

WriteAnswer(r) ==
  /\ pc[r] = "answer"
  /\ \/ rows' = Added(r, "assistant", pieces[r]) /\ Reports(r, "persisted")
     \/ Reports(r, "unpersisted") /\ UNCHANGED rows
  /\ UNCHANGED <<answer, stops, rest, context, state, wiped>>

-----------------------------------------------------------------------------
(* What the user presses, and the rest of the program. *)

Press == presses < MaxPresses /\ presses' = presses + 1

\* Mutated form of Cancels: Stop without an id reaches one generation only.
CancelsOne(S) ==
  /\ cancelled' = cancelled \cup (IF S = {} THEN {} ELSE {CHOOSE r \in S : TRUE})
  /\ asked' = asked \cup S

\* The tokens of these generations are set, and the page is told that they stop.
Cancels(S) == cancelled' = cancelled \cup S /\ asked' = asked \cup S

\* stop(): the page knows the id once it has seen the start event.
StopOne(r) ==
  /\ Press
  /\ r \in registry /\ pc[r] # "start"
  /\ Cancels({r})
  /\ UNCHANGED <<pc, kind, answer, registry, record, context, reported, privacy, state>>

\* stop_all(): the page has no id, or has lost it.
StopAll ==
  /\ Press
  /\ Cancels(registry)
  /\ UNCHANGED <<pc, kind, answer, registry, record, context, reported, privacy, state>>

\* reset(): whatever is being written goes on being written.
Reset ==
  /\ Press
  /\ rows' = <<>>
  /\ wiped' = wiped \cup {r \in Turns : pc[r] \in {"answer", "done"}}
  /\ UNCHANGED <<pc, kind, answer, stops, context, reported, privacy, state>>

SetPrivacy ==
  /\ Press
  /\ privacy' = ~privacy
  /\ UNCHANGED <<pc, kind, answer, stops, record, context, reported, state>>

\* The action pipeline moves the runtime state for the commands it executes.
Elsewhere ==
  /\ Press
  /\ \E s \in {"awaiting_approval", "executing", "standby"} :
       state' = TryTransition(state, s)
  /\ UNCHANGED <<pc, kind, answer, stops, record, context, reported, privacy>>

-----------------------------------------------------------------------------
(* The specification. *)

Ask(r)    == AskWhole(r) \/ AskStream(r) \/ AskCommand(r)
Leaves(r) == LeaveAtStart(r) \/ LeaveAtYield(r)

Runs(r) ==
  \/ Think(r) \/ CheckHistory(r) \/ ReadHistory(r)
  \/ Chunk(r) \/ Collect(r) \/ Yield(r) \/ Reply(r) \/ Finish(r)
  \/ CheckRecord(r) \/ WriteQuestion(r) \/ WriteAnswer(r)

Next ==
  \/ \E r \in Turns : Ask(r) \/ Leaves(r) \/ Runs(r) \/ StopOne(r)
  \/ StopAll \/ Reset \/ SetPrivacy \/ Elsewhere

\* The thread of a request goes on until its response is complete: every provider
\* request has a timeout (base.py, ProviderConfig.timeout_seconds).
Spec == Init /\ [][Next]_vars /\ \A r \in Turns : WF_vars(Runs(r))

-----------------------------------------------------------------------------
(* Properties. *)

\* Once a Stop has been confirmed for a generation, at most the piece that had passed
\* the last look at the token is still sent (chat.py, _stream_events: "Stop means
\* nothing more appears on screen").
StopIsPrompt == \A r \in Turns : late[r] <= 1

\* An answer kept from a stream is what its client was sent, to the last piece, and
\* never that of a generation that failed or whose client left (chat.py,
\* _stream_events: what is persisted, and what is not).
KeptIsShown ==
  \A i \in DOMAIN rows :
    LET r == rows[i].of
    IN rows[i].role = "assistant" /\ kind[r] = "stream" =>
         /\ rows[i].size = shown[r] /\ shown[r] > 0
         /\ outcome[r] \in {"complete", "stopped"}

\* The table has the question of a request, further down its answer, and nothing else
\* of it.
HasExchange(r) ==
  \E i, j \in DOMAIN rows :
    /\ i < j
    /\ rows[i].role = "user" /\ rows[j].role = "assistant"
    /\ \A k \in DOMAIN rows : rows[k].of = r <=> k \in {i, j}

\* A request that reported its exchange as persisted has left the question and then
\* the answer in the table, unless the chat was cleared meanwhile; one that reported
\* it was not has left no answer there (conversation.py, record_exchange).
PersistedIsHonest ==
  \A r \in Turns :
    /\ reported[r] = "persisted" /\ r \notin wiped => HasExchange(r)
    /\ reported[r] = "unpersisted" =>
         \A i \in DOMAIN rows : rows[i].of = r => rows[i].role = "user"

\* The registry holds a generation only while its request runs, whatever ends it,
\* except one whose client left before its loop began (generation.py, finish;
\* chat.py, the finally of _stream_events).
RegistryHoldsTheRunning ==
  \A r \in registry : pc[r] \notin {"done", "gone"} \/ outcome[r] = "none"

\* Stop reaches every generation that runs, and what it is asked of stops.
StopReaches == StopIsPrompt /\ RegistryHoldsTheRunning

\* What the table holds is what was seen, and what was said of it is true.
HistoryIsHonest == KeptIsShown /\ PersistedIsHonest

\* The dashboard does not show "thinking" for ever: whoever entered the state, an
\* answer that ends leaves it (chat.py and router.py, the transition to standby).
ThinkingEnds == []<>(state # "thinking")

\* "New conversation turns are not written to the conversations table" while privacy
\* mode is on (privacy.py, module docstring).
PrivacyWritesNothing == [][privacy => Len(rows') <= Len(rows)]_vars
=============================================================================

----------------------------- MODULE ChatProofs -----------------------------
(***************************************************************************)
(* Proofs about Chat, for any number of requests, pieces and presses: that *)
(* Stop is prompt and reaches what runs, that what the history holds is    *)
(* what was shown, and that what a request reports of it is true.          *)
(***************************************************************************)
EXTENDS Chat, SequenceTheorems, TLAPS

-----------------------------------------------------------------------------
(* The inductive invariant, part by part *)

(* Where a request stands, and what it has got so far.                     *)
PlaceOf(r) ==
  /\ pc[r] \in {"idle", "start", "history", "reading", "call", "chunk", "yield"}
        => outcome[r] = "none"
  /\ pc[r] \in {"record", "question", "answer"} =>
        Remembers(r) /\ outcome[r] \notin {"none", "left"}
  /\ pc[r] = "finally" => outcome[r] # "none"
  /\ pc[r] = "chunk" => pieces[r] < MaxDeltas
  /\ reported[r] # "nothing" => pc[r] = "done"

(* What was collected was sent, but for the piece on its way.              *)
SentOf(r) ==
  IF pc[r] = "yield" \/ outcome[r] = "left"
  THEN pieces[r] = shown[r] + 1 ELSE pieces[r] = shown[r]

(* A confirmed Stop has set the token, so one piece is late at most.       *)
StopOf(r) ==
  /\ late[r] <= 1 /\ late[r] <= shown[r]
  /\ r \notin asked \/ pc[r] = "yield" => late[r] = 0

(* A token is kept while its generation runs, and for ever when its client *)
(* left before the loop.                                                   *)
HeldOf(r) ==
  r \in registry =>
    /\ pc[r] \notin {"idle", "record", "question", "answer", "done"}
    /\ pc[r] = "gone" => outcome[r] = "none"

TurnInv ==
  /\ asked = cancelled
  /\ \A r \in Turns : PlaceOf(r) /\ SentOf(r) /\ StopOf(r) /\ HeldOf(r)

(* A row is of a request that has come to record, and an answer of one     *)
(* that has done so.                                                       *)
RowOf(i) ==
  /\ pc[rows[i].of] \in {"answer", "done"}
  /\ rows[i].role = "assistant" =>
       /\ reported[rows[i].of] = "persisted" /\ Remembers(rows[i].of)
       /\ outcome[rows[i].of] \notin {"none", "left"}
       /\ rows[i].size = pieces[rows[i].of]

RowInv ==
  /\ \A i \in DOMAIN rows : RowOf(i)
  /\ \A r \in wiped : pc[r] \in {"answer", "done"}

(* The question stands alone while its answer is still to be written.      *)
HasQuestion(r) ==
  \E i \in DOMAIN rows :
    rows[i].role = "user" /\ \A k \in DOMAIN rows : rows[k].of = r <=> k = i

PairInv ==
  \A r \in Turns \ wiped :
    /\ pc[r] = "answer" => HasQuestion(r)
    /\ reported[r] = "persisted" => HasExchange(r)

CInv == TypeOK /\ TurnInv /\ RowInv /\ PairInv

-----------------------------------------------------------------------------
(* The table and the state *)

(* A row added is the last one, and the others stay where they are         *)
(* (an INSERT into conversations).                                         *)
LEMMA RowAdded ==
  ASSUME NEW s \in Seq(Row), NEW row \in Row
  PROVE  /\ Append(s, row) \in Seq(Row)
         /\ Len(s) \in Nat
         /\ DOMAIN s = 1..Len(s)
         /\ DOMAIN Append(s, row) = 1..(Len(s) + 1)
         /\ \A i \in DOMAIN s : Append(s, row)[i] = s[i]
         /\ Append(s, row)[Len(s) + 1] = row
BY AppendProperties, LenProperties

(* Every row is of a request and has a role (the CHECK of the table).      *)
LEMMA RowTypes ==
  ASSUME TypeOK
  PROVE  \A i \in DOMAIN rows :
           /\ rows[i] \in Row /\ rows[i].of \in Turns
           /\ rows[i].role \in {"user", "assistant"}
<1>1. rows \in Seq(Row)
  BY DEF TypeOK
<1>2. \A i \in DOMAIN rows : rows[i] \in Row
  BY <1>1, LenProperties, ElementOfSeq
<1> QED BY <1>2 DEF Row

(* A rejected transition leaves the state; no other value is ever stored.  *)
LEMMA StateType ==
  ASSUME NEW s \in RuntimeStates, NEW t \in RuntimeStates
  PROVE  TryTransition(s, t) \in RuntimeStates
BY DEF TryTransition

(* The states that Chat asks for are runtime states.                       *)
LEMMA StatesNamed ==
  {"thinking", "standby", "awaiting_approval", "executing"} \subseteq RuntimeStates
BY DEF RuntimeStates

(* The program starts with no request and an empty table.                  *)
LEMMA InitCInv == Init => CInv
<1> SUFFICES ASSUME Init PROVE CInv
  OBVIOUS
<1>1. rows = << >> /\ DOMAIN rows = {} /\ rows \in Seq(Row)
  <2>1. DOMAIN << >> = {}
    OBVIOUS
  <2> QED BY <2>1 DEF Init
<1>2. TypeOK
  <2>1. state \in RuntimeStates /\ privacy \in BOOLEAN
    BY DEF Init, RuntimeStates
  <2>2. /\ pieces \in [Turns -> 0..MaxDeltas] /\ shown \in [Turns -> 0..MaxDeltas]
        /\ late \in [Turns -> 0..MaxDeltas] /\ presses \in 0..MaxPresses
    BY ChatAssumption DEF Init
  <2>3. /\ pc \in [Turns -> Places] /\ outcome \in [Turns -> Outcomes]
        /\ kind \in [Turns -> {"stream", "command"}]
        /\ reported \in [Turns -> {"nothing", "persisted", "unpersisted"}]
    BY DEF Init, Places, Outcomes
  <2>4. /\ context \in [Turns -> SUBSET Turns]
        /\ registry \subseteq Turns /\ cancelled \subseteq Turns /\ asked \subseteq Turns
        /\ wiped \subseteq Turns
    BY DEF Init
  <2> QED BY <1>1, <2>1, <2>2, <2>3, <2>4 DEF TypeOK
<1>3. TurnInv
  BY DEF Init, TurnInv, PlaceOf, SentOf, StopOf, HeldOf
<1>4. RowInv /\ PairInv
  BY <1>1 DEF Init, RowInv, PairInv
<1> QED BY <1>2, <1>3, <1>4 DEF CInv

-----------------------------------------------------------------------------
(* What a step of one request leaves alone *)

(* The other requests keep what they have.                                 *)
Alone(r) ==
  \A q \in Turns \ {r} :
    /\ pc'[q] = pc[q] /\ kind'[q] = kind[q] /\ outcome'[q] = outcome[q]
    /\ pieces'[q] = pieces[q] /\ shown'[q] = shown[q] /\ late'[q] = late[q]
    /\ reported'[q] = reported[q] /\ (q \in registry' <=> q \in registry)

(* So only the one that moved has to be looked at again.                   *)
LEMMA OneTurn ==
  ASSUME TurnInv, NEW r \in Turns, Alone(r), asked' = asked, cancelled' = cancelled,
         PlaceOf(r)', SentOf(r)', StopOf(r)', HeldOf(r)'
  PROVE  TurnInv'
<1> SUFFICES ASSUME NEW q \in Turns, q # r
             PROVE  PlaceOf(q)' /\ SentOf(q)' /\ StopOf(q)' /\ HeldOf(q)'
  BY DEF TurnInv
<1>1. /\ pc'[q] = pc[q] /\ kind'[q] = kind[q] /\ outcome'[q] = outcome[q]
      /\ pieces'[q] = pieces[q] /\ shown'[q] = shown[q] /\ late'[q] = late[q]
      /\ reported'[q] = reported[q] /\ (q \in registry' <=> q \in registry)
  BY DEF Alone
<1>2. PlaceOf(q) /\ SentOf(q) /\ StopOf(q) /\ HeldOf(q)
  BY DEF TurnInv
<1>3. PlaceOf(q)'
  BY <1>1, <1>2 DEF PlaceOf, Remembers
<1>4. SentOf(q)'
  BY <1>1, <1>2 DEF SentOf
<1>5. StopOf(q)'
  BY <1>1, <1>2 DEF StopOf
<1>6. HeldOf(q)'
  BY <1>1, <1>2 DEF HeldOf
<1> QED BY <1>3, <1>4, <1>5, <1>6

(* What the table says survives a step that leaves the table alone and     *)
(* takes no request that has rows anywhere.                                *)
LEMMA RowsKept ==
  ASSUME CInv, NEW r \in Turns, pc[r] \notin {"answer", "done"}, Alone(r),
         rows' = rows, wiped' = wiped, pc'[r] # "answer", reported'[r] # "persisted"
  PROVE  RowInv' /\ PairInv'
<1>1. \A i \in DOMAIN rows : rows[i].of \in Turns \ {r}
  BY RowTypes DEF CInv, RowInv, RowOf
<1>2. wiped \subseteq Turns \ {r}
  BY DEF CInv, RowInv, TypeOK
<1>3. ASSUME NEW i \in DOMAIN rows PROVE RowOf(i)'
  <2> DEFINE q == rows[i].of
  <2>1. q \in Turns \ {r}
    BY <1>1
  <2>2. /\ pc'[q] = pc[q] /\ kind'[q] = kind[q] /\ outcome'[q] = outcome[q]
        /\ pieces'[q] = pieces[q] /\ reported'[q] = reported[q]
    BY <2>1 DEF Alone
  <2>3. RowOf(i)
    BY DEF CInv, RowInv
  <2> QED BY <2>2, <2>3 DEF RowOf, Remembers
<1>4. RowInv'
  BY <1>2, <1>3 DEF CInv, RowInv, Alone
<1>5. \A q \in Turns : HasExchange(q)' = HasExchange(q) /\ HasQuestion(q)' = HasQuestion(q)
  BY DEF HasExchange, HasQuestion
<1>6. PairInv'
  BY <1>5 DEF CInv, PairInv, Alone
<1> QED BY <1>4, <1>6

-----------------------------------------------------------------------------
(* The steps of a request *)

(* What a request has before it is asked, or before its answer began.      *)
LEMMA Fresh ==
  ASSUME CInv, NEW r \in Turns
  PROVE  /\ TypeOK /\ TurnInv
         /\ PlaceOf(r) /\ SentOf(r) /\ StopOf(r) /\ HeldOf(r)
         /\ pc[r] # "done" => reported[r] = "nothing"
BY DEF CInv, TurnInv, PlaceOf

(* A message that is executed whole is not recorded.                       *)
LEMMA AskWholeStep ==
  ASSUME CInv, NEW r \in Turns, AskWhole(r)
  PROVE  CInv'
<1>1. /\ pc' = [pc EXCEPT ![r] = "done"] /\ pc[r] = "idle"
      /\ reported' = [reported EXCEPT ![r] = "unpersisted"]
      /\ UNCHANGED <<kind, registry, cancelled, pieces, shown, outcome, rows, context,
                     privacy, state, presses, asked, late, wiped>>
  BY DEF AskWhole, Go, answer, stops, record, rest
<1>2. pc'[r] = "done" /\ reported'[r] = "unpersisted"
  BY <1>1, Fresh DEF TypeOK
<1>3. Alone(r)
  BY <1>1, Fresh DEF Alone, TypeOK
<1>4. TypeOK'
  <2>1. pc' \in [Turns -> Places]
    BY <1>1, Fresh DEF TypeOK, Places
  <2>2. reported' \in [Turns -> {"nothing", "persisted", "unpersisted"}]
    BY <1>1, Fresh DEF TypeOK
  <2> QED BY <1>1, <2>1, <2>2, Fresh DEF TypeOK
<1>5. PlaceOf(r)' /\ SentOf(r)' /\ StopOf(r)' /\ HeldOf(r)'
  BY <1>1, <1>2, Fresh DEF PlaceOf, SentOf, StopOf, HeldOf
<1>6. TurnInv'
  BY <1>1, <1>3, <1>5, OneTurn, Fresh
<1>7. RowInv' /\ PairInv'
  BY <1>1, <1>2, <1>3, RowsKept
<1> QED BY <1>4, <1>6, <1>7 DEF CInv

(* generations.start() registers the token before the client knows it.     *)
LEMMA AskStreamStep ==
  ASSUME CInv, NEW r \in Turns, AskStream(r)
  PROVE  CInv'
<1>1. /\ pc' = [pc EXCEPT ![r] = "start"] /\ pc[r] = "idle"
      /\ registry' = registry \cup {r}
      /\ UNCHANGED <<kind, cancelled, pieces, shown, outcome, reported, rows, context,
                     privacy, state, presses, asked, late, wiped>>
  BY DEF AskStream, Go, answer, record, rest
<1>2. pc'[r] = "start"
  BY <1>1, Fresh DEF TypeOK
<1>3. Alone(r)
  BY <1>1, Fresh DEF Alone, TypeOK
<1>4. TypeOK'
  <2>1. pc' \in [Turns -> Places]
    BY <1>1, Fresh DEF TypeOK, Places
  <2>2. registry' \subseteq Turns
    BY <1>1, Fresh DEF TypeOK
  <2> QED BY <1>1, <2>1, <2>2, Fresh DEF TypeOK
<1>5. PlaceOf(r)' /\ SentOf(r)' /\ StopOf(r)' /\ HeldOf(r)'
  BY <1>1, <1>2, Fresh DEF PlaceOf, SentOf, StopOf, HeldOf
<1>6. TurnInv'
  BY <1>1, <1>3, <1>5, OneTurn, Fresh
<1>7. RowInv' /\ PairInv'
  BY <1>1, <1>2, <1>3, RowsKept, Fresh
<1> QED BY <1>4, <1>6, <1>7 DEF CInv

(* The client leaves at the first yield: its token stays, and nothing else *)
(* was done yet; or the answer begins.                                     *)
LEMMA StartStep ==
  ASSUME CInv, NEW r \in Turns, LeaveAtStart(r) \/ Think(r)
  PROVE  CInv'
<1>1. /\ \/ pc' = [pc EXCEPT ![r] = "gone"] /\ state' = state
         \/ pc' = [pc EXCEPT ![r] = "history"] /\ state' = TryTransition(state, "thinking")
      /\ pc[r] = "start"
      /\ UNCHANGED <<kind, registry, cancelled, pieces, shown, outcome, reported, rows,
                     context, privacy, presses, asked, late, wiped>>
  BY DEF LeaveAtStart, Think, Go, answer, stops, record, rest
<1>2. pc'[r] \in {"gone", "history"}
  BY <1>1, Fresh DEF TypeOK
<1>3. Alone(r)
  BY <1>1, Fresh DEF Alone, TypeOK
<1>4. TypeOK'
  <2>1. pc' \in [Turns -> Places]
    BY <1>1, Fresh DEF TypeOK, Places
  <2>2. state' \in RuntimeStates
    BY <1>1, Fresh, StateType, StatesNamed DEF TypeOK
  <2> QED BY <1>1, <2>1, <2>2, Fresh DEF TypeOK
<1>5. PlaceOf(r)' /\ SentOf(r)' /\ StopOf(r)' /\ HeldOf(r)'
  BY <1>1, <1>2, Fresh DEF PlaceOf, SentOf, StopOf, HeldOf
<1>6. TurnInv'
  BY <1>1, <1>3, <1>5, OneTurn, Fresh
<1>7. RowInv' /\ PairInv'
  BY <1>1, <1>2, <1>3, RowsKept, Fresh
<1> QED BY <1>4, <1>6, <1>7 DEF CInv

(* A command is asked; without a provider the reason is its answer.        *)
LEMMA AskCommandStep ==
  ASSUME CInv, NEW r \in Turns, AskCommand(r)
  PROVE  CInv'
<1>1. /\ kind' = [kind EXCEPT ![r] = "command"] /\ pc[r] = "idle"
      /\ state' = TryTransition(state, "thinking")
      /\ \/ pc' = [pc EXCEPT ![r] = "history"] /\ outcome' = outcome
         \/ /\ pc' = [pc EXCEPT ![r] = "finally"]
            /\ outcome' = [outcome EXCEPT ![r] = "failed"]
      /\ UNCHANGED <<registry, cancelled, pieces, shown, reported, rows, context,
                     privacy, presses, asked, late, wiped>>
  BY DEF AskCommand, Go, stops, record
<1>2. \/ pc'[r] = "history" /\ outcome'[r] = outcome[r]
      \/ pc'[r] = "finally" /\ outcome'[r] = "failed"
  BY <1>1, Fresh DEF TypeOK
<1>3. Alone(r)
  BY <1>1, Fresh DEF Alone, TypeOK
<1>4. TypeOK'
  <2>1. pc' \in [Turns -> Places]
    BY <1>1, Fresh DEF TypeOK, Places
  <2>2. outcome' \in [Turns -> Outcomes]
    BY <1>1, Fresh DEF TypeOK, Outcomes
  <2>3. kind' \in [Turns -> {"stream", "command"}]
    BY <1>1, Fresh DEF TypeOK
  <2>4. state' \in RuntimeStates
    BY <1>1, Fresh, StateType, StatesNamed DEF TypeOK
  <2> QED BY <1>1, <2>1, <2>2, <2>3, <2>4, Fresh DEF TypeOK
<1>5. PlaceOf(r)' /\ SentOf(r)' /\ StopOf(r)' /\ HeldOf(r)'
  BY <1>1, <1>2, Fresh DEF PlaceOf, SentOf, StopOf, HeldOf
<1>6. TurnInv'
  BY <1>1, <1>3, <1>5, OneTurn, Fresh
<1>7. RowInv' /\ PairInv'
  BY <1>1, <1>2, <1>3, RowsKept, Fresh
<1> QED BY <1>4, <1>6, <1>7 DEF CInv

(* The history is looked at, and sent along or not.                        *)
LEMMA HistoryStep ==
  ASSUME CInv, NEW r \in Turns, CheckHistory(r) \/ ReadHistory(r)
  PROVE  CInv'
<1>1. /\ \/ pc' = [pc EXCEPT ![r] = "reading"]
         \/ pc' = [pc EXCEPT ![r] = "call"]
      /\ pc[r] \in {"history", "reading"}
      /\ UNCHANGED <<kind, registry, cancelled, pieces, shown, outcome, reported, rows,
                     state, privacy, presses, asked, late, wiped>>
  <2>1. CASE CheckHistory(r)
    <3>1. CASE HistoryEnabled
      BY <2>1, <3>1 DEF CheckHistory, Go, answer, stops, record, rest
    <3>2. CASE ~HistoryEnabled
      BY <2>1, <3>2 DEF CheckHistory, Go, answer, stops, record, rest
    <3> QED BY <3>1, <3>2
  <2>2. CASE ReadHistory(r)
    BY <2>2 DEF ReadHistory, Go, answer, stops, record, rest
  <2> QED BY <2>1, <2>2
<1>2. pc'[r] \in {"reading", "call"}
  BY <1>1, Fresh DEF TypeOK
<1>3. Alone(r)
  BY <1>1, Fresh DEF Alone, TypeOK
<1>4. TypeOK'
  <2>1. pc' \in [Turns -> Places]
    BY <1>1, Fresh DEF TypeOK, Places
  <2>2. context' \in [Turns -> SUBSET Turns]
    <3>1. {rows[i].of : i \in DOMAIN rows} \subseteq Turns
      BY RowTypes, Fresh
    <3>2. \/ context' = context
          \/ context' = [context EXCEPT ![r] = {rows[i].of : i \in DOMAIN rows}]
      BY DEF CheckHistory, ReadHistory
    <3>3. context \in [Turns -> SUBSET Turns]
      BY Fresh DEF TypeOK
    <3> QED BY <3>1, <3>2, <3>3
  <2> QED BY <1>1, <2>1, <2>2, Fresh DEF TypeOK
<1>5. PlaceOf(r)' /\ SentOf(r)' /\ StopOf(r)' /\ HeldOf(r)'
  BY <1>1, <1>2, Fresh DEF PlaceOf, SentOf, StopOf, HeldOf
<1>6. TurnInv'
  BY <1>1, <1>3, <1>5, OneTurn, Fresh
<1>7. RowInv' /\ PairInv'
  BY <1>1, <1>2, <1>3, RowsKept, Fresh
<1> QED BY <1>4, <1>6, <1>7 DEF CInv

(* The answer ends, or its next piece is on the way to the loop.           *)
LEMMA ChunkStep ==
  ASSUME CInv, NEW r \in Turns, Chunk(r) \/ Reply(r) \/ LeaveAtYield(r)
  PROVE  CInv'
<1>1. /\ \/ /\ pc' = [pc EXCEPT ![r] = "chunk"] /\ outcome' = outcome
            /\ pc[r] = "call" /\ pieces[r] < MaxDeltas
         \/ /\ pc' = [pc EXCEPT ![r] = "finally"] /\ pc[r] = "call"
            /\ \E how \in {"complete", "stopped", "failed"} :
                 outcome' = [outcome EXCEPT ![r] = how]
         \/ /\ pc' = [pc EXCEPT ![r] = "finally"] /\ pc[r] = "yield"
            /\ outcome' = [outcome EXCEPT ![r] = "left"]
      /\ UNCHANGED <<kind, registry, cancelled, pieces, shown, reported, rows, context,
                     state, privacy, presses, asked, late, wiped>>
  <2>1. CASE Chunk(r)
    BY <2>1 DEF Chunk, Ends, Go, stops, record, rest
  <2>2. CASE Reply(r)
    BY <2>2 DEF Reply, Ends, Go, stops, record, rest
  <2>3. CASE LeaveAtYield(r)
    BY <2>3 DEF LeaveAtYield, Ends, Go, stops, record, rest
  <2> QED BY <2>1, <2>2, <2>3
<1>2. \/ /\ pc'[r] = "chunk" /\ pieces[r] < MaxDeltas /\ outcome'[r] = outcome[r]
         /\ pc[r] = "call"
      \/ /\ pc'[r] = "finally" /\ pc[r] = "call"
         /\ outcome'[r] \in {"complete", "stopped", "failed"}
      \/ pc'[r] = "finally" /\ pc[r] = "yield" /\ outcome'[r] = "left"
  BY <1>1, Fresh DEF TypeOK
<1>3. Alone(r)
  BY <1>1, Fresh DEF Alone, TypeOK
<1>4. TypeOK'
  <2>1. pc' \in [Turns -> Places]
    BY <1>1, Fresh DEF TypeOK, Places
  <2>2. outcome' \in [Turns -> Outcomes]
    BY <1>1, Fresh DEF TypeOK, Outcomes
  <2> QED BY <1>1, <2>1, <2>2, Fresh DEF TypeOK
<1>5. PlaceOf(r)' /\ SentOf(r)' /\ StopOf(r)' /\ HeldOf(r)'
  <2>1. PlaceOf(r)'
    BY <1>1, <1>2, Fresh DEF PlaceOf
  <2>2. SentOf(r)'
    BY <1>1, <1>2, Fresh DEF PlaceOf, SentOf
  <2>3. StopOf(r)' /\ HeldOf(r)'
    BY <1>1, <1>2, Fresh DEF StopOf, HeldOf
  <2> QED BY <2>1, <2>2, <2>3
<1>6. TurnInv'
  BY <1>1, <1>3, <1>5, OneTurn, Fresh
<1>7. RowInv' /\ PairInv'
  BY <1>1, <1>2, <1>3, RowsKept, Fresh
<1> QED BY <1>4, <1>6, <1>7 DEF CInv

(* The loop keeps a piece only of an answer nobody has stopped.            *)
LEMMA CollectStep ==
  ASSUME CInv, NEW r \in Turns, Collect(r)
  PROVE  CInv'
<1>1. /\ \/ /\ pc' = [pc EXCEPT ![r] = "finally"] /\ pieces' = pieces
            /\ outcome' = [outcome EXCEPT ![r] = "stopped"]
         \/ /\ pc' = [pc EXCEPT ![r] = "yield"] /\ outcome' = outcome
            /\ pieces' = [pieces EXCEPT ![r] = @ + 1] /\ r \notin cancelled
      /\ pc[r] = "chunk"
      /\ UNCHANGED <<kind, registry, cancelled, shown, reported, rows, context,
                     state, privacy, presses, asked, late, wiped>>
  <2>1. CASE Cancelled(r)
    BY <2>1 DEF Collect, Ends, Go, stops, record, rest
  <2>2. CASE ~Cancelled(r)
    BY <2>2 DEF Collect, Cancelled, Go, stops, record, rest
  <2> QED BY <2>1, <2>2
<1>0. /\ pieces[r] \in 0..MaxDeltas /\ pieces[r] < MaxDeltas /\ MaxDeltas \in Nat
      /\ shown[r] \in 0..MaxDeltas /\ late[r] \in 0..MaxDeltas
  BY <1>1, Fresh, ChatAssumption DEF TypeOK, PlaceOf
<1>2. \/ pc'[r] = "finally" /\ pieces'[r] = pieces[r] /\ outcome'[r] = "stopped"
      \/ /\ pc'[r] = "yield" /\ pieces'[r] = pieces[r] + 1 /\ outcome'[r] = outcome[r]
         /\ r \notin asked
  BY <1>1, Fresh DEF TypeOK, TurnInv
<1>3. Alone(r)
  BY <1>1, Fresh DEF Alone, TypeOK
<1>4. TypeOK'
  <2>1. pc' \in [Turns -> Places]
    BY <1>1, Fresh DEF TypeOK, Places
  <2>2. outcome' \in [Turns -> Outcomes]
    BY <1>1, Fresh DEF TypeOK, Outcomes
  <2>3. pieces' \in [Turns -> 0..MaxDeltas]
    <3>1. pieces[r] + 1 \in 0..MaxDeltas
      BY <1>0
    <3>2. pieces \in [Turns -> 0..MaxDeltas]
      BY Fresh DEF TypeOK
    <3>3. pieces' = pieces \/ pieces' = [pieces EXCEPT ![r] = @ + 1]
      BY <1>1
    <3> QED BY <3>1, <3>2, <3>3
  <2> QED BY <1>1, <2>1, <2>2, <2>3, Fresh DEF TypeOK
<1>5. PlaceOf(r)' /\ SentOf(r)' /\ StopOf(r)' /\ HeldOf(r)'
  <2>1. PlaceOf(r)'
    BY <1>1, <1>2, Fresh DEF PlaceOf
  <2>2. SentOf(r)'
    BY <1>0, <1>1, <1>2, Fresh DEF PlaceOf, SentOf
  <2>3. StopOf(r)' /\ HeldOf(r)'
    BY <1>0, <1>1, <1>2, Fresh DEF StopOf, HeldOf
  <2> QED BY <2>1, <2>2, <2>3
<1>6. TurnInv'
  BY <1>1, <1>3, <1>5, OneTurn, Fresh
<1>7. RowInv' /\ PairInv'
  BY <1>1, <1>2, <1>3, RowsKept, Fresh
<1> QED BY <1>4, <1>6, <1>7 DEF CInv

(* A piece is sent, the one late piece of a stopped answer at most.        *)
LEMMA YieldStep ==
  ASSUME CInv, NEW r \in Turns, Yield(r)
  PROVE  CInv'
<1>1. /\ pc' = [pc EXCEPT ![r] = "call"] /\ pc[r] = "yield"
      /\ shown' = [shown EXCEPT ![r] = @ + 1]
      /\ late' = [late EXCEPT ![r] = IF r \in asked THEN @ + 1 ELSE @]
      /\ UNCHANGED <<kind, registry, cancelled, pieces, outcome, reported, rows, context,
                     state, privacy, presses, asked, wiped>>
  BY DEF Yield, Go, stops, record, rest
<1>0. /\ pieces[r] \in 0..MaxDeltas /\ shown[r] \in 0..MaxDeltas /\ MaxDeltas \in Nat
      /\ late[r] = 0 /\ pieces[r] = shown[r] + 1 /\ outcome[r] = "none"
  BY <1>1, Fresh, ChatAssumption DEF TypeOK, PlaceOf, SentOf, StopOf
<1>2. /\ pc'[r] = "call" /\ shown'[r] = shown[r] + 1
      /\ late'[r] = IF r \in asked THEN 1 ELSE 0
  <2>1. pc'[r] = "call"
    BY <1>1, Fresh DEF TypeOK
  <2>2. shown'[r] = shown[r] + 1
    BY <1>1, Fresh DEF TypeOK
  <2>3. CASE r \in asked
    BY <1>0, <1>1, <2>1, <2>2, <2>3, Fresh DEF TypeOK
  <2>4. CASE r \notin asked
    BY <1>0, <1>1, <2>1, <2>2, <2>4, Fresh DEF TypeOK
  <2> QED BY <2>3, <2>4
<1>3. Alone(r)
  BY <1>1, Fresh DEF Alone, TypeOK
<1>4. TypeOK'
  <2>1. pc' \in [Turns -> Places]
    BY <1>1, Fresh DEF TypeOK, Places
  <2>2. shown[r] + 1 \in 0..MaxDeltas
    BY <1>0
  <2>3. shown' \in [Turns -> 0..MaxDeltas]
    BY <1>1, <2>2, Fresh DEF TypeOK
  <2>4. late' \in [Turns -> 0..MaxDeltas]
    <3>1. \A q \in Turns : q # r => late'[q] = late[q]
      BY <1>3 DEF Alone
    <3>2. late'[r] \in 0..MaxDeltas
      BY <1>0, <1>2
    <3>3. late' = [q \in Turns |-> late'[q]]
      BY <1>1, Fresh DEF TypeOK
    <3>4. \A q \in Turns : late'[q] \in 0..MaxDeltas
      BY <3>1, <3>2, Fresh DEF TypeOK
    <3> QED BY <3>3, <3>4
  <2> QED BY <1>1, <2>1, <2>3, <2>4, Fresh DEF TypeOK
<1>5. PlaceOf(r)' /\ SentOf(r)' /\ StopOf(r)' /\ HeldOf(r)'
  <2>1. PlaceOf(r)'
    BY <1>1, <1>2, Fresh DEF PlaceOf
  <2>2. SentOf(r)'
    BY <1>0, <1>1, <1>2, Fresh DEF SentOf
  <2>3. StopOf(r)' /\ HeldOf(r)'
    BY <1>0, <1>1, <1>2, Fresh DEF StopOf, HeldOf
  <2> QED BY <2>1, <2>2, <2>3
<1>6. TurnInv'
  BY <1>1, <1>3, <1>5, OneTurn, Fresh
<1>7. RowInv' /\ PairInv'
  BY <1>1, <1>2, <1>3, RowsKept, Fresh
<1> QED BY <1>4, <1>6, <1>7 DEF CInv

(* The token is dropped on every way out of the loop; what is to be        *)
(* remembered goes on to be recorded.                                      *)
LEMMA FinishStep ==
  ASSUME CInv, NEW r \in Turns, Finish(r)
  PROVE  CInv'
<1>1. /\ \/ /\ pc' = [pc EXCEPT ![r] = "gone"] /\ reported' = reported
            /\ outcome[r] = "left"
         \/ /\ pc' = [pc EXCEPT ![r] = "record"] /\ reported' = reported
            /\ Remembers(r) /\ outcome[r] # "left"
         \/ /\ pc' = [pc EXCEPT ![r] = "done"] /\ outcome[r] # "left"
            /\ reported' = [reported EXCEPT ![r] = "unpersisted"]
      /\ registry' = registry \ {r} /\ state' = TryTransition(state, "standby")
      /\ pc[r] = "finally"
      /\ UNCHANGED <<kind, cancelled, pieces, shown, outcome, rows, context,
                     privacy, presses, asked, late, wiped>>
  BY DEF Finish, Go, answer, record, rest
<1>2. \/ pc'[r] = "gone" /\ reported'[r] = reported[r]
      \/ pc'[r] = "record" /\ reported'[r] = reported[r]
         /\ Remembers(r) /\ outcome[r] # "left"
      \/ pc'[r] = "done" /\ reported'[r] = "unpersisted"
  BY <1>1, Fresh DEF TypeOK
<1>3. Alone(r)
  BY <1>1, Fresh DEF Alone, TypeOK
<1>4. TypeOK'
  <2>1. pc' \in [Turns -> Places]
    BY <1>1, Fresh DEF TypeOK, Places
  <2>2. reported' \in [Turns -> {"nothing", "persisted", "unpersisted"}]
    BY <1>1, Fresh DEF TypeOK
  <2>3. state' \in RuntimeStates
    BY <1>1, Fresh, StateType, StatesNamed DEF TypeOK
  <2> QED BY <1>1, <2>1, <2>2, <2>3, Fresh DEF TypeOK
<1>5. PlaceOf(r)' /\ SentOf(r)' /\ StopOf(r)' /\ HeldOf(r)'
  <2>1. Remembers(r)' <=> Remembers(r)
    BY <1>1 DEF Remembers
  <2>2. PlaceOf(r)'
    BY <1>1, <1>2, <2>1, Fresh DEF PlaceOf
  <2>3. SentOf(r)' /\ StopOf(r)' /\ HeldOf(r)'
    BY <1>1, <1>2, Fresh DEF SentOf, StopOf, HeldOf
  <2> QED BY <2>2, <2>3
<1>6. TurnInv'
  BY <1>1, <1>3, <1>5, OneTurn, Fresh
<1>7. RowInv' /\ PairInv'
  BY <1>1, <1>2, <1>3, RowsKept, Fresh
<1> QED BY <1>4, <1>6, <1>7 DEF CInv

(* Privacy mode is looked at before anything is written.                   *)
LEMMA CheckRecordStep ==
  ASSUME CInv, NEW r \in Turns, CheckRecord(r)
  PROVE  CInv'
<1>1. /\ \/ pc' = [pc EXCEPT ![r] = "question"] /\ reported' = reported
         \/ /\ pc' = [pc EXCEPT ![r] = "done"]
            /\ reported' = [reported EXCEPT ![r] = "unpersisted"]
      /\ pc[r] = "record"
      /\ UNCHANGED <<kind, registry, cancelled, pieces, shown, outcome, rows, context,
                     state, privacy, presses, asked, late, wiped>>
  <2>1. CASE HistoryEnabled
    BY <2>1 DEF CheckRecord, Go, answer, stops, record, rest
  <2>2. CASE ~HistoryEnabled
    BY <2>2 DEF CheckRecord, Reports, Go, answer, stops, record, rest
  <2> QED BY <2>1, <2>2
<1>2. \/ pc'[r] = "question" /\ reported'[r] = reported[r]
      \/ pc'[r] = "done" /\ reported'[r] = "unpersisted"
  BY <1>1, Fresh DEF TypeOK
<1>3. Alone(r)
  BY <1>1, Fresh DEF Alone, TypeOK
<1>4. TypeOK'
  <2>1. pc' \in [Turns -> Places]
    BY <1>1, Fresh DEF TypeOK, Places
  <2>2. reported' \in [Turns -> {"nothing", "persisted", "unpersisted"}]
    BY <1>1, Fresh DEF TypeOK
  <2> QED BY <1>1, <2>1, <2>2, Fresh DEF TypeOK
<1>5. PlaceOf(r)' /\ SentOf(r)' /\ StopOf(r)' /\ HeldOf(r)'
  <2>1. Remembers(r)' <=> Remembers(r)
    BY <1>1 DEF Remembers
  <2>2. PlaceOf(r)'
    BY <1>1, <1>2, <2>1, Fresh DEF PlaceOf
  <2>3. SentOf(r)' /\ StopOf(r)' /\ HeldOf(r)'
    BY <1>1, <1>2, Fresh DEF SentOf, StopOf, HeldOf
  <2> QED BY <2>2, <2>3
<1>6. TurnInv'
  BY <1>1, <1>3, <1>5, OneTurn, Fresh
<1>7. RowInv' /\ PairInv'
  BY <1>1, <1>2, <1>3, RowsKept, Fresh
<1> QED BY <1>4, <1>6, <1>7 DEF CInv

-----------------------------------------------------------------------------
(* What a request writes *)

(* A row added for one request is none of the others' business.            *)
LEMMA RowsGrow ==
  ASSUME TypeOK, NEW r \in Turns, NEW row \in Row, row.of = r,
         rows' = Append(rows, row)
  PROVE  /\ Len(rows) + 1 \notin DOMAIN rows
         /\ DOMAIN rows' = DOMAIN rows \cup {Len(rows) + 1}
         /\ \A i \in DOMAIN rows : rows'[i] = rows[i] /\ i < Len(rows) + 1
         /\ rows'[Len(rows) + 1] = row
         /\ \A q \in Turns \ {r} : /\ HasQuestion(q) => HasQuestion(q)'
                                   /\ HasExchange(q) => HasExchange(q)'
<1> DEFINE n == Len(rows) + 1
<1>1. /\ Len(rows) \in Nat /\ DOMAIN rows = 1..Len(rows)
      /\ DOMAIN rows' = 1..(Len(rows) + 1)
      /\ \A i \in DOMAIN rows : rows'[i] = rows[i]
      /\ rows'[n] = row
  BY RowAdded DEF TypeOK
<1>2. /\ n \notin DOMAIN rows /\ DOMAIN rows' = DOMAIN rows \cup {n}
      /\ \A i \in DOMAIN rows : i < n
  BY <1>1
<1>3. ASSUME NEW q \in Turns \ {r}, HasQuestion(q) PROVE HasQuestion(q)'
  BY <1>1, <1>2, <1>3 DEF HasQuestion
<1>4. ASSUME NEW q \in Turns \ {r}, HasExchange(q) PROVE HasExchange(q)'
  <2>1. PICK i, j \in DOMAIN rows :
          /\ i < j /\ rows[i].role = "user" /\ rows[j].role = "assistant"
          /\ \A k \in DOMAIN rows : rows[k].of = q <=> k \in {i, j}
    BY <1>4 DEF HasExchange
  <2>2. \A k \in DOMAIN rows' : rows'[k].of = q <=> k \in {i, j}
    BY <1>1, <1>2, <2>1
  <2>3. /\ i \in DOMAIN rows' /\ j \in DOMAIN rows'
        /\ rows'[i].role = "user" /\ rows'[j].role = "assistant"
    BY <1>1, <1>2, <2>1
  <2> QED BY <2>1, <2>2, <2>3 DEF HasExchange
<1> QED BY <1>1, <1>2, <1>3, <1>4

(* The question is the first row of its request, or nothing is written.    *)
LEMMA WriteQuestionStep ==
  ASSUME CInv, NEW r \in Turns, WriteQuestion(r)
  PROVE  CInv'
<1>1. /\ pc[r] = "question" /\ TypeOK
      /\ UNCHANGED <<kind, registry, cancelled, pieces, shown, outcome, context,
                     state, privacy, presses, asked, late, wiped>>
  BY Fresh DEF WriteQuestion, answer, stops, rest
<1>2. CASE /\ pc' = [pc EXCEPT ![r] = "done"]
           /\ reported' = [reported EXCEPT ![r] = "unpersisted"] /\ rows' = rows
  <2>1. pc'[r] = "done" /\ reported'[r] = "unpersisted"
    BY <1>1, <1>2 DEF TypeOK
  <2>2. Alone(r)
    BY <1>1, <1>2 DEF Alone, TypeOK
  <2>3. TypeOK'
    <3>1. pc' \in [Turns -> Places]
      BY <1>1, <1>2 DEF TypeOK, Places
    <3>2. reported' \in [Turns -> {"nothing", "persisted", "unpersisted"}]
      BY <1>1, <1>2 DEF TypeOK
    <3> QED BY <1>1, <1>2, <3>1, <3>2 DEF TypeOK
  <2>4. PlaceOf(r)' /\ SentOf(r)' /\ StopOf(r)' /\ HeldOf(r)'
    BY <1>1, <1>2, <2>1, Fresh DEF PlaceOf, SentOf, StopOf, HeldOf
  <2>5. TurnInv'
    BY <1>1, <2>2, <2>4, OneTurn, Fresh
  <2>6. RowInv' /\ PairInv'
    BY <1>1, <1>2, <2>1, <2>2, RowsKept
  <2> QED BY <2>3, <2>5, <2>6 DEF CInv
<1>3. CASE /\ pc' = [pc EXCEPT ![r] = "answer"] /\ reported' = reported
           /\ rows' = Append(rows, [role |-> "user", of |-> r, size |-> 0])
  <2> DEFINE row == [role |-> "user", of |-> r, size |-> 0]
             n == Len(rows) + 1
  <2>1. pc'[r] = "answer" /\ reported'[r] = reported[r]
    BY <1>1, <1>3 DEF TypeOK
  <2>2. Alone(r)
    BY <1>1, <1>3 DEF Alone, TypeOK
  <2>3. row \in Row
    BY ChatAssumption DEF Row
  <2>4. TypeOK'
    <3>1. pc' \in [Turns -> Places]
      BY <1>1, <1>3 DEF TypeOK, Places
    <3>2. rows' \in Seq(Row)
      BY <1>1, <1>3, <2>3, RowAdded DEF TypeOK
    <3> QED BY <1>1, <1>3, <3>1, <3>2 DEF TypeOK
  <2>5. PlaceOf(r)' /\ SentOf(r)' /\ StopOf(r)' /\ HeldOf(r)'
    <3>1. Remembers(r)' <=> Remembers(r)
      BY <1>1 DEF Remembers
    <3>2. PlaceOf(r)'
      BY <1>1, <2>1, <3>1, Fresh DEF PlaceOf
    <3> QED BY <1>1, <2>1, <3>2, Fresh DEF SentOf, StopOf, HeldOf
  <2>6. TurnInv'
    BY <1>1, <2>2, <2>5, OneTurn, Fresh
  <2>7. \A i \in DOMAIN rows : rows[i].of \in Turns \ {r}
    BY <1>1, RowTypes DEF CInv, RowInv, RowOf
  <2>8. r \notin wiped /\ wiped \subseteq Turns
    BY <1>1 DEF CInv, RowInv, TypeOK
  <2>9. /\ n \notin DOMAIN rows /\ DOMAIN rows' = DOMAIN rows \cup {n}
        /\ \A i \in DOMAIN rows : rows'[i] = rows[i]
        /\ rows'[n] = row
        /\ \A q \in Turns \ {r} : /\ HasQuestion(q) => HasQuestion(q)'
                                  /\ HasExchange(q) => HasExchange(q)'
    <3>1. row.of = r
      OBVIOUS
    <3> QED BY <1>1, <1>3, <2>3, <3>1, RowsGrow
  <2>10. RowInv'
    <3>1. ASSUME NEW i \in DOMAIN rows PROVE RowOf(i)'
      <4> DEFINE q == rows[i].of
      <4>1. q \in Turns \ {r} /\ rows'[i] = rows[i]
        BY <2>7, <2>9
      <4>2. /\ pc'[q] = pc[q] /\ reported'[q] = reported[q]
        BY <2>2, <4>1 DEF Alone
      <4>3. RowOf(i)
        BY DEF CInv, RowInv
      <4> QED BY <1>1, <4>1, <4>2, <4>3 DEF RowOf, Remembers
    <3>2. ASSUME NEW i, i = n PROVE RowOf(i)'
      BY <2>1, <2>9, <3>2 DEF RowOf
    <3>3. \A q \in wiped : pc'[q] \in {"answer", "done"}
      BY <2>2, <2>8 DEF CInv, RowInv, Alone
    <3> QED BY <1>1, <2>9, <3>1, <3>2, <3>3 DEF RowInv
  <2>11. PairInv'
    <3>1. HasQuestion(r)'
      <4>1. \A k \in DOMAIN rows' : rows'[k].of = r <=> k = n
        BY <2>7, <2>9
      <4>2. n \in DOMAIN rows' /\ rows'[n].role = "user"
        BY <2>9
      <4> QED BY <4>1, <4>2 DEF HasQuestion
    <3>2. reported'[r] # "persisted"
      BY <1>1, <2>1, Fresh
    <3>3. ASSUME NEW q \in Turns \ wiped, q # r
          PROVE  /\ pc'[q] = "answer" => HasQuestion(q)'
                 /\ reported'[q] = "persisted" => HasExchange(q)'
      BY <2>2, <2>9, <3>3 DEF CInv, PairInv, Alone
    <3> QED BY <1>1, <3>1, <3>2, <3>3 DEF PairInv
  <2> QED BY <2>4, <2>6, <2>10, <2>11 DEF CInv
<1> QED BY <1>2, <1>3 DEF WriteQuestion, Reports, Go, Added

(* The answer follows its question, or the question stays without one.     *)
LEMMA WriteAnswerStep ==
  ASSUME CInv, NEW r \in Turns, WriteAnswer(r)
  PROVE  CInv'
<1>1. /\ pc[r] = "answer" /\ TypeOK /\ pc' = [pc EXCEPT ![r] = "done"]
      /\ \/ /\ reported' = [reported EXCEPT ![r] = "unpersisted"] /\ rows' = rows
         \/ /\ reported' = [reported EXCEPT ![r] = "persisted"]
            /\ rows' = Append(rows, [role |-> "assistant", of |-> r, size |-> pieces[r]])
      /\ UNCHANGED <<kind, registry, cancelled, pieces, shown, outcome, context,
                     state, privacy, presses, asked, late, wiped>>
  BY Fresh DEF WriteAnswer, Reports, Go, Added, answer, stops, rest
<1>2. pc'[r] = "done" /\ reported'[r] \in {"persisted", "unpersisted"}
  BY <1>1 DEF TypeOK
<1>3. Alone(r)
  BY <1>1 DEF Alone, TypeOK
<1> DEFINE row == [role |-> "assistant", of |-> r, size |-> pieces[r]]
           n == Len(rows) + 1
<1>4. row \in Row /\ row.of = r
  BY <1>1 DEF Row, TypeOK
<1>5. TypeOK'
  <2>1. pc' \in [Turns -> Places]
    BY <1>1 DEF TypeOK, Places
  <2>2. reported' \in [Turns -> {"nothing", "persisted", "unpersisted"}]
    BY <1>1 DEF TypeOK
  <2>3. rows' \in Seq(Row)
    <3>1. rows \in Seq(Row)
      BY <1>1 DEF TypeOK
    <3>2. Append(rows, row) \in Seq(Row)
      BY <1>4, <3>1, RowAdded
    <3> QED BY <1>1, <3>1, <3>2
  <2> QED BY <1>1, <2>1, <2>2, <2>3 DEF TypeOK
<1>6. PlaceOf(r)' /\ SentOf(r)' /\ StopOf(r)' /\ HeldOf(r)'
  BY <1>1, <1>2, Fresh DEF PlaceOf, SentOf, StopOf, HeldOf
<1>7. TurnInv'
  BY <1>1, <1>3, <1>6, OneTurn, Fresh
<1>8. /\ Remembers(r)' /\ outcome'[r] \notin {"none", "left"}
      /\ \A q \in Turns : Remembers(q)' <=> Remembers(q)
  BY <1>1, Fresh DEF PlaceOf, Remembers
<1>9. ASSUME NEW i \in DOMAIN rows, rows'[i] = rows[i] PROVE RowOf(i)'
  <2> DEFINE q == rows[i].of
  <2>1. q \in Turns /\ RowOf(i)
    BY <1>1, RowTypes DEF CInv, RowInv
  <2>2. CASE q = r
    <3>1. rows[i].role # "assistant"
      BY <1>1, <2>1, <2>2, Fresh DEF RowOf
    <3> QED BY <1>2, <1>9, <2>2, <3>1 DEF RowOf
  <2>3. CASE q # r
    <3>1. pc'[q] = pc[q] /\ reported'[q] = reported[q]
      BY <1>3, <2>1, <2>3 DEF Alone
    <3> QED BY <1>1, <1>8, <1>9, <2>1, <3>1 DEF RowOf
  <2> QED BY <2>2, <2>3
<1>10. \A q \in wiped' : pc'[q] \in {"answer", "done"}
  BY <1>1, <1>2, <1>3 DEF CInv, RowInv, Alone, TypeOK
<1>11. CASE reported' = [reported EXCEPT ![r] = "unpersisted"] /\ rows' = rows
  <2>1. RowInv'
    BY <1>9, <1>10, <1>11 DEF RowInv
  <2>2. reported'[r] = "unpersisted"
    BY <1>1, <1>11 DEF TypeOK
  <2>3. \A q \in Turns : /\ HasExchange(q) => HasExchange(q)'
                         /\ HasQuestion(q) => HasQuestion(q)'
    BY <1>11 DEF HasExchange, HasQuestion
  <2>4. PairInv'
    BY <1>1, <1>2, <1>3, <2>2, <2>3 DEF CInv, PairInv, Alone
  <2> QED BY <1>5, <1>7, <2>1, <2>4 DEF CInv
<1>12. CASE reported' = [reported EXCEPT ![r] = "persisted"] /\ rows' = Append(rows, row)
  <2>1. reported'[r] = "persisted"
    BY <1>1, <1>12 DEF TypeOK
  <2>2. /\ n \notin DOMAIN rows /\ DOMAIN rows' = DOMAIN rows \cup {n}
        /\ \A i \in DOMAIN rows : rows'[i] = rows[i] /\ i < n
        /\ rows'[n] = row
        /\ \A q \in Turns \ {r} : /\ HasQuestion(q) => HasQuestion(q)'
                                  /\ HasExchange(q) => HasExchange(q)'
    BY <1>1, <1>4, <1>12, RowsGrow
  <2>3. RowInv'
    <3>1. ASSUME NEW i, i = n PROVE RowOf(i)'
      BY <1>1, <1>2, <1>8, <2>1, <2>2, <3>1 DEF RowOf
    <3> QED BY <1>9, <1>10, <2>2, <3>1 DEF RowInv
  <2>4. ASSUME r \notin wiped PROVE HasExchange(r)'
    <3>1. HasQuestion(r)
      BY <1>1, <2>4 DEF CInv, PairInv
    <3>2. PICK i \in DOMAIN rows :
            rows[i].role = "user" /\ \A k \in DOMAIN rows : rows[k].of = r <=> k = i
      BY <3>1 DEF HasQuestion
    <3>3. \A k \in DOMAIN rows' : rows'[k].of = r <=> k \in {i, n}
      BY <2>2, <3>2
    <3>4. /\ i \in DOMAIN rows' /\ n \in DOMAIN rows' /\ i < n
          /\ rows'[i].role = "user" /\ rows'[n].role = "assistant"
      BY <2>2, <3>2
    <3> QED BY <3>3, <3>4 DEF HasExchange
  <2>5. ASSUME NEW q \in Turns \ wiped, q # r
        PROVE  /\ pc'[q] = "answer" => HasQuestion(q)'
               /\ reported'[q] = "persisted" => HasExchange(q)'
    BY <1>3, <2>2, <2>5 DEF CInv, PairInv, Alone
  <2>6. PairInv'
    BY <1>1, <1>2, <2>4, <2>5 DEF PairInv
  <2> QED BY <1>5, <1>7, <2>3, <2>6 DEF CInv
<1> QED BY <1>1, <1>11, <1>12

-----------------------------------------------------------------------------
(* What is pressed *)

(* A Stop that is confirmed has set every token it names.                  *)
LEMMA StopStep ==
  ASSUME CInv, NEW S \in SUBSET Turns, Press, Cancels(S),
         UNCHANGED <<pc, kind, answer, registry, record, context, reported, privacy, state>>
  PROVE  CInv'
<1>1. /\ cancelled' = cancelled \cup S /\ asked' = asked \cup S
      /\ presses < MaxPresses /\ presses' = presses + 1
      /\ UNCHANGED <<pc, kind, registry, pieces, shown, outcome, reported, rows, context,
                     state, privacy, late, wiped>>
  BY DEF Press, Cancels, answer, record
<1>2. TypeOK /\ TurnInv /\ RowInv /\ PairInv
  BY DEF CInv
<1>3. presses' \in 0..MaxPresses
  BY <1>1, <1>2, ChatAssumption DEF TypeOK
<1>4. TypeOK'
  BY <1>1, <1>2, <1>3 DEF TypeOK
<1>5. ASSUME NEW q \in Turns
      PROVE  PlaceOf(q)' /\ SentOf(q)' /\ StopOf(q)' /\ HeldOf(q)'
  <2>1. PlaceOf(q) /\ SentOf(q) /\ StopOf(q) /\ HeldOf(q)
    BY <1>2 DEF TurnInv
  <2>2. PlaceOf(q)'
    BY <1>1, <2>1 DEF PlaceOf, Remembers
  <2> QED BY <1>1, <2>1, <2>2 DEF SentOf, StopOf, HeldOf
<1>6. TurnInv'
  BY <1>1, <1>2, <1>5 DEF TurnInv
<1>7. RowInv'
  BY <1>1, <1>2 DEF RowInv, RowOf, Remembers
<1>8. PairInv'
  BY <1>1, <1>2 DEF PairInv, HasQuestion, HasExchange
<1> QED BY <1>4, <1>6, <1>7, <1>8 DEF CInv

(* Clear chat empties the table under whoever is writing to it.            *)
LEMMA ResetStep ==
  ASSUME CInv, Reset
  PROVE  CInv'
<1>1. /\ rows' = << >> /\ wiped' = wiped \cup {r \in Turns : pc[r] \in {"answer", "done"}}
      /\ presses < MaxPresses /\ presses' = presses + 1
      /\ UNCHANGED <<pc, kind, registry, cancelled, asked, pieces, shown, outcome,
                     reported, context, state, privacy, late>>
  BY DEF Reset, Press, answer, stops
<1>2. TypeOK /\ TurnInv /\ RowInv
  BY DEF CInv
<1>3. DOMAIN rows' = {} /\ rows' \in Seq(Row)
  <2>1. DOMAIN << >> = {} /\ << >> \in Seq(Row)
    OBVIOUS
  <2> QED BY <1>1, <2>1
<1>4. TypeOK'
  <2>1. presses' \in 0..MaxPresses
    BY <1>1, <1>2, ChatAssumption DEF TypeOK
  <2>2. wiped' \subseteq Turns
    BY <1>1, <1>2 DEF TypeOK
  <2> QED BY <1>1, <1>2, <1>3, <2>1, <2>2 DEF TypeOK
<1>5. ASSUME NEW q \in Turns
      PROVE  PlaceOf(q)' /\ SentOf(q)' /\ StopOf(q)' /\ HeldOf(q)'
  <2>1. PlaceOf(q) /\ SentOf(q) /\ StopOf(q) /\ HeldOf(q)
    BY <1>2 DEF TurnInv
  <2>2. PlaceOf(q)'
    BY <1>1, <2>1 DEF PlaceOf, Remembers
  <2> QED BY <1>1, <2>1, <2>2 DEF SentOf, StopOf, HeldOf
<1>6. TurnInv'
  BY <1>1, <1>2, <1>5 DEF TurnInv
<1>7. RowInv'
  BY <1>1, <1>2, <1>3 DEF RowInv
<1>8. \A q \in Turns \ wiped' : pc'[q] # "answer" /\ reported'[q] # "persisted"
  BY <1>1, <1>2 DEF TurnInv, PlaceOf
<1>9. PairInv'
  BY <1>8 DEF PairInv
<1> QED BY <1>4, <1>6, <1>7, <1>9 DEF CInv

(* Privacy mode and the rest of the program change nothing of a request.   *)
LEMMA OtherStep ==
  ASSUME CInv, SetPrivacy \/ Elsewhere \/ UNCHANGED vars
  PROVE  CInv'
<1>1. UNCHANGED <<pc, kind, registry, cancelled, asked, pieces, shown, outcome,
                  reported, rows, context, late, wiped>>
  BY DEF SetPrivacy, Elsewhere, Press, answer, stops, record, vars
<1>2. TypeOK /\ TurnInv /\ RowInv /\ PairInv
  BY DEF CInv
<1>3. presses' \in 0..MaxPresses
  BY <1>2, ChatAssumption DEF TypeOK, SetPrivacy, Elsewhere, Press, vars
<1>4. state' \in RuntimeStates
  <2>1. state \in RuntimeStates
    BY <1>2 DEF TypeOK
  <2>2. CASE SetPrivacy \/ UNCHANGED vars
    BY <2>1, <2>2 DEF SetPrivacy, vars
  <2>3. CASE Elsewhere
    BY <2>1, <2>3, StateType, StatesNamed DEF Elsewhere
  <2> QED BY <2>2, <2>3
<1>5. privacy' \in BOOLEAN
  <2>1. privacy \in BOOLEAN
    BY <1>2 DEF TypeOK
  <2>2. privacy' = ~privacy \/ privacy' = privacy
    BY DEF SetPrivacy, Elsewhere, vars
  <2> QED BY <2>1, <2>2
<1>6. TypeOK'
  BY <1>1, <1>2, <1>3, <1>4, <1>5 DEF TypeOK
<1>7. TurnInv'
  <2>1. ASSUME NEW q \in Turns
        PROVE  PlaceOf(q)' /\ SentOf(q)' /\ StopOf(q)' /\ HeldOf(q)'
    <3>1. PlaceOf(q) /\ SentOf(q) /\ StopOf(q) /\ HeldOf(q)
      BY <1>2 DEF TurnInv
    <3>2. PlaceOf(q)'
      BY <1>1, <3>1 DEF PlaceOf, Remembers
    <3> QED BY <1>1, <3>1, <3>2 DEF SentOf, StopOf, HeldOf
  <2> QED BY <1>1, <1>2, <2>1 DEF TurnInv
<1>8. RowInv'
  BY <1>1, <1>2 DEF RowInv, RowOf, Remembers
<1>9. PairInv'
  BY <1>1, <1>2 DEF PairInv, HasQuestion, HasExchange
<1> QED BY <1>6, <1>7, <1>8, <1>9 DEF CInv

(* Every step of the program.                                              *)
LEMMA CInvStep ==
  ASSUME CInv, [Next]_vars
  PROVE  CInv'
<1>1. ASSUME NEW r \in Turns, Ask(r) \/ Leaves(r) \/ Runs(r)
      PROVE  CInv'
  BY <1>1, AskWholeStep, AskStreamStep, StartStep, AskCommandStep, HistoryStep, ChunkStep,
     CollectStep, YieldStep, FinishStep, CheckRecordStep, WriteQuestionStep,
     WriteAnswerStep
     DEF Ask, Leaves, Runs
<1>2. ASSUME NEW r \in Turns, StopOne(r) PROVE CInv'
  BY <1>2, StopStep DEF StopOne
<1>3. CASE StopAll
  <2>1. registry \in SUBSET Turns
    BY DEF CInv, TypeOK
  <2> QED BY <1>3, <2>1, StopStep DEF StopAll
<1>4. CASE Reset
  BY <1>4, ResetStep
<1>5. CASE SetPrivacy \/ Elsewhere \/ UNCHANGED vars
  BY <1>5, OtherStep
<1> QED BY <1>1, <1>2, <1>3, <1>4, <1>5 DEF Next

-----------------------------------------------------------------------------
(* The theorems *)

(* Where every request stands, and what the table, the registry and the    *)
(* tokens hold of it.                                                      *)
THEOREM Bookkeeping == Spec => []CInv
<1>1. Init => CInv
  BY InitCInv
<1>2. CInv /\ [Next]_vars => CInv'
  BY CInvStep
<1> QED BY <1>1, <1>2, PTL DEF Spec

(* Type correctness.                                                       *)
THEOREM TypeCorrect == Spec => []TypeOK
<1>1. CInv => TypeOK
  BY DEF CInv
<1> QED BY <1>1, Bookkeeping, PTL

(* After a Stop was confirmed at most one piece more is sent, and the      *)
(* registry holds nothing that has ended but what was left at its start.   *)
THEOREM StopWorks == Spec => []StopReaches
<1>1. ASSUME CInv PROVE StopReaches
  <2>1. TypeOK /\ \A r \in Turns : StopOf(r) /\ HeldOf(r) /\ PlaceOf(r)
    BY <1>1 DEF CInv, TurnInv
  <2>2. StopIsPrompt
    BY <2>1 DEF StopIsPrompt, StopOf
  <2>3. RegistryHoldsTheRunning
    BY <2>1 DEF RegistryHoldsTheRunning, HeldOf, TypeOK
  <2> QED BY <2>2, <2>3 DEF StopReaches
<1> QED BY <1>1, Bookkeeping, PTL

(* What the table holds is what was shown, whole or up to the Stop, and    *)
(* what a request reports of its exchange is true, whatever is cleared or  *)
(* switched off meanwhile.                                                 *)
THEOREM TheHistoryIsHonest == Spec => []HistoryIsHonest
<1>1. ASSUME CInv PROVE HistoryIsHonest
  <2>1. TypeOK /\ \A r \in Turns : SentOf(r) /\ PlaceOf(r)
    BY <1>1 DEF CInv, TurnInv
  <2>2. \A i \in DOMAIN rows : RowOf(i) /\ rows[i].of \in Turns
    BY <1>1, <2>1, RowTypes DEF CInv, RowInv
  <2>3. KeptIsShown
    <3> SUFFICES ASSUME NEW i \in DOMAIN rows, rows[i].role = "assistant",
                        kind[rows[i].of] = "stream"
                 PROVE  /\ rows[i].size = shown[rows[i].of] /\ shown[rows[i].of] > 0
                        /\ outcome[rows[i].of] \in {"complete", "stopped"}
      BY DEF KeptIsShown
    <3> DEFINE r == rows[i].of
    <3>1. /\ reported[r] = "persisted" /\ Remembers(r) /\ rows[i].size = pieces[r]
          /\ r \in Turns
      BY <2>2 DEF RowOf
    <3>2. pieces[r] > 0 /\ outcome[r] \in {"complete", "stopped"}
      BY <3>1 DEF Remembers
    <3>3. pc[r] = "done"
      BY <2>1, <3>1 DEF PlaceOf
    <3>4. pieces[r] = shown[r]
      BY <2>1, <3>1, <3>2, <3>3 DEF SentOf
    <3> QED BY <3>1, <3>2, <3>4
  <2>4. PersistedIsHonest
    <3>1. \A r \in Turns : reported[r] = "persisted" /\ r \notin wiped => HasExchange(r)
      BY <1>1 DEF CInv, PairInv
    <3>2. ASSUME NEW r \in Turns, reported[r] = "unpersisted",
                 NEW i \in DOMAIN rows, rows[i].of = r
          PROVE  rows[i].role = "user"
      BY <2>1, <2>2, <3>2, RowTypes DEF RowOf
    <3> QED BY <3>1, <3>2 DEF PersistedIsHonest
  <2> QED BY <2>3, <2>4 DEF HistoryIsHonest
<1> QED BY <1>1, Bookkeeping, PTL

=============================================================================

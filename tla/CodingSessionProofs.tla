------------------------ MODULE CodingSessionProofs ------------------------
(***************************************************************************)
(* Proofs about the work that goes on after its request was answered.  For *)
(* any number of decisions, model calls, bad turns and edits of the        *)
(* declaration: the types, that one thread has the coding task in its      *)
(* hands, that what needs approval runs on its own grant, and that every   *)
(* ending is recorded.  For any number of downloads, voices and presses:   *)
(* that what the panels say of an installation is so, and that a file that *)
(* is whole stays whole.  At the end, what comes before a task's first     *)
(* edit, for any folders, plans, acts of the user and faults: that a new   *)
(* project is what was agreed (NewProject; NpInv), and that a start that   *)
(* fails leaves what others have and says what remains (Isolation; IsInv). *)
(***************************************************************************)
EXTENDS MCBackground, MCTaskStart, Integers, Sequences, FiniteSetTheorems, TLAPS

-----------------------------------------------------------------------------
(* The inductive invariant *)

(* A thread that is on its way out has a way out: one of the loop's ends,  *)
(* or the exception nobody expected (_finish, _stopped, _failed, _limit).  *)
EndInv ==
  \A i \in Threads : th[i].pc \in {"clean", "write"} => th[i].out \in Over \cup {"broken"}

(* Before a task is started nothing works for it, waits or is granted      *)
(* (start_task).                                                           *)
FreshInv ==
  mem = "awaiting_plan_approval" \/ disk \in {"none", "awaiting_plan_approval"} =>
    (\A i \in Threads : th[i].pc = "off") /\ pending = NoKey /\ tokens = {} /\ ~live

(* The thread that carries out what the user granted, until the outcome is *)
(* recorded and what is left of the grant is revoked (approve).            *)
Holds(i) ==
  \/ th[i].pc = "exec"
  \/ th[i].pc \in CarriedOut \cup {"record"} /\ th[i].from = "approve"

(* A grant exists only in the hands of the thread it was given to, or of   *)
(* nobody, in a task that nothing can bring back (grant_once).             *)
GrantInv ==
  \/ tokens = {}
  \/ \E i \in Threads : Holds(i) /\ tokens \subseteq {th[i].grant}
  \/ pending = NoKey /\ \A i \in Threads : th[i].pc \notin Working

(* Only an approved decision gets as far as carrying a proposal out again. *)
ExecInv == \A i \in Threads : th[i].pc = "exec" => th[i].granted

(* While a record says "running", the task's own thread is on its way to   *)
(* the place where it will say otherwise (_run_and_report).                *)
RunningInv ==
  /\ th[0].pc \notin {"approve", "exec"}
  /\ disk = "running" \/ mem = "running" => th[0].pc \in Working \cup {"paused"}

Control ==
  EndInv /\ FreshInv /\ GrantInv /\ ExecInv /\ RunningInv /\ OneHand /\ RunsAsGranted

IInv == TypeOK /\ Control

-----------------------------------------------------------------------------
(* Types *)

(* Whatever is proposed, its approval key is a key (approval_key).         *)
LEMMA KeyType ==
  ASSUME TypeOK, NEW k \in Kinds
  PROVE  KeyNow(k) \in Keys
BY DEF TypeOK, KeyNow, Keys, Versions

(* A thread that does nothing is a thread (Resting).                       *)
LEMMA RestingType == Resting \in ThreadStates
<1>1. NoKey \in Keys
  BY DEF NoKey, Keys
<1> QED BY <1>1, SessionBounds DEF Resting, ThreadStates, Places

(* The initial state has every variable in its type.                       *)
LEMMA TypeInit == Init => TypeOK
<1> SUFFICES ASSUME Init PROVE TypeOK
  OBVIOUS
<1>1. NoKey \in Keys
  BY DEF NoKey, Keys
<1>2. th \in [Threads -> ThreadStates]
  BY RestingType DEF Init
<1>3. steps \in 0 .. Steps /\ edits \in 0 .. MaxEdits /\ decided \in 0 .. Decisions
  BY SessionBounds DEF Init
<1>4. cmd \in [Threads -> {"none", "tracked", "spawned", "running", "ended"}]
  BY DEF Init, NoCommand
<1>5. /\ ledger \subseteq Threads /\ cancelled \subseteq Threads
      /\ ver \in Versions /\ tokens \subseteq Keys
  BY DEF Init, Versions
<1>6. disk \in TaskStates \cup {"none", "deleted"} /\ mem \in TaskStates
  BY DEF Init, TaskStates
<1> QED BY <1>1, <1>2, <1>3, <1>4, <1>5, <1>6 DEF Init, TypeOK

(* Thread i, and no other, goes on as r.                                   *)
Becomes(i, r) == r \in ThreadStates /\ th' = [th EXCEPT ![i] = r]

(* What a thread becomes when it has an outcome to record, and when the    *)
(* model's reply was no turn.                                              *)
WithOutcome(i, from, out, key) ==
  [th[i] EXCEPT !.pc = "record", !.from = from, !.kind = "none", !.bad = 0,
                !.out = out, !.key = key]
AfterBadTurn(i) == [th[i] EXCEPT !.pc = "top", !.bad = th[i].bad + 1]

(* A thread on its way out is a thread (_finish, _stopped, _failed).       *)
LEMMA EndBecomes ==
  ASSUME TypeOK, NEW i \in Threads, NEW out \in Over \cup {"broken"}, End(i, out)
  PROVE  Becomes(i, [Resting EXCEPT !.pc = "clean", !.out = out])
<1>1. "clean" \in Places
  BY DEF Places
<1>2. [Resting EXCEPT !.pc = "clean", !.out = out] \in ThreadStates
  BY <1>1, RestingType DEF ThreadStates
<1> QED BY <1>2 DEF End, Becomes

(* A thread about to return is a thread (run, approve).                    *)
LEMMA ReturnBecomes ==
  ASSUME TypeOK, NEW i \in Threads, NEW to \in Places, Return(i, to)
  PROVE  Becomes(i, [Resting EXCEPT !.pc = to])
<1>1. [Resting EXCEPT !.pc = to] \in ThreadStates
  BY RestingType DEF ThreadStates
<1> QED BY <1>1 DEF Return, Becomes

(* A thread that moves on is a thread.                                     *)
LEMMA GotoBecomes ==
  ASSUME TypeOK, NEW i \in Threads, NEW to \in Places, Goto(i, to)
  PROVE  Becomes(i, [th[i] EXCEPT !.pc = to])
<1>1. th[i] \in ThreadStates
  BY DEF TypeOK
<1>2. [th[i] EXCEPT !.pc = to] \in ThreadStates
  BY <1>1 DEF ThreadStates
<1> QED BY <1>2 DEF Goto, Becomes

(* A thread that begins run() is a thread.                                 *)
LEMMA RunBecomes ==
  ASSUME TypeOK, NEW i \in Threads, Run(i)
  PROVE  Becomes(i, [Resting EXCEPT !.pc = "top"])
<1>1. "top" \in Places
  BY DEF Places
<1>2. [Resting EXCEPT !.pc = "top"] \in ThreadStates
  BY <1>1, RestingType DEF ThreadStates
<1> QED BY <1>2 DEF Run, Becomes

(* A thread whose step was carried out is a thread.                        *)
LEMMA DoneBecomes ==
  ASSUME TypeOK, NEW i \in Threads, Done(i)
  PROVE  Becomes(i, [th[i] EXCEPT !.pc = "record", !.kind = "none", !.key = NoKey])
<1>1. NoKey \in Keys /\ "record" \in Places
  BY DEF NoKey, Keys, Places
<1>2. th[i] \in ThreadStates
  BY DEF TypeOK
<1>3. [th[i] EXCEPT !.pc = "record", !.kind = "none", !.key = NoKey] \in ThreadStates
  BY <1>1, <1>2 DEF ThreadStates
<1> QED BY <1>3 DEF Done, Becomes

(* A thread about to carry a proposal out is a thread (_dispatch).         *)
LEMMA DispatchBecomes ==
  ASSUME TypeOK, NEW i \in Threads, NEW from \in {"run", "approve"},
         NEW k \in Kinds, NEW to \in Places, Dispatch(i, from, k, to)
  PROVE  Becomes(i, [th[i] EXCEPT !.pc = to, !.from = from, !.kind = k, !.bad = 0,
                                  !.key = KeyNow(k)])
<1>1. KeyNow(k) \in Keys /\ 0 \in 0 .. BadTurns - 1
  BY KeyType, SessionBounds
<1>2. th[i] \in ThreadStates
  BY DEF TypeOK
<1>3. [th[i] EXCEPT !.pc = to, !.from = from, !.kind = k, !.bad = 0,
                    !.key = KeyNow(k)] \in ThreadStates
  BY <1>1, <1>2 DEF ThreadStates
<1> QED BY <1>3 DEF Dispatch, Becomes

(* A thread with an outcome is a thread (execute_proposal).                *)
LEMMA OutcomeBecomes ==
  ASSUME TypeOK, NEW i \in Threads, NEW from \in {"run", "approve"}, NEW k \in Kinds,
         NEW out \in {"ok", "completed", "request"}, Outcome(i, from, k, out)
  PROVE  \E key \in Keys : Becomes(i, WithOutcome(i, from, out, key))
<1> DEFINE key == IF out = "request" THEN KeyNow(k) ELSE NoKey
<1>1. key \in Keys
  BY KeyType DEF NoKey, Keys
<1>2. /\ 0 \in 0 .. BadTurns - 1 /\ "record" \in Places
      /\ out \in {"ok", "request", "broken"} \cup Over
  BY SessionBounds DEF Places, Over
<1>3. th[i] \in ThreadStates
  BY DEF TypeOK
<1>4. th' = [th EXCEPT ![i] = WithOutcome(i, from, out, key)]
  BY DEF Outcome, WithOutcome
<1> HIDE DEF key
<1>5. WithOutcome(i, from, out, key) \in ThreadStates
  BY <1>1, <1>2, <1>3 DEF ThreadStates, WithOutcome
<1> QED BY <1>1, <1>4, <1>5 DEF Becomes

(* A thread that becomes another thread state keeps the threads' type.     *)
LEMMA BecomesType ==
  ASSUME TypeOK, NEW i \in Threads, NEW r, Becomes(i, r)
  PROVE  th' \in [Threads -> ThreadStates]
BY DEF Becomes, TypeOK

(* Carrying a proposal out keeps the types, and its thread goes on with    *)
(* it (execute_proposal).                                                  *)
LEMMA ExecuteType ==
  ASSUME TypeOK, NEW i \in Threads, NEW from \in {"run", "approve"}, NEW k \in Kinds,
         Execute(i, from, k)
  PROVE  /\ th' \in [Threads -> ThreadStates]
         /\ tokens' \subseteq Keys /\ pv' \in {"none", "spawned", "up"}
<1>1. th' \in [Threads -> ThreadStates]
  <2>1. CASE \E out \in {"ok", "completed", "request"} : Outcome(i, from, k, out)
    <3>1. PICK out \in {"ok", "completed", "request"} : Outcome(i, from, k, out)
      BY <2>1
    <3>2. PICK key \in Keys : Becomes(i, WithOutcome(i, from, out, key))
      BY <3>1, OutcomeBecomes
    <3> QED BY <3>2, BecomesType
  <2>2. CASE \E to \in {"track", "remove", "serve"} : Dispatch(i, from, k, to)
    <3>1. PICK to \in {"track", "remove", "serve"} : Dispatch(i, from, k, to)
      BY <2>2
    <3>2. to \in Places
      BY DEF Places
    <3> QED BY <3>1, <3>2, DispatchBecomes, BecomesType
  <2> QED BY <2>1, <2>2 DEF Execute, KeyedKinds
<1>2. tokens' \subseteq Keys
  <2>1. tokens' \subseteq tokens
    BY DEF Execute
  <2> QED BY <2>1 DEF TypeOK
<1>3. pv' \in {"none", "spawned", "up"}
  BY DEF Execute, TypeOK
<1> QED BY <1>1, <1>2, <1>3

(* The loop keeps the types (TaskRunner.run).                              *)
LEMMA LoopType ==
  ASSUME TypeOK, NEW i \in Threads, Top(i) \/ Ask(i) \/ Propose(i)
  PROVE  TypeOK'
<1> USE DEF record, server, signals, runner, procs, world
<1>1. CASE Top(i)
  <2>1. th' \in [Threads -> ThreadStates]
    BY <1>1, EndBecomes, GotoBecomes, BecomesType DEF Top, Places, Over
  <2>2. steps' \in 0 .. Steps
    BY <1>1, SessionBounds DEF Top, TypeOK
  <2> QED BY <1>1, <2>1, <2>2 DEF Top, TypeOK
<1>2. CASE Ask(i)
  <2>1. th' \in [Threads -> ThreadStates]
    <3>1. CASE End(i, "failed") \/ End(i, "stopped")
      BY <3>1, EndBecomes, BecomesType DEF Over
    <3>2. CASE Goto(i, "top") \/ Goto(i, "propose")
      BY <3>2, GotoBecomes, BecomesType DEF Places
    <3>3. CASE /\ th[i].bad + 1 < BadTurns
               /\ th' = [th EXCEPT ![i] = [@ EXCEPT !.pc = "top", !.bad = th[i].bad + 1]]
      <4>1. th[i] \in ThreadStates
        BY DEF TypeOK
      <4>2. th[i].bad + 1 \in 0 .. BadTurns - 1 /\ "top" \in Places
        <5>1. th[i].bad \in 0 .. BadTurns - 1
          BY <4>1 DEF ThreadStates
        <5> QED BY <3>3, <5>1, SessionBounds DEF Places
      <4>3. AfterBadTurn(i) \in ThreadStates
        BY <4>1, <4>2 DEF ThreadStates, AfterBadTurn
      <4>4. th' = [th EXCEPT ![i] = AfterBadTurn(i)]
        BY <3>3 DEF AfterBadTurn
      <4> QED BY <4>3, <4>4, BecomesType DEF Becomes
    <3> QED BY <1>2, <3>1, <3>2, <3>3 DEF Ask
  <2> QED BY <1>2, <2>1 DEF Ask, TypeOK
<1>3. CASE Propose(i)
  <2>1. /\ th' \in [Threads -> ThreadStates]
        /\ tokens' \subseteq Keys /\ pv' \in {"none", "spawned", "up"}
    <3>1. CASE \E k \in Kinds : Execute(i, "run", k)
      BY <3>1, ExecuteType
    <3>2. CASE (End(i, "stopped") \/ Escape(i)) /\ UNCHANGED <<tokens, pv>>
      <4>1. th' \in [Threads -> ThreadStates]
        BY <3>2, EndBecomes, ReturnBecomes, BecomesType DEF Escape, Places, Over
      <4> QED BY <3>2, <4>1 DEF TypeOK
    <3> QED BY <1>3, <3>1, <3>2 DEF Propose
  <2> QED BY <1>3, <2>1 DEF Propose, TypeOK
<1> QED BY <1>1, <1>2, <1>3

(* Carrying out, command and preview keep the types (_run_command,         *)
(* PreviewSession.start).                                                  *)
LEMMA CarryType ==
  ASSUME TypeOK, NEW i \in Threads,
         \/ Remove(i) \/ Track(i) \/ Spawn(i) \/ Identify(i) \/ Wait(i)
         \/ Serve(i) \/ Adopt(i) \/ Ready(i)
  PROVE  TypeOK'
<1> USE DEF record, server, signals, runner, procs, world
<1>1. th' \in [Threads -> ThreadStates]
  <2>1. CASE Done(i)
    BY <2>1, DoneBecomes, BecomesType
  <2>2. CASE \E to \in Places : Goto(i, to)
    BY <2>2, GotoBecomes, BecomesType
  <2> QED BY <2>1, <2>2
          DEF Remove, Track, Spawn, Identify, Wait, Serve, Adopt, Ready, Places
<1>2. CASE Remove(i)
  BY <1>1, <1>2 DEF Remove, TypeOK
<1>3. CASE Track(i)
  BY <1>1, <1>3 DEF Track, TypeOK
<1>4. CASE Spawn(i)
  BY <1>1, <1>4 DEF Spawn, Forget, TypeOK
<1>5. CASE Identify(i)
  BY <1>1, <1>5 DEF Identify, TypeOK
<1>6. CASE Wait(i)
  BY <1>1, <1>6 DEF Wait, Forget, TypeOK
<1>7. CASE Serve(i)
  BY <1>1, <1>7 DEF Serve, TypeOK
<1>8. CASE Adopt(i)
  BY <1>1, <1>8 DEF Adopt, TypeOK
<1>9. CASE Ready(i)
  BY <1>1, <1>9 DEF Ready, TypeOK
<1> QED BY <1>2, <1>3, <1>4, <1>5, <1>6, <1>7, <1>8, <1>9

(* Recording, pausing, ending and the continuation of a decision keep the  *)
(* types (_record, _finish, _continue, approve).                           *)
LEMMA EndType ==
  ASSUME TypeOK, EndInv, NEW i \in Threads,
         \/ Record(i) \/ Pause(i) \/ Paused(i) \/ Clean(i) \/ Write(i) \/ Leave(i)
         \/ Approve(i) \/ Exec(i)
  PROVE  TypeOK'
<1> USE DEF record, server, signals, runner, procs, world
<1>0. th[i] \in ThreadStates /\ NoKey \in Keys
  BY DEF TypeOK, NoKey, Keys
<1>1. CASE Record(i)
  <2>1. th' \in [Threads -> ThreadStates]
    <3>1. CASE Goto(i, "pause") \/ End(i, "completed") \/ Run(i)
      BY <3>1, GotoBecomes, EndBecomes, RunBecomes, BecomesType DEF Places, Over
    <3>2. CASE th' = [th EXCEPT ![i] = [Resting EXCEPT !.pc = "propose"]]
      <4>1. Return(i, "propose")
        BY <3>2 DEF Return
      <4> QED BY <4>1, ReturnBecomes, BecomesType DEF Places
    <3> QED BY <1>1, <3>1, <3>2 DEF Record
  <2>2. tokens' \subseteq Keys
    BY <1>1 DEF Record, TypeOK
  <2> QED BY <1>1, <2>1, <2>2 DEF Record, TypeOK
<1>2. CASE Pause(i)
  <2>1. th' \in [Threads -> ThreadStates]
    BY <1>2, ReturnBecomes, BecomesType DEF Pause, Places
  <2>2. pending' \in Keys
    BY <1>0, <1>2 DEF Pause, ThreadStates
  <2> QED BY <1>2, <2>1, <2>2 DEF Pause, TypeOK
<1>3. CASE Paused(i)
  <2>1. th' \in [Threads -> ThreadStates]
    BY <1>3, GotoBecomes, BecomesType DEF Paused, Places
  <2> QED BY <1>3, <2>1 DEF Paused, TypeOK, TaskStates
<1>4. CASE Clean(i)
  <2>1. th' \in [Threads -> ThreadStates]
    BY <1>4, GotoBecomes, BecomesType DEF Clean, Places
  <2> QED BY <1>4, <2>1 DEF Clean, StopPreview, StopOwner, TypeOK
<1>5. CASE Write(i)
  <2>1. th' \in [Threads -> ThreadStates]
    BY <1>5, ReturnBecomes, BecomesType DEF Write, Places
  <2>2. th[i].out \in Over \cup {"broken"}
    BY <1>5 DEF Write, At, EndInv
  <2>3. Ending(th[i].out) \in TaskStates
    BY <2>2 DEF Ending, Over, TaskStates
  <2> QED BY <1>5, <2>1, <2>2, <2>3 DEF Write, TypeOK
<1>6. CASE Leave(i)
  <2>1. th' \in [Threads -> ThreadStates]
    BY <1>6, RestingType, BecomesType DEF Leave, Becomes
  <2> QED BY <1>6, <2>1 DEF Leave, TypeOK
<1>7. CASE Approve(i)
  <2>1. th' \in [Threads -> ThreadStates]
    <3>1. CASE Return(i, "leave") \/ Run(i)
      BY <3>1, ReturnBecomes, RunBecomes, BecomesType DEF Places
    <3>2. CASE /\ pending # NoKey
               /\ th' = [th EXCEPT ![i] = [@ EXCEPT !.pc = "exec", !.kind = pending.kind,
                                                    !.grant = pending]]
      <4>1. pending \in Keys /\ pending.kind \in Kinds \cup {"none"} /\ "exec" \in Places
        BY DEF TypeOK, Keys, Places
      <4>2. [th[i] EXCEPT !.pc = "exec", !.kind = pending.kind, !.grant = pending]
              \in ThreadStates
        BY <1>0, <4>1 DEF ThreadStates
      <4> QED BY <3>2, <4>2 DEF TypeOK
    <3> QED BY <1>7, <3>1, <3>2 DEF Approve
  <2>2. tokens' \subseteq Keys
    BY <1>7 DEF Approve, TypeOK
  <2> QED BY <1>0, <1>7, <2>1, <2>2 DEF Approve, TypeOK
<1>8. CASE Exec(i)
  <2>1. /\ th' \in [Threads -> ThreadStates]
        /\ tokens' \subseteq Keys /\ pv' \in {"none", "spawned", "up"}
    <3>1. CASE Return(i, "leave") /\ UNCHANGED <<tokens, pv>>
      <4>1. th' \in [Threads -> ThreadStates]
        BY <3>1, ReturnBecomes, BecomesType DEF Places
      <4> QED BY <3>1, <4>1 DEF TypeOK
    <3>2. CASE Execute(i, "approve", th[i].kind)
      <4>1. th[i].kind \in Kinds
        BY <3>2 DEF Execute, Kinds, FreeKinds
      <4> QED BY <3>2, <4>1, ExecuteType
    <3> QED BY <1>8, <3>1, <3>2 DEF Exec
  <2> QED BY <1>8, <2>1 DEF Exec, TypeOK
<1> QED BY <1>1, <1>2, <1>3, <1>4, <1>5, <1>6, <1>7, <1>8

(* The endpoints keep the types (coding_routes, start_task, decide).       *)
LEMMA EndpointType ==
  ASSUME TypeOK, LoopStep \/ Requests
  PROVE  TypeOK'
<1> USE DEF record, server, signals, runner, procs, world
<1>1. CASE LoopStep
  BY <1>1 DEF LoopStep, StopThePreview, StopPreview, StopTheCommands, StopOwner,
     StopUnregisters, ReadRecord, StopWrites, TypeOK, TaskStates
<1>2. CASE Plan
  BY <1>2 DEF Plan, TypeOK, TaskStates
<1>3. CASE Start
  <2>1. th' \in [Threads -> ThreadStates]
    <3>1. 0 \in Threads
      BY SessionBounds DEF Threads
    <3>2. CASE Run(0)
      BY <3>1, <3>2, RunBecomes, BecomesType
    <3> QED BY <1>3, <3>2 DEF Start, TypeOK
  <2> QED BY <1>3, <2>1 DEF Start, TypeOK, TaskStates
<1>4. CASE Decide
  <2>1. decided + 1 \in Threads /\ decided' \in 0 .. Decisions
    BY <1>4, SessionBounds DEF Decide, TypeOK, Threads
  <2>2. PICK granted \in BOOLEAN :
           th' = [th EXCEPT ![decided + 1] =
                    [Resting EXCEPT !.pc = "approve", !.granted = granted]]
    BY <1>4 DEF Decide
  <2>3. "approve" \in Places
    BY DEF Places
  <2>4. [Resting EXCEPT !.pc = "approve", !.granted = granted] \in ThreadStates
    BY <2>3, RestingType DEF ThreadStates
  <2>5. th' \in [Threads -> ThreadStates]
    BY <2>1, <2>2, <2>4 DEF TypeOK
  <2> QED BY <1>4, <2>1, <2>5 DEF Decide, TypeOK
<1>5. CASE StopRequest
  BY <1>5 DEF StopRequest, ReadRecord, TypeOK
<1>6. CASE Delete
  BY <1>6 DEF Delete, TypeOK
<1> QED BY <1>1, <1>2, <1>3, <1>4, <1>5, <1>6 DEF Requests

(* Edits, time, the preview's end and a restart keep the types.            *)
LEMMA WorldType ==
  ASSUME TypeOK, World
  PROVE  TypeOK'
<1> USE DEF record, server, signals, runner, procs, world
<1>1. CASE Edit
  BY <1>1, SessionBounds DEF Edit, TypeOK
<1>2. CASE TimePasses
  BY <1>2 DEF TimePasses, TypeOK
<1>3. CASE PreviewEnds
  BY <1>3 DEF PreviewEnds, TypeOK
<1>4. CASE Restart
  <2>1. NoKey \in Keys
    BY DEF NoKey, Keys
  <2>2. th' \in [Threads -> ThreadStates]
    BY <1>4, RestingType DEF Restart
  <2>3. cmd' \in [Threads -> {"none", "tracked", "spawned", "running", "ended"}]
    BY <1>4 DEF Restart, NoCommand
  <2>4. steps' \in 0 .. Steps
    BY <1>4, SessionBounds DEF Restart
  <2>5. disk' \in TaskStates \cup {"none", "deleted"} /\ mem' \in TaskStates
    BY <1>4 DEF Restart, TypeOK, TaskStates
  <2> QED BY <1>4, <2>1, <2>2, <2>3, <2>4, <2>5 DEF Restart, TypeOK
<1> QED BY <1>1, <1>2, <1>3, <1>4 DEF World

(* Every step keeps the types.                                             *)
LEMMA TypeStep ==
  ASSUME TypeOK, EndInv, [Next]_vars
  PROVE  TypeOK'
<1>1. CASE \E i \in Threads : ThreadStep(i)
  BY <1>1, LoopType, CarryType, EndType DEF ThreadStep
<1>2. CASE LoopStep \/ Requests
  BY <1>2, EndpointType
<1>3. CASE World
  BY <1>3, WorldType
<1>4. CASE UNCHANGED vars
  BY <1>4 DEF vars, record, server, signals, runner, procs, world, TypeOK
<1> QED BY <1>1, <1>2, <1>3, <1>4 DEF Next

-----------------------------------------------------------------------------
(* Whose hands the task is in *)

(* Where a grant is held, the task is worked on (approve).                 *)
LEMMA HoldsWorking ==
  ASSUME NEW i \in Threads, Holds(i)
  PROVE  th[i].pc \in Working
BY DEF Holds, Working, CarriedOut

(* The initial state owes nothing.                                         *)
LEMMA ControlInit == Init => Control
<1> SUFFICES ASSUME Init PROVE Control
  OBVIOUS
<1>1. 0 \in Threads /\ \A i \in Threads : th[i].pc = "off"
  BY SessionBounds DEF Init, Threads, Resting
<1>2. EndInv /\ ExecInv
  BY <1>1 DEF EndInv, ExecInv
<1>3. FreshInv /\ GrantInv
  BY <1>1 DEF Init, FreshInv, GrantInv
<1>4. RunningInv
  BY <1>1 DEF Init, RunningInv
<1>5. OneHand /\ RunsAsGranted
  BY <1>1 DEF OneHand, RunsAsGranted, Working, CarriedOut
<1> QED BY <1>2, <1>3, <1>4, <1>5 DEF Control

(* The thread that has the task goes on having it, and a grant it holds is *)
(* kept or used up (the loop's steps and those of carrying out).           *)
LEMMA KeepsHand ==
  ASSUME TypeOK, Control, NEW i \in Threads,
         th[i].pc \in Working, th'[i].pc \in Working \ {"exec"},
         \A j \in Threads : j # i => th'[j] = th[j],
         th'[i].pc \in {"clean", "write"} => th'[i].out \in Over \cup {"broken"},
         th'[i].pc \in CarriedOut /\ th'[i].kind \in KeyedKinds =>
           th'[i].from = "approve" /\ th'[i].granted /\ th'[i].key = th'[i].grant,
         \/ tokens' = {}
         \/ tokens' = tokens /\ (Holds(i) => Holds(i)' /\ th'[i].grant = th[i].grant),
         pending' = pending, mem' = mem, disk' \in {disk, mem}, live' = live
  PROVE  Control'
<1> USE DEF Control
<1>1. EndInv'
  BY DEF EndInv
<1>2. FreshInv'
  <2>1. th[i].pc # "off"
    BY DEF Working, CarriedOut
  <2>2. mem # "awaiting_plan_approval" /\ disk \notin {"none", "awaiting_plan_approval"}
    BY <2>1 DEF FreshInv
  <2>3. mem' # "awaiting_plan_approval" /\ disk' \notin {"none", "awaiting_plan_approval"}
    BY <2>2 DEF TypeOK, TaskStates
  <2> QED BY <2>3 DEF FreshInv
<1>3. OneHand'
  BY DEF OneHand
<1>4. GrantInv'
  <2>1. CASE tokens' = {}
    BY <2>1 DEF GrantInv
  <2>2. CASE tokens' = tokens /\ (Holds(i) => Holds(i)' /\ th'[i].grant = th[i].grant)
    <3>1. tokens = {} \/ \E j \in Threads : Holds(j) /\ tokens \subseteq {th[j].grant}
      BY DEF GrantInv
    <3>2. ASSUME NEW j \in Threads, Holds(j) PROVE j = i
      BY <3>2, HoldsWorking DEF OneHand
    <3> QED BY <2>2, <3>1, <3>2 DEF GrantInv
  <2> QED BY <2>1, <2>2
<1>5. ExecInv'
  BY DEF ExecInv
<1>6. RunningInv'
  <2>1. 0 \in Threads
    BY SessionBounds DEF Threads
  <2> QED BY <2>1 DEF RunningInv, Working, CarriedOut
<1>7. RunsAsGranted'
  BY DEF RunsAsGranted
<1> QED BY <1>1, <1>2, <1>3, <1>4, <1>5, <1>6, <1>7

(* The thread that has the task gives it away: to nobody, or to whoever    *)
(* decides the request it leaves behind (Pause, Write, an exception).      *)
LEMMA LetsGo ==
  ASSUME TypeOK, Control, NEW i \in Threads,
         th[i].pc \in Working, th'[i].pc \in {"paused", "leave"},
         \A j \in Threads : j # i => th'[j] = th[j],
         tokens' = tokens, pending' = pending \/ ~ Holds(i), live' = live,
         mem' # "awaiting_plan_approval", disk' \notin {"none", "awaiting_plan_approval"},
         disk' = "running" \/ mem' = "running" =>
           /\ disk = "running" \/ mem = "running"
           /\ i = 0 => th'[0].pc = "paused"
  PROVE  Control'
<1> USE DEF Control
<1>1. EndInv' /\ ExecInv'
  BY DEF EndInv, ExecInv
<1>2. FreshInv'
  BY DEF FreshInv
<1>3. \A j \in Threads : th'[j].pc \notin Working
  BY DEF OneHand, Working, CarriedOut
<1>4. OneHand'
  BY <1>3 DEF OneHand
<1>5. GrantInv'
  <2>1. CASE pending' = pending
    <3>1. pending = NoKey
      BY DEF OneHand
    <3> QED BY <1>3, <2>1, <3>1 DEF GrantInv
  <2>2. CASE ~ Holds(i)
    <3>1. tokens = {}
      BY <2>2, HoldsWorking DEF GrantInv, OneHand
    <3> QED BY <3>1 DEF GrantInv
  <2> QED BY <2>1, <2>2
<1>6. RunningInv'
  <2>1. 0 \in Threads
    BY SessionBounds DEF Threads
  <2> QED BY <2>1 DEF RunningInv
<1>7. RunsAsGranted'
  BY <1>3 DEF RunsAsGranted, Working
<1> QED BY <1>1, <1>2, <1>4, <1>5, <1>6, <1>7

(* A thread that has given the task away goes on to its end (Paused,       *)
(* Leave, an approve() that found nothing pending).                        *)
LEMMA StaysIdle ==
  ASSUME TypeOK, Control, NEW i \in Threads,
         th[i].pc \notin Working \cup {"off"}, th'[i].pc \in {"leave", "off"},
         \A j \in Threads : j # i => th'[j] = th[j],
         tokens' = tokens, pending' = pending,
         mem' # "awaiting_plan_approval", disk' \notin {"none", "awaiting_plan_approval"},
         disk' = "running" \/ mem' = "running" =>
           (disk = "running" \/ mem = "running") /\ i # 0
  PROVE  Control'
<1> USE DEF Control
<1>0. th'[i].pc \notin Working
  BY DEF Working, CarriedOut
<1>1. EndInv' /\ ExecInv'
  BY DEF EndInv, ExecInv
<1>2. FreshInv'
  BY DEF FreshInv
<1>3. OneHand'
  BY <1>0 DEF OneHand
<1>4. GrantInv'
  <2>1. \A j \in Threads : Holds(j) => j # i
    BY HoldsWorking
  <2> QED BY <1>0, <2>1 DEF GrantInv, Holds
<1>5. RunningInv'
  <2>1. 0 \in Threads
    BY SessionBounds DEF Threads
  <2> QED BY <2>1 DEF RunningInv
<1>6. RunsAsGranted'
  BY <1>0 DEF RunsAsGranted, Working
<1> QED BY <1>1, <1>2, <1>3, <1>4, <1>5, <1>6

(* The thread on its way out; the others are as they were.                 *)
LEMMA AfterEnd ==
  ASSUME TypeOK, NEW i \in Threads, NEW out \in Over \cup {"broken"}, End(i, out)
  PROVE  /\ th'[i].pc = "clean" /\ th'[i].out = out
         /\ \A j \in Threads : j # i => th'[j] = th[j]
BY DEF End, TypeOK, Resting

(* The thread about to return.                                             *)
LEMMA AfterReturn ==
  ASSUME TypeOK, NEW i \in Threads, NEW to \in Places, Return(i, to)
  PROVE  /\ th'[i].pc = to
         /\ \A j \in Threads : j # i => th'[j] = th[j]
BY DEF Return, TypeOK, Resting

(* The thread that begins run().                                           *)
LEMMA AfterRun ==
  ASSUME TypeOK, NEW i \in Threads, Run(i)
  PROVE  /\ th'[i].pc = "top"
         /\ \A j \in Threads : j # i => th'[j] = th[j]
BY DEF Run, TypeOK, Resting

(* The thread that moves on keeps what it carries.                         *)
LEMMA AfterGoto ==
  ASSUME TypeOK, NEW i \in Threads, NEW to \in Places, Goto(i, to)
  PROVE  /\ th'[i].pc = to /\ th'[i].from = th[i].from /\ th'[i].kind = th[i].kind
         /\ th'[i].key = th[i].key /\ th'[i].grant = th[i].grant
         /\ th'[i].granted = th[i].granted /\ th'[i].out = th[i].out
         /\ \A j \in Threads : j # i => th'[j] = th[j]
BY DEF Goto, TypeOK, ThreadStates

(* The thread whose step was carried out keeps its grant.                  *)
LEMMA AfterDone ==
  ASSUME TypeOK, NEW i \in Threads, Done(i)
  PROVE  /\ th'[i].pc = "record" /\ th'[i].from = th[i].from
         /\ th'[i].grant = th[i].grant
         /\ \A j \in Threads : j # i => th'[j] = th[j]
BY DEF Done, TypeOK, ThreadStates

(* The thread about to carry a proposal out, under its key of now.         *)
LEMMA AfterDispatch ==
  ASSUME TypeOK, NEW i \in Threads, NEW from, NEW k, NEW to, Dispatch(i, from, k, to)
  PROVE  /\ th'[i].pc = to /\ th'[i].from = from /\ th'[i].kind = k
         /\ th'[i].key = KeyNow(k) /\ th'[i].grant = th[i].grant
         /\ th'[i].granted = th[i].granted
         /\ \A j \in Threads : j # i => th'[j] = th[j]
BY DEF Dispatch, TypeOK, ThreadStates

(* The thread with an outcome keeps its grant.                             *)
LEMMA AfterOutcome ==
  ASSUME TypeOK, NEW i \in Threads, NEW from, NEW k, NEW out, Outcome(i, from, k, out)
  PROVE  /\ th'[i].pc = "record" /\ th'[i].from = from
         /\ th'[i].grant = th[i].grant
         /\ \A j \in Threads : j # i => th'[j] = th[j]
BY DEF Outcome, TypeOK, ThreadStates

(* A proposal is carried out on the grant of the approve() call that does  *)
(* it, which uses it up, or it needs none (execute_proposal).              *)
LEMMA ExecuteControl ==
  ASSUME TypeOK, Control, NEW i \in Threads, NEW from, NEW k \in Kinds,
         \/ from = "run" /\ th[i].pc = "propose"
         \/ from = "approve" /\ th[i].pc = "exec",
         Execute(i, from, k),
         pending' = pending, mem' = mem, disk' = disk, live' = live
  PROVE  Control'
<1>1. th[i].pc \in Working
  BY DEF Working
<1>2. tokens = {} \/ (Holds(i) /\ tokens \subseteq {th[i].grant})
  BY <1>1, HoldsWorking DEF Control, GrantInv, OneHand
<1>3. Holds(i) => from = "approve"
  BY DEF Holds, CarriedOut
<1>4. CASE \E out \in {"ok", "completed", "request"} :
              Outcome(i, from, k, out) /\ tokens' = tokens
  <2>1. /\ th'[i].pc = "record" /\ th'[i].from = from /\ th'[i].grant = th[i].grant
        /\ \A j \in Threads : j # i => th'[j] = th[j]
    BY <1>4, AfterOutcome
  <2>2. Holds(i) => Holds(i)'
    BY <1>3, <2>1 DEF Holds
  <2>3. th'[i].pc \in Working \ {"exec"} /\ th'[i].pc \notin CarriedOut \cup {"clean", "write"}
    BY <2>1 DEF Working, CarriedOut
  <2> QED BY <1>1, <1>4, <2>1, <2>2, <2>3, KeepsHand
<1>5. CASE k = "command" /\ Dispatch(i, from, k, "track") /\ tokens' = tokens
  <2>1. /\ th'[i].pc = "track" /\ th'[i].from = from /\ th'[i].kind = k
        /\ th'[i].grant = th[i].grant
        /\ \A j \in Threads : j # i => th'[j] = th[j]
    BY <1>5, AfterDispatch
  <2>2. Holds(i) => Holds(i)'
    BY <1>3, <2>1 DEF Holds, CarriedOut
  <2>3. th'[i].pc \in Working \ {"exec"} /\ th'[i].kind \notin KeyedKinds
    BY <1>5, <2>1 DEF Working, CarriedOut, KeyedKinds
  <2> QED BY <1>1, <1>5, <2>1, <2>2, <2>3, KeepsHand
<1>6. CASE /\ k \in KeyedKinds /\ KeyNow(k) \in tokens /\ tokens' = tokens \ {KeyNow(k)}
           /\ \E to \in {"track", "remove", "serve"} : Dispatch(i, from, k, to)
  <2>1. Holds(i) /\ tokens = {th[i].grant} /\ KeyNow(k) = th[i].grant
    BY <1>2, <1>6
  <2>2. from = "approve" /\ th[i].granted
    BY <1>3, <2>1 DEF Control, ExecInv
  <2>3. /\ th'[i].pc \in {"track", "remove", "serve"} /\ th'[i].from = from
        /\ th'[i].key = KeyNow(k) /\ th'[i].grant = th[i].grant
        /\ th'[i].granted = th[i].granted
        /\ \A j \in Threads : j # i => th'[j] = th[j]
    BY <1>6, AfterDispatch
  <2>4. tokens' = {}
    BY <1>6, <2>1
  <2>5. th'[i].pc \in Working \ {"exec"} /\ th'[i].pc \notin {"clean", "write"}
    BY <2>3 DEF Working, CarriedOut
  <2> QED BY <1>1, <2>1, <2>2, <2>3, <2>4, <2>5, KeepsHand
<1>7. CASE /\ k \in KeyedKinds /\ KeyNow(k) \in tokens /\ tokens' = tokens \ {KeyNow(k)}
           /\ Dispatch(i, from, k, CASE k = "script" -> "track"
                                     [] k = "delete" -> "remove"
                                     [] k = "preview" -> "serve")
  <2>1. \E to \in {"track", "remove", "serve"} : Dispatch(i, from, k, to)
    BY <1>7 DEF KeyedKinds
  <2> QED BY <1>6, <1>7, <2>1
<1> QED BY <1>4, <1>5, <1>7 DEF Execute

(* The loop (TaskRunner.run).                                              *)
LEMMA LoopControl ==
  ASSUME TypeOK, Control, NEW i \in Threads, Top(i) \/ Ask(i) \/ Propose(i)
  PROVE  Control'
<1> USE DEF record, server, signals, runner, procs, world, At
<1>1. th[i].pc \in {"top", "ask", "propose"} /\ th[i].pc \in Working /\ ~ Holds(i)
  BY DEF Top, Ask, Propose, Working, Holds, CarriedOut
<1>2. CASE /\ \/ \E out \in Over \cup {"broken"} : End(i, out)
              \/ \E to \in {"top", "ask", "propose"} : Goto(i, to)
              \/ th' = [th EXCEPT ![i] = [@ EXCEPT !.pc = "top", !.bad = th[i].bad + 1]]
           /\ UNCHANGED <<tokens, pending, mem, disk, live>>
  <2>1. /\ th'[i].pc \in {"clean", "top", "ask", "propose"}
        /\ th'[i].pc = "clean" => th'[i].out \in Over \cup {"broken"}
        /\ \A j \in Threads : j # i => th'[j] = th[j]
    <3>1. CASE \E out \in Over \cup {"broken"} : End(i, out)
      BY <3>1, AfterEnd
    <3>2. CASE \E to \in {"top", "ask", "propose"} : Goto(i, to)
      BY <3>2, AfterGoto DEF Places
    <3>3. CASE th' = [th EXCEPT ![i] = [@ EXCEPT !.pc = "top", !.bad = th[i].bad + 1]]
      BY <3>3 DEF TypeOK, ThreadStates
    <3> QED BY <1>2, <3>1, <3>2, <3>3
  <2>2. th'[i].pc \in Working \ {"exec"} /\ th'[i].pc \notin CarriedOut \cup {"write"}
    BY <2>1 DEF Working, CarriedOut
  <2> QED BY <1>1, <1>2, <2>1, <2>2, KeepsHand
<1>3. CASE Top(i)
  BY <1>2, <1>3 DEF Top, Over
<1>4. CASE Ask(i)
  BY <1>2, <1>4 DEF Ask, Over
<1>5. CASE Propose(i)
  <2>1. CASE End(i, "stopped") /\ UNCHANGED <<tokens, pv>>
    BY <1>2, <1>5, <2>1 DEF Propose, Over
  <2>2. CASE Escape(i) /\ UNCHANGED <<tokens, pv>>
    <3>1. CASE i = 0
      BY <1>2, <1>5, <2>2, <3>1 DEF Escape, Propose
    <3>2. CASE i # 0
      <4>1. /\ th'[i].pc = "leave"
            /\ \A j \in Threads : j # i => th'[j] = th[j]
        BY <2>2, <3>2, AfterReturn DEF Escape, Places
      <4>2. mem # "awaiting_plan_approval" /\ disk \notin {"none", "awaiting_plan_approval"}
        BY <1>1 DEF Control, FreshInv
      <4> QED BY <1>1, <1>5, <2>2, <3>2, <4>1, <4>2, LetsGo DEF Propose
    <3> QED BY <3>1, <3>2
  <2>3. CASE \E k \in Kinds : Execute(i, "run", k)
    BY <1>5, <2>3, ExecuteControl DEF Propose
  <2> QED BY <1>5, <2>1, <2>2, <2>3 DEF Propose
<1> QED BY <1>3, <1>4, <1>5

(* Carrying out, command and preview (_run_command, PreviewSession.start). *)
LEMMA CarryControl ==
  ASSUME TypeOK, Control, NEW i \in Threads,
         \/ Remove(i) \/ Track(i) \/ Spawn(i) \/ Identify(i) \/ Wait(i)
         \/ Serve(i) \/ Adopt(i) \/ Ready(i)
  PROVE  Control'
<1> USE DEF record, server, signals, runner, procs, world
<1>1. th[i].pc \in CarriedOut /\ th[i].pc \in Working
  BY DEF Remove, Track, Spawn, Identify, Wait, Serve, Adopt, Ready, At, Working, CarriedOut
<1>2. UNCHANGED <<tokens, pending, mem, disk, live>>
  BY DEF Remove, Track, Spawn, Identify, Wait, Serve, Adopt, Ready
<1>3. CASE Done(i)
  <2>1. /\ th'[i].pc = "record" /\ th'[i].from = th[i].from /\ th'[i].grant = th[i].grant
        /\ \A j \in Threads : j # i => th'[j] = th[j]
    BY <1>3, AfterDone
  <2>2. Holds(i) => Holds(i)'
    BY <1>1, <2>1 DEF Holds, CarriedOut
  <2>3. th'[i].pc \in Working \ {"exec"} /\ th'[i].pc \notin CarriedOut \cup {"clean", "write"}
    BY <2>1 DEF Working, CarriedOut
  <2> QED BY <1>1, <1>2, <2>1, <2>2, <2>3, KeepsHand
<1>4. CASE \E to \in CarriedOut : Goto(i, to)
  <2>1. /\ th'[i].pc \in CarriedOut /\ th'[i].from = th[i].from /\ th'[i].kind = th[i].kind
        /\ th'[i].key = th[i].key /\ th'[i].grant = th[i].grant
        /\ th'[i].granted = th[i].granted
        /\ \A j \in Threads : j # i => th'[j] = th[j]
    <3>1. PICK to \in CarriedOut : Goto(i, to)
      BY <1>4
    <3>2. to \in Places
      BY DEF CarriedOut, Places
    <3> QED BY <3>1, <3>2, AfterGoto
  <2>2. Holds(i) => Holds(i)'
    BY <1>1, <2>1 DEF Holds, CarriedOut
  <2>3. th'[i].pc \in Working \ {"exec"} /\ th'[i].pc \notin {"clean", "write"}
    BY <2>1 DEF Working, CarriedOut
  <2>4. th'[i].kind \in KeyedKinds =>
          th'[i].from = "approve" /\ th'[i].granted /\ th'[i].key = th'[i].grant
    BY <1>1, <2>1 DEF Control, RunsAsGranted
  <2> QED BY <1>1, <1>2, <2>1, <2>2, <2>3, <2>4, KeepsHand
<1> QED BY <1>3, <1>4
        DEF Remove, Track, Spawn, Identify, Wait, Serve, Adopt, Ready, CarriedOut

(* Recording and ending, with the task in hand (_record, _cleanup_owned,   *)
(* _finish and its kin).                                                   *)
LEMMA RecordControl ==
  ASSUME TypeOK, Control, NEW i \in Threads, Record(i) \/ Clean(i) \/ Write(i)
  PROVE  Control'
<1> USE DEF record, server, signals, runner, procs, world
<1>0. th[i].pc \in Working
  BY DEF Record, Clean, Write, At, Working
<1>1. CASE Record(i)
  <2>1. tokens' = {}
    <3>1. tokens = {} \/ (Holds(i) /\ tokens \subseteq {th[i].grant})
      BY <1>0, HoldsWorking DEF Control, GrantInv, OneHand
    <3>2. Holds(i) => th[i].from = "approve"
      BY <1>1 DEF Record, At, Holds
    <3> QED BY <1>1, <3>1, <3>2 DEF Record
  <2>2. /\ th'[i].pc \in {"pause", "clean", "top", "propose"}
        /\ th'[i].pc = "clean" => th'[i].out \in Over
        /\ \A j \in Threads : j # i => th'[j] = th[j]
    <3>1. CASE Goto(i, "pause")
      BY <3>1, AfterGoto DEF Places
    <3>2. CASE End(i, "completed")
      BY <3>2, AfterEnd DEF Over
    <3>3. CASE Run(i)
      BY <3>3, AfterRun
    <3>4. CASE th' = [th EXCEPT ![i] = [Resting EXCEPT !.pc = "propose"]]
      BY <3>4 DEF TypeOK, Resting
    <3> QED BY <1>1, <3>1, <3>2, <3>3, <3>4 DEF Record
  <2>3. th'[i].pc \in Working \ {"exec"} /\ th'[i].pc \notin CarriedOut \cup {"write"}
    BY <2>2 DEF Working, CarriedOut
  <2> QED BY <1>0, <1>1, <2>1, <2>2, <2>3, KeepsHand DEF Record
<1>2. CASE Clean(i)
  <2>1. /\ th[i].pc = "clean" /\ th'[i].pc = "write" /\ th'[i].out = th[i].out
        /\ \A j \in Threads : j # i => th'[j] = th[j]
    BY <1>2, AfterGoto DEF Clean, At, Places
  <2>2. th'[i].out \in Over \cup {"broken"}
    BY <2>1 DEF Control, EndInv
  <2>3. /\ th'[i].pc \in Working \ {"exec"} /\ th'[i].pc \notin CarriedOut
        /\ ~ Holds(i)
    BY <2>1 DEF Working, CarriedOut, Holds
  <2> QED BY <1>0, <1>2, <2>1, <2>2, <2>3, KeepsHand DEF Clean
<1>3. CASE Write(i)
  <2>1. /\ th'[i].pc = "leave"
        /\ \A j \in Threads : j # i => th'[j] = th[j]
    BY <1>3, AfterReturn DEF Write, Places
  <2>2. th[i].out \in Over \cup {"broken"}
    BY <1>3 DEF Write, At, Control, EndInv
  <2>3. Ending(th[i].out) \in {"stopped", "failed", "completed"}
    BY <2>2 DEF Ending, Over
  <2> QED BY <1>0, <1>3, <2>1, <2>3, LetsGo DEF Write
<1> QED BY <1>1, <1>2, <1>3

(* Pausing and the end of a thread (run, _run_and_report, _continue).      *)
LEMMA LeaveControl ==
  ASSUME TypeOK, Control, NEW i \in Threads, Pause(i) \/ Paused(i) \/ Leave(i)
  PROVE  Control'
<1> USE DEF record, server, signals, runner, procs, world
<1>0. mem # "awaiting_plan_approval" /\ disk \notin {"none", "awaiting_plan_approval"}
  BY DEF Pause, Paused, Leave, At, Control, FreshInv
<1>1. CASE Pause(i)
  <2>1. /\ th[i].pc \in Working /\ ~ Holds(i) /\ th'[i].pc = "paused"
        /\ \A j \in Threads : j # i => th'[j] = th[j]
    BY <1>1, AfterReturn DEF Pause, At, Places, Working, Holds, CarriedOut
  <2> QED BY <1>0, <1>1, <2>1, LetsGo DEF Pause
<1>2. CASE Paused(i)
  <2>1. /\ th[i].pc = "paused" /\ th'[i].pc = "leave"
        /\ \A j \in Threads : j # i => th'[j] = th[j]
    BY <1>2, AfterGoto DEF Paused, At, Places
  <2>2. th[i].pc \notin Working \cup {"off"}
    BY <2>1 DEF Working, CarriedOut
  <2> QED BY <1>2, <2>1, <2>2, StaysIdle DEF Paused
<1>3. CASE Leave(i)
  <2>1. /\ th[i].pc = "leave" /\ th'[i].pc = "off"
        /\ \A j \in Threads : j # i => th'[j] = th[j]
    BY <1>3 DEF Leave, At, TypeOK, Resting
  <2>2. th[i].pc \notin Working \cup {"off", "paused"}
    BY <2>1 DEF Working, CarriedOut
  <2>3. disk = "running" \/ mem = "running" => i # 0
    BY <2>2 DEF Control, RunningInv
  <2> QED BY <1>0, <1>3, <2>1, <2>2, <2>3, StaysIdle DEF Leave
<1> QED BY <1>1, <1>2, <1>3

(* A decision takes the request, and with it the task (approve).           *)
LEMMA ApproveControl ==
  ASSUME TypeOK, Control, NEW i \in Threads, Approve(i)
  PROVE  Control'
<1> USE DEF record, server, signals, runner, procs, world
<1>0. /\ th[i].pc = "approve" /\ th[i].pc \notin Working \cup {"off"}
      /\ i # 0 /\ 0 \in Threads
      /\ mem # "awaiting_plan_approval" /\ disk \notin {"none", "awaiting_plan_approval"}
  BY SessionBounds DEF Approve, At, Working, CarriedOut, Control, RunningInv, FreshInv, Threads
<1>1. CASE pending = NoKey
  <2>1. /\ th'[i].pc = "leave"
        /\ \A j \in Threads : j # i => th'[j] = th[j]
    BY <1>1, AfterReturn DEF Approve, Places
  <2> QED BY <1>0, <1>1, <2>1, StaysIdle DEF Approve
<1>2. CASE pending # NoKey
  <2>1. \A j \in Threads : th[j].pc \notin Working
    BY <1>2 DEF Control, OneHand
  <2>2. tokens = {}
    BY <1>2, <2>1, HoldsWorking DEF Control, GrantInv
  <2>3. /\ \/ th'[i].pc = "top" /\ tokens' = {}
           \/ /\ th'[i].pc = "exec" /\ th'[i].granted /\ th'[i].grant = pending
              /\ tokens' \subseteq {pending}
        /\ \A j \in Threads : j # i => th'[j] = th[j]
    <3>1. CASE Run(i) /\ UNCHANGED tokens
      BY <2>2, <3>1, AfterRun
    <3>2. CASE /\ th[i].granted
               /\ tokens' = IF pending.kind \in KeyedKinds THEN tokens \cup {pending} ELSE tokens
               /\ th' = [th EXCEPT ![i] = [@ EXCEPT !.pc = "exec", !.kind = pending.kind,
                                                    !.grant = pending]]
      <4>1. tokens' \subseteq {pending}
        BY <2>2, <3>2
      <4>2. /\ th'[i].pc = "exec" /\ th'[i].granted /\ th'[i].grant = pending
            /\ \A j \in Threads : j # i => th'[j] = th[j]
        BY <3>2 DEF TypeOK, ThreadStates
      <4> QED BY <4>1, <4>2
    <3> QED BY <1>2, <3>1, <3>2 DEF Approve
  <2>4. th'[i].pc \notin CarriedOut \cup {"clean", "write"}
    BY <2>3 DEF CarriedOut
  <2>5. EndInv' /\ ExecInv' /\ RunsAsGranted'
    BY <2>3, <2>4 DEF Control, EndInv, ExecInv, RunsAsGranted
  <2>6. FreshInv'
    BY <1>0 DEF Approve, FreshInv
  <2>7. OneHand'
    BY <2>1, <2>3 DEF Approve, OneHand
  <2>8. GrantInv'
    BY <2>3 DEF GrantInv, Holds
  <2>9. RunningInv'
    BY <1>0, <2>3 DEF Approve, Control, RunningInv
  <2> QED BY <2>5, <2>6, <2>7, <2>8, <2>9 DEF Control
<1> QED BY <1>1, <1>2

(* The approved proposal is carried out, or an exception ends the thread.  *)
LEMMA ExecControl ==
  ASSUME TypeOK, Control, NEW i \in Threads, Exec(i)
  PROVE  Control'
<1> USE DEF record, server, signals, runner, procs, world
<1>1. CASE Return(i, "leave") /\ UNCHANGED <<tokens, pv>>
  <2>1. /\ th[i].pc \in Working /\ i # 0 /\ th[i].pc # "off"
    BY DEF Exec, At, Working, Control, RunningInv
  <2>2. /\ th'[i].pc = "leave"
        /\ \A j \in Threads : j # i => th'[j] = th[j]
    BY <1>1, AfterReturn DEF Places
  <2>3. mem # "awaiting_plan_approval" /\ disk \notin {"none", "awaiting_plan_approval"}
    BY <2>1 DEF Control, FreshInv
  <2> QED BY <1>1, <2>1, <2>2, <2>3, LetsGo DEF Exec
<1>2. CASE Execute(i, "approve", th[i].kind)
  <2>1. th[i].kind \in Kinds
    BY <1>2 DEF Execute, Kinds, FreeKinds
  <2> QED BY <1>2, <2>1, ExecuteControl DEF Exec, At
<1> QED BY <1>1, <1>2 DEF Exec

(* The threads, their grants and what they run stay as they are while only *)
(* the record's file, the registry or the world change.                    *)
LEMMA HandsUntouched ==
  ASSUME Control, UNCHANGED <<th, pending, tokens, mem>>,
         live' => live,
         disk' \in {"none", "awaiting_plan_approval", "running"} => disk' = disk
  PROVE  Control'
<1> USE DEF Control
<1>1. EndInv' /\ ExecInv' /\ OneHand' /\ RunsAsGranted'
  BY DEF EndInv, ExecInv, OneHand, RunsAsGranted
<1>2. FreshInv'
  BY DEF FreshInv
<1>3. GrantInv'
  BY DEF GrantInv, Holds
<1>4. RunningInv'
  BY DEF RunningInv
<1> QED BY <1>1, <1>2, <1>3, <1>4

(* The endpoints (coding_routes, start_task, decide).                      *)
LEMMA EndpointControl ==
  ASSUME TypeOK, Control, LoopStep \/ Requests
  PROVE  Control'
<1> USE DEF record, server, signals, runner, procs, world
<1>0. 0 \in Threads
  BY SessionBounds DEF Threads
<1>1. CASE LoopStep
  BY <1>1, HandsUntouched
     DEF LoopStep, StopThePreview, StopTheCommands, StopUnregisters, StopWrites
<1>2. CASE Plan
  <2>1. (\A i \in Threads : th[i].pc = "off") /\ pending = NoKey /\ ~live
    BY <1>2 DEF Plan, Control, FreshInv
  <2>2. FreshInv' /\ RunningInv'
    BY <1>2, <2>1, <1>0 DEF Plan, FreshInv, Control, RunningInv
  <2>3. EndInv' /\ ExecInv' /\ OneHand' /\ RunsAsGranted' /\ GrantInv'
    BY <1>2 DEF Plan, Control, EndInv, ExecInv, OneHand, RunsAsGranted, GrantInv, Holds
  <2> QED BY <2>2, <2>3 DEF Control
<1>3. CASE Start
  <2>1. (\A i \in Threads : th[i].pc = "off") /\ pending = NoKey /\ ~live
    BY <1>3 DEF Start, Control, FreshInv
  <2>2. CASE mem' = "running" /\ disk' = "running" /\ Run(0)
    <3>1. /\ th'[0].pc = "top"
          /\ \A j \in Threads : j # 0 => th'[j].pc = "off"
      BY <1>0, <2>1, <2>2, AfterRun
    <3>2. tokens = {}
      BY <1>3 DEF Start, Control, FreshInv
    <3>3. EndInv' /\ ExecInv' /\ RunsAsGranted'
      BY <3>1 DEF EndInv, ExecInv, RunsAsGranted, CarriedOut
    <3>4. OneHand'
      BY <1>3, <2>1, <3>1 DEF Start, OneHand, Working, CarriedOut
    <3>5. FreshInv' /\ RunningInv'
      BY <2>2, <3>1 DEF FreshInv, RunningInv, Working
    <3>6. GrantInv'
      BY <1>3, <3>2 DEF Start, GrantInv
    <3> QED BY <3>3, <3>4, <3>5, <3>6 DEF Control
  <2>3. CASE mem' = "failed" /\ disk' = "failed" /\ UNCHANGED <<live, th>>
    <3>1. FreshInv' /\ RunningInv'
      BY <1>0, <2>1, <2>3 DEF FreshInv, RunningInv
    <3>2. EndInv' /\ ExecInv' /\ OneHand' /\ RunsAsGranted' /\ GrantInv'
      BY <1>3, <2>3
         DEF Start, Control, EndInv, ExecInv, OneHand, RunsAsGranted, GrantInv, Holds
    <3> QED BY <3>1, <3>2 DEF Control
  <2> QED BY <1>3, <2>2, <2>3 DEF Start
<1>4. CASE Decide
  <2>1. pending # NoKey /\ \A j \in Threads : th[j].pc \notin Working
    BY <1>4 DEF Decide, Control, OneHand
  <2>2. decided + 1 \in Threads /\ decided + 1 # 0
    BY <1>4, SessionBounds DEF Decide, TypeOK, Threads
  <2>3. /\ th'[decided + 1].pc = "approve"
        /\ \A j \in Threads : j # decided + 1 => th'[j] = th[j]
    <3>1. PICK granted \in BOOLEAN :
             th' = [th EXCEPT ![decided + 1] =
                      [Resting EXCEPT !.pc = "approve", !.granted = granted]]
      BY <1>4 DEF Decide
    <3> QED BY <2>2, <3>1 DEF TypeOK, Resting
  <2>4. \A j \in Threads : th'[j].pc \notin Working
    BY <2>1, <2>3 DEF Working, CarriedOut
  <2>5. OneHand' /\ RunsAsGranted' /\ EndInv' /\ ExecInv'
    BY <2>4 DEF OneHand, RunsAsGranted, EndInv, ExecInv, Working
  <2>6. tokens = {}
    BY <2>1, HoldsWorking DEF Control, GrantInv
  <2>7. FreshInv' /\ RunningInv' /\ GrantInv'
    BY <1>0, <1>4, <2>1, <2>2, <2>3, <2>6
       DEF Decide, Control, FreshInv, RunningInv, GrantInv
  <2> QED BY <2>5, <2>7 DEF Control
<1>5. CASE StopRequest
  BY <1>5, HandsUntouched DEF StopRequest
<1>6. CASE Delete
  BY <1>6, HandsUntouched DEF Delete
<1> QED BY <1>1, <1>2, <1>3, <1>4, <1>5, <1>6 DEF Requests

(* Edits, time, the preview's end and a restart.                           *)
LEMMA WorldControl ==
  ASSUME TypeOK, Control, World
  PROVE  Control'
<1> USE DEF record, server, signals, runner, procs, world
<1>1. CASE Edit \/ TimePasses \/ PreviewEnds
  BY <1>1, HandsUntouched DEF Edit, TimePasses, PreviewEnds
<1>2. CASE Restart
  <2>1. 0 \in Threads /\ \A i \in Threads : th'[i].pc = "off"
    BY <1>2, SessionBounds DEF Restart, Resting, Threads
  <2>2. disk' # "running" /\ mem' # "running"
    BY <1>2 DEF Restart, Unfinished
  <2>3. FreshInv' /\ RunningInv' /\ GrantInv'
    BY <1>2, <2>1, <2>2 DEF Restart, FreshInv, RunningInv, GrantInv
  <2>4. EndInv' /\ ExecInv' /\ OneHand' /\ RunsAsGranted'
    BY <2>1 DEF EndInv, ExecInv, OneHand, RunsAsGranted, Working, CarriedOut
  <2> QED BY <2>3, <2>4 DEF Control
<1> QED BY <1>1, <1>2 DEF World

(* Every step keeps the invariant.                                         *)
LEMMA InvStep ==
  ASSUME IInv, [Next]_vars
  PROVE  IInv'
<1>1. TypeOK'
  BY TypeStep DEF IInv, Control
<1>2. Control'
  <2> USE DEF IInv
  <2>1. CASE \E i \in Threads : ThreadStep(i)
    BY <2>1, LoopControl, CarryControl, RecordControl, LeaveControl, ApproveControl,
       ExecControl DEF ThreadStep
  <2>2. CASE LoopStep \/ Requests
    BY <2>2, EndpointControl
  <2>3. CASE World
    BY <2>3, WorldControl
  <2>4. CASE UNCHANGED vars
    BY <2>4, HandsUntouched DEF vars, record, server, runner
  <2> QED BY <2>1, <2>2, <2>3, <2>4 DEF Next
<1> QED BY <1>1, <1>2 DEF IInv

-----------------------------------------------------------------------------
(* Theorems *)

(* The inductive invariant holds throughout: who has the task in hand, who *)
(* holds a grant, and who will write the record's next state.              *)
THEOREM Invariance == Spec => []IInv
<1>1. Init => IInv
  BY TypeInit, ControlInit DEF IInv
<1>2. IInv /\ [Next]_vars => IInv'
  BY InvStep
<1> QED BY <1>1, <1>2, PTL DEF Spec

(* Every variable keeps its type.                                          *)
THEOREM TypeCorrect == Spec => []TypeOK
<1>1. IInv => TypeOK
  BY DEF IInv
<1> QED BY <1>1, Invariance, PTL

(* What needs the user's approval is carried out only on the grant of the  *)
(* approve() call that does it, for what the request named.                *)
THEOREM GrantedOnly == Spec => []RunsAsGranted
<1>1. IInv => RunsAsGranted
  BY DEF IInv, Control
<1> QED BY <1>1, Invariance, PTL

(* However many decisions arrive, one thread at most works on the task,    *)
(* and none while a request waits (decide, approve).                       *)
THEOREM OneAtATime == Spec => []OneHand
<1>1. IInv => OneHand
  BY DEF IInv, Control
<1> QED BY <1>1, Invariance, PTL

LEMMA RecordedEndings == IInv => EndingsAreWritten
<1>1. 0 \in Threads
  BY SessionBounds DEF Threads
<1> QED BY <1>1 DEF IInv, Control, RunningInv, EndingsAreWritten, AllOff, Working, CarriedOut

(* No record says "running" once no thread runs the task (_run_and_report, *)
(* mark_interrupted_on_startup).                                           *)
THEOREM EndingsRecorded == Spec => []EndingsAreWritten
BY RecordedEndings, Invariance, PTL

-----------------------------------------------------------------------------
(* What is downloaded and installed. *)

\* Where a job of each kind may be.
PlacesOf == [ollama |-> {"download", "verify", "execute", "open", "find", "serve"},
             model  |-> {"connect", "reading", "ended", "prove"},
             voice  |-> {"pending", "fetch", "moving"},
             speech |-> {"info", "get", "remove"}]

\* What a job has behind it and before it, by its place.
JobOK(i) ==
  /\ job[i].at \in PlacesOf[job[i].kind] \cup {"born", "dead"}
  /\ job[i].at \in {"born", "download", "verify", "execute"} => job[i].setup = "none"
  /\ job[i].at = "open" => job[i].setup = "open"
  /\ job[i].at = "find" => job[i].setup = "ended"
  /\ job[i].at \notin {"moving", "dead"} => job[i].moved = {}
  /\ job[i].at \notin {"fetch", "moving"} => job[i].staged = {}
  /\ job[i].at = "moving" => job[i].todo = {}
  /\ job[i].lost => job[i].at = "dead"

\* The thread that an installer publishes is the only one of it that is not over.
OneJob(k) ==
  k \notin twice =>
    \A i \in DOMAIN job : job[i].kind = k /\ job[i].at # "dead" => i = thread[k]

\* A job that was told to stop in time never opens Ollama's installer: the flag is there
\* as long as the job looks at it.
StoppedOK(i) ==
  "ollama" \notin twice /\ job[i].stopped =>
    /\ job[i].setup = "none"
    /\ job[i].at = "dead" \/ (job[i].at \in {"download", "verify"} /\ cancel["ollama"])

\* What a job of the voice fetches and moves is what was not right.
FilesOK(i) ==
  "voice" \notin twice /\ job[i].at \in {"fetch", "moving"} =>
    \A f \in job[i].todo \cup job[i].staged : files[f] # "good"

ReportOK ==
  "voice" \notin twice /\ status["voice"] = "cancelled" =>
    /\ thread["voice"] # 0
    /\ job[thread["voice"]].at = "dead" /\ job[thread["voice"]].moved = {}

JobTypes ==
  /\ job \in Seq(Panels!Job) /\ Len(job) <= MaxJobs
  /\ thread \in [Panels!Kinds -> 0..Len(job)]
ControlTypes ==
  /\ cancel \in [Panels!Kinds -> BOOLEAN]
  /\ status \in [Panels!Kinds -> Panels!Statuses]
  /\ twice \subseteq Panels!Kinds /\ presses \in 0..MaxPresses
Ollamas == [here : BOOLEAN, serving : BOOLEAN, model : BOOLEAN, ours : BOOLEAN]
MachineTypes ==
  /\ ollama \in Ollamas
  /\ files \in [Panels!Files -> {"absent", "short", "bad", "good"}]
  /\ speech \in {"absent", "damaged", "whole"}
  /\ proven \in BOOLEAN

STyped == JobTypes /\ ControlTypes /\ MachineTypes

SInv ==
  /\ STyped
  /\ \A i \in DOMAIN job : JobOK(i) /\ StoppedOK(i) /\ FilesOK(i)
  /\ \A k \in Panels!Kinds : OneJob(k)
  /\ ReportOK /\ Panels!BusyIsReal /\ Panels!CompleteMeansAnswered /\ Panels!OursOnlyIfInstalled

-----------------------------------------------------------------------------

LEMMA STypedIsTypeOK == STyped <=> Panels!TypeOK
BY DEF STyped, JobTypes, ControlTypes, MachineTypes, Ollamas, Panels!TypeOK

LEMMA JobFields ==
  ASSUME JobTypes
  PROVE  /\ DOMAIN job = 1..Len(job) /\ Len(job) \in Nat
         /\ \A i \in DOMAIN job : job[i] \in Panels!Job
BY DEF JobTypes

LEMMA SetupInit == Panels!Init => SInv
<1> SUFFICES ASSUME Panels!Init PROVE SInv OBVIOUS
<1>1. Len(job) = 0 /\ DOMAIN job = {} /\ job \in Seq(Panels!Job) BY DEF Panels!Init
<1>2. JobTypes
  <2>1. 0 <= MaxJobs BY SetupAssumption
  <2> QED BY <1>1, <2>1 DEF Panels!Init, JobTypes
<1>3. ControlTypes
  <2>1. 0 \in 0..MaxPresses BY SetupAssumption
  <2> QED BY <2>1 DEF Panels!Init, ControlTypes, Panels!Statuses
<1>4. MachineTypes BY DEF Panels!Init, MachineTypes, Ollamas
<1>5. Panels!BusyIsReal /\ Panels!CompleteMeansAnswered /\ Panels!OursOnlyIfInstalled /\ ReportOK
  BY DEF Panels!Init, Panels!BusyIsReal, Panels!CompleteMeansAnswered, Panels!OursOnlyIfInstalled, ReportOK, Panels!Busy, Panels!Kinds
<1> QED BY <1>1, <1>2, <1>3, <1>4, <1>5 DEF SInv, STyped, OneJob

-----------------------------------------------------------------------------
(* A step of a job, as the bookkeeping sees it. *)

\* One job moves on, and sets the state of its installer; it keeps what it is.
Moved(j) ==
  /\ job' \in Seq(Panels!Job) /\ Len(job') = Len(job) /\ j \in DOMAIN job
  /\ \A i \in DOMAIN job : i # j => job'[i] = job[i]
  /\ job'[j].kind = job[j].kind /\ job'[j].stopped = job[j].stopped
  /\ job[j].at # "dead"
Said(j) ==
  /\ status' \in [Panels!Kinds -> Panels!Statuses]
  /\ \A k \in Panels!Kinds \ {job[j].kind} : status'[k] = status[k]
  /\ UNCHANGED Panels!control
Ok(j) ==
  /\ JobOK(j)'
  /\ job'[j].at = "dead" =>
       status'[job[j].kind] \notin Panels!Busy \/ job[j].kind = "model" \/ job'[j].lost
  /\ job[j].at \in {"download", "verify"} /\ Panels!Cancelled(j) =>
       job'[j].at \in {"download", "verify", "dead"} /\ job'[j].setup = job[j].setup
  /\ job[j].kind = "voice" /\ status'["voice"] = "cancelled" /\ status["voice"] # "cancelled" =>
       job'[j].at = "dead" /\ job'[j].moved = {}

\* The job's record, written anew.
LEMMA Rewritten ==
  ASSUME JobTypes, NEW j \in DOMAIN job, NEW r \in Panels!Job, job' = [job EXCEPT ![j] = r],
         r.kind = job[j].kind, r.stopped = job[j].stopped, job[j].at # "dead"
  PROVE  Moved(j) /\ job'[j] = r
<1>1. DOMAIN job = 1..Len(job) /\ Len(job) \in Nat BY JobFields
<1>2. job' \in Seq(Panels!Job) /\ Len(job') = Len(job) BY <1>1 DEF JobTypes
<1> QED BY <1>1, <1>2 DEF Moved, JobTypes

LEMMA SaidOf ==
  ASSUME ControlTypes, NEW j \in DOMAIN job, job[j].kind \in Panels!Kinds, UNCHANGED Panels!control,
         NEW s \in Panels!Statuses, Panels!Sets(j, s) \/ (UNCHANGED status /\ s = status[job[j].kind])
  PROVE  Said(j) /\ status'[job[j].kind] = s
BY DEF ControlTypes, Said, Panels!Sets

LEMMA StepKeeps ==
  ASSUME SInv, NEW j \in DOMAIN job, Moved(j), Said(j), Ok(j)
  PROVE  /\ JobTypes' /\ ControlTypes'
         /\ \A i \in DOMAIN job' : JobOK(i)' /\ StoppedOK(i)'
         /\ \A k \in Panels!Kinds : OneJob(k)'
         /\ ReportOK' /\ Panels!BusyIsReal'
<1>0. STyped /\ (\A i \in DOMAIN job : JobOK(i) /\ StoppedOK(i)) /\ (\A k \in Panels!Kinds : OneJob(k))
      /\ ReportOK /\ Panels!BusyIsReal
  BY DEF SInv
<1>1. /\ DOMAIN job = 1..Len(job) /\ Len(job) \in Nat
      /\ \A i \in DOMAIN job : job[i] \in Panels!Job
  BY <1>0, JobFields DEF STyped
<1>2. DOMAIN job' = DOMAIN job BY <1>1 DEF Moved
<1>3. thread' = thread /\ cancel' = cancel /\ twice' = twice /\ presses' = presses
  BY DEF Said, Panels!control
<1>4. JobTypes' BY <1>0, <1>3 DEF STyped, JobTypes, Moved
<1>5. ControlTypes' BY <1>0, <1>3 DEF STyped, ControlTypes, Said
<1>6. job[j].kind \in Panels!Kinds /\ job[j].at \in PlacesOf[job[j].kind] \cup {"born", "dead"}
  BY <1>0, <1>1 DEF Panels!Job, JobOK
<1>7. ASSUME NEW i \in DOMAIN job PROVE JobOK(i)' /\ StoppedOK(i)'
  <2>1. CASE i = j
    <3>1. JobOK(j)' BY DEF Ok
    <3>2. ASSUME "ollama" \notin twice, job[j].stopped PROVE StoppedOK(j)'
      <4>1. job[j].setup = "none" /\ job[j].at \in {"download", "verify"} /\ cancel["ollama"]
        BY <1>0, <3>2 DEF StoppedOK, Moved
      <4>2. job[j].kind = "ollama" BY <1>6, <4>1 DEF PlacesOf, Panels!Kinds
      <4>3. Panels!Cancelled(j) BY <4>1, <4>2 DEF Panels!Cancelled
      <4> QED BY <1>3, <4>1, <4>3 DEF Ok, StoppedOK
    <3>3. StoppedOK(j)' BY <1>3, <3>2 DEF StoppedOK, Moved
    <3> QED BY <2>1, <3>1, <3>3
  <2>2. CASE i # j
    <3>1. job'[i] = job[i] BY <2>2 DEF Moved
    <3> QED BY <1>0, <1>3, <3>1 DEF JobOK, StoppedOK
  <2> QED BY <2>1, <2>2
<1>8. ASSUME NEW k \in Panels!Kinds PROVE OneJob(k)'
  <2> SUFFICES ASSUME k \notin twice', NEW i \in DOMAIN job', job'[i].kind = k, job'[i].at # "dead"
               PROVE  i = thread'[k]
    BY DEF OneJob
  <2>1. job[i].kind = k /\ job[i].at # "dead" BY <1>2 DEF Moved
  <2> QED BY <1>0, <1>2, <1>3, <2>1 DEF OneJob
<1>9. ReportOK'
  <2> SUFFICES ASSUME "voice" \notin twice, status'["voice"] = "cancelled"
               PROVE  /\ thread["voice"] # 0
                      /\ job'[thread["voice"]].at = "dead" /\ job'[thread["voice"]].moved = {}
    BY <1>3 DEF ReportOK
  <2>0. thread["voice"] \in 0..Len(job) BY <1>0 DEF STyped, JobTypes, Panels!Kinds
  <2>1. CASE status["voice"] = "cancelled"
    <3>1. thread["voice"] # 0 /\ job[thread["voice"]].at = "dead" /\ job[thread["voice"]].moved = {}
      BY <1>0, <2>1 DEF ReportOK
    <3>2. thread["voice"] \in DOMAIN job /\ thread["voice"] # j BY <1>1, <2>0, <3>1 DEF Moved
    <3> QED BY <3>1, <3>2 DEF Moved
  <2>2. CASE status["voice"] # "cancelled"
    <3>1. job[j].kind = "voice" BY <2>2 DEF Said, Panels!Kinds
    <3>2. j = thread["voice"] BY <1>0, <3>1 DEF OneJob, Moved, Panels!Kinds
    <3> QED BY <1>1, <2>2, <3>1, <3>2 DEF Ok
  <2> QED BY <2>1, <2>2
<1>10. Panels!BusyIsReal'
  <2> SUFFICES ASSUME NEW k \in Panels!Kinds, k # "model", status'[k] \in Panels!Busy
               PROVE  Panels!Working(k)' \/ Panels!DiedUnheard(k)'
    BY DEF Panels!BusyIsReal
  <2>1. CASE k = job[j].kind
    <3>1. CASE job'[j].at # "dead" BY <1>2, <2>1, <3>1 DEF Panels!Working, Moved
    <3>2. CASE job'[j].at = "dead"
      <4>1. job'[j].lost BY <2>1, <3>2 DEF Ok
      <4>2. j = thread[k] \/ k \in twice BY <1>0, <2>1 DEF OneJob, Moved
      <4> QED BY <1>2, <1>3, <2>1, <4>1, <4>2 DEF Panels!DiedUnheard, Moved
    <3> QED BY <3>1, <3>2
  <2>2. CASE k # job[j].kind
    <3>1. CASE Panels!Working(k)
      <4>1. PICK i \in DOMAIN job : job[i].kind = k /\ job[i].at # "dead" BY <3>1 DEF Panels!Working
      <4> QED BY <1>2, <2>2, <4>1 DEF Panels!Working, Moved
    <3>2. CASE Panels!DiedUnheard(k)
      <4>1. PICK i \in DOMAIN job : job[i].kind = k /\ job[i].lost /\ (i = thread[k] \/ k \in twice)
        BY <3>2 DEF Panels!DiedUnheard
      <4> QED BY <1>2, <1>3, <2>2, <4>1 DEF Panels!DiedUnheard, Moved
    <3> QED BY <1>0, <2>2, <3>1, <3>2 DEF Panels!BusyIsReal, Said
  <2> QED BY <2>1, <2>2
<1> QED BY <1>2, <1>4, <1>5, <1>7, <1>8, <1>9, <1>10

\* What a step of a job owes to what is reported of it and to the files.
Owes(j) ==
  /\ proven => proven'
  /\ status'["model"] = "complete" =>
       proven' \/ job'[j].at = "ended" \/ (status["model"] = "complete" /\ job[j].at # "ended")
  /\ ollama'.ours => ollama.ours \/ job'[j].setup = "ended"
  /\ job[j].setup = "ended" => job'[j].setup = "ended"
  /\ job'[j].at \in {"fetch", "moving"} =>
       "voice" \in twice \/ \A f \in job'[j].todo \cup job'[j].staged : files'[f] # "good"
  /\ files' = files \/ job[j].kind = "voice"

LEMMA StepDone ==
  ASSUME SInv, NEW j \in DOMAIN job, Moved(j), Said(j), Ok(j), Owes(j), MachineTypes'
  PROVE  SInv'
<1>1. /\ JobTypes' /\ ControlTypes'
      /\ \A i \in DOMAIN job' : JobOK(i)' /\ StoppedOK(i)'
      /\ \A k \in Panels!Kinds : OneJob(k)'
      /\ ReportOK' /\ Panels!BusyIsReal'
  BY StepKeeps
<1>2. DOMAIN job' = DOMAIN job BY JobFields DEF SInv, STyped, JobTypes, Moved
<1>3. twice' = twice BY DEF Said, Panels!control
<1>4. Panels!CompleteMeansAnswered'
  <2> SUFFICES ASSUME status'["model"] = "complete", ~proven'
               PROVE  \E i \in DOMAIN job' : job'[i].at = "ended"
    BY DEF Panels!CompleteMeansAnswered, Panels!At
  <2>1. CASE job'[j].at = "ended" BY <1>2, <2>1
  <2>2. CASE status["model"] = "complete" /\ job[j].at # "ended"
    <3>1. PICK i \in DOMAIN job : job[i].at = "ended"
      BY <2>2 DEF Owes, SInv, Panels!CompleteMeansAnswered, Panels!At
    <3> QED BY <1>2, <2>2, <3>1 DEF Moved
  <2> QED BY <2>1, <2>2 DEF Owes
<1>5. Panels!OursOnlyIfInstalled'
  <2> SUFFICES ASSUME ollama'.ours PROVE \E i \in DOMAIN job' : job'[i].setup = "ended"
    BY DEF Panels!OursOnlyIfInstalled
  <2>1. CASE job'[j].setup = "ended" BY <1>2, <2>1
  <2>2. CASE ollama.ours
    <3>1. PICK i \in DOMAIN job : job[i].setup = "ended" BY <2>2 DEF SInv, Panels!OursOnlyIfInstalled
    <3>2. CASE i = j BY <1>2, <3>1, <3>2 DEF Owes
    <3>3. CASE i # j BY <1>2, <3>1, <3>3 DEF Moved
    <3> QED BY <3>2, <3>3
  <2> QED BY <2>1, <2>2 DEF Owes
<1>6. ASSUME NEW i \in DOMAIN job PROVE FilesOK(i)'
  <2>1. CASE i = j BY <1>3, <2>1 DEF FilesOK, Owes
  <2>2. CASE i # j
    <3>1. job'[i] = job[i] /\ FilesOK(i) BY <2>2 DEF Moved, SInv
    <3>2. CASE files' = files BY <1>3, <3>1, <3>2 DEF FilesOK
    <3>3. CASE job[j].kind = "voice"
      <4>1. ASSUME "voice" \notin twice, job[i].at \in {"fetch", "moving"} PROVE FALSE
        <5>1. job[i].kind \in Panels!Kinds /\ JobOK(i) BY JobFields DEF SInv, STyped, Panels!Job
        <5>2. job[i].kind = "voice" BY <4>1, <5>1 DEF JobOK, PlacesOf, Panels!Kinds
        <5> QED BY <2>2, <3>3, <4>1, <5>2 DEF SInv, OneJob, Moved, Panels!Kinds
      <4> QED BY <1>3, <3>1, <4>1 DEF FilesOK
    <3> QED BY <3>2, <3>3 DEF Owes
  <2> QED BY <2>1, <2>2
<1> QED BY <1>1, <1>2, <1>4, <1>5, <1>6 DEF SInv, STyped

\* A job ends with a last status.
LEMMA EndsDone ==
  ASSUME SInv, NEW j \in DOMAIN job, job[j].at # "dead",
         NEW s \in {"complete", "error", "cancelled"}, Panels!Ends(j, s), UNCHANGED Panels!control,
         MachineTypes', proven => proven',
         s = "complete" /\ job[j].kind = "model" => proven',
         s = "cancelled" /\ job[j].kind = "voice" => job[j].moved = {},
         ollama'.ours => ollama.ours, files' = files \/ job[j].kind = "voice"
  PROVE  SInv'
<1>0. JobTypes /\ ControlTypes /\ job[j] \in Panels!Job /\ JobOK(j) BY JobFields DEF SInv, STyped
<1> DEFINE r == [job[j] EXCEPT !.at = "dead", !.staged = {}]
<1>1. /\ r \in Panels!Job /\ r.kind = job[j].kind /\ r.stopped = job[j].stopped /\ r.at = "dead"
      /\ r.staged = {} /\ r.moved = job[j].moved /\ r.setup = job[j].setup /\ r.lost = job[j].lost
  BY <1>0 DEF Panels!Job, Panels!Places
<1>2. job' = [job EXCEPT ![j] = r] BY <1>0 DEF Panels!Ends, JobTypes
<1> HIDE DEF r
<1>3. Moved(j) /\ job'[j] = r BY <1>0, <1>1, <1>2, Rewritten
<1>4. s \in Panels!Statuses /\ s \notin Panels!Busy /\ job[j].kind \in Panels!Kinds BY <1>0 DEF Panels!Statuses, Panels!Busy, Panels!Job
<1>5. Said(j) /\ status'[job[j].kind] = s BY <1>0, <1>4, SaidOf DEF Panels!Ends
<1>6. Ok(j) BY <1>1, <1>3, <1>4, <1>5 DEF Ok, JobOK
<1>7. Owes(j)
  <2>1. ASSUME status'["model"] = "complete"
        PROVE  proven' \/ (status["model"] = "complete" /\ job[j].at # "ended")
    <3>1. CASE job[j].kind = "model" BY <1>5, <2>1, <3>1
    <3>2. CASE job[j].kind # "model"
      <4>1. status["model"] = "complete" BY <1>5, <2>1, <3>2 DEF Said, Panels!Kinds
      <4>2. job[j].at # "ended" BY <1>0, <1>4, <3>2 DEF JobOK, PlacesOf, Panels!Kinds
      <4> QED BY <4>1, <4>2
    <3> QED BY <3>1, <3>2
  <2> QED BY <1>1, <1>3, <2>1 DEF Owes
<1> QED BY <1>3, <1>5, <1>6, <1>7, StepDone

\* A job goes on, with a state or without one.
LEMMA GoesDone ==
  ASSUME SInv, NEW j \in DOMAIN job, job[j].at \notin {"dead", "ended"},
         NEW place \in Panels!Places \ {"dead"}, Panels!Goes(j, place), UNCHANGED Panels!control,
         NEW s \in Panels!Statuses, Panels!Sets(j, s) \/ (UNCHANGED status /\ s = status[job[j].kind]),
         MachineTypes', proven => proven',
         s = "complete" => UNCHANGED status \/ job[j].kind # "model" \/ place = "ended",
         s = "cancelled" => UNCHANGED status,
         job[j].at \in {"download", "verify"} /\ Panels!Cancelled(j) => place \in {"download", "verify"},
         ollama'.ours => ollama.ours \/ job[j].setup = "ended", files' = files,
         place \in PlacesOf[job[j].kind], place \in {"download", "verify", "execute"} => job[j].setup = "none",
         place \notin {"born", "open"}, place = "find" => job[j].setup = "ended",
         job[j].at \notin {"moving"},
         place \notin {"fetch", "moving"} => job[j].at # "fetch",
         place \in {"fetch", "moving"} => job[j].at = "fetch",
         place = "moving" => job[j].todo = {}
  PROVE  SInv'
<1>0. JobTypes /\ ControlTypes /\ job[j] \in Panels!Job /\ JobOK(j) /\ FilesOK(j)
  BY JobFields DEF SInv, STyped
<1> DEFINE r == [job[j] EXCEPT !.at = place]
<1>1. /\ r \in Panels!Job /\ r.kind = job[j].kind /\ r.stopped = job[j].stopped /\ r.at = place
      /\ r.staged = job[j].staged /\ r.moved = job[j].moved /\ r.setup = job[j].setup
      /\ r.todo = job[j].todo /\ r.lost = job[j].lost
  BY <1>0 DEF Panels!Job
<1>2. job' = [job EXCEPT ![j] = r] BY <1>0 DEF Panels!Goes, JobTypes
<1> HIDE DEF r
<1>3. Moved(j) /\ job'[j] = r BY <1>0, <1>1, <1>2, Rewritten
<1>4. job[j].kind \in Panels!Kinds BY <1>0 DEF Panels!Job
<1>5. Said(j) /\ status'[job[j].kind] = s BY <1>0, <1>4, SaidOf
<1>6. JobOK(j)' BY <1>0, <1>1, <1>3 DEF JobOK
<1>7. job[j].kind = "voice" /\ status'["voice"] = "cancelled" => status["voice"] = "cancelled"
  BY <1>5
<1>8. Ok(j) BY <1>1, <1>3, <1>6, <1>7 DEF Ok
<1>9. Owes(j)
  <2>1. status'["model"] = "complete" => place = "ended" \/ status["model"] = "complete"
    BY <1>4, <1>5 DEF Said, Panels!Kinds
  <2>2. place \in {"fetch", "moving"} => "voice" \in twice \/ \A f \in r.todo \cup r.staged : files'[f] # "good"
    BY <1>0, <1>1 DEF FilesOK
  <2> QED BY <1>1, <1>3, <2>1, <2>2 DEF Owes
<1> QED BY <1>3, <1>5, <1>8, <1>9, StepDone

\* A job that cannot make its directory ends, and says nothing of it.
LEMMA VanishesDone ==
  ASSUME SInv, NEW j \in DOMAIN job, job[j].at \in {"born", "pending", "info"}, Panels!Vanishes(j),
         UNCHANGED <<Panels!control, Panels!machine, proven>>, NEW s \in Panels!Busy \cup {status[job[j].kind]},
         Panels!Sets(j, s) \/ (UNCHANGED status /\ s = status[job[j].kind])
  PROVE  SInv'
<1>0. JobTypes /\ ControlTypes /\ MachineTypes /\ job[j] \in Panels!Job /\ JobOK(j)
  BY JobFields DEF SInv, STyped
<1> DEFINE r == [job[j] EXCEPT !.at = "dead", !.lost = TRUE]
<1>1. /\ r \in Panels!Job /\ r.kind = job[j].kind /\ r.stopped = job[j].stopped /\ r.at = "dead"
      /\ r.staged = job[j].staged /\ r.setup = job[j].setup /\ r.lost
  BY <1>0 DEF Panels!Job, Panels!Places
<1>2. job' = [job EXCEPT ![j] = r] BY <1>0 DEF Panels!Vanishes, JobTypes
<1> HIDE DEF r
<1>3. Moved(j) /\ job'[j] = r BY <1>0, <1>1, <1>2, Rewritten
<1>4. job[j].kind \in Panels!Kinds /\ s \in Panels!Statuses
  BY <1>0 DEF Panels!Job, ControlTypes, Panels!Statuses
<1>5. Said(j) /\ status'[job[j].kind] = s BY <1>0, <1>4, SaidOf
<1>6. status' = status \/ s \in Panels!Busy
  BY <1>0, <1>4 DEF Panels!Sets, ControlTypes
<1>7. \A k \in Panels!Kinds : status'[k] \in {"complete", "cancelled"} => status[k] = status'[k]
  BY <1>4, <1>5, <1>6 DEF Said, Panels!Busy
<1>8. JobOK(j)' BY <1>0, <1>1, <1>3 DEF JobOK
<1>9. Ok(j) BY <1>1, <1>3, <1>7, <1>8 DEF Ok, Panels!Kinds
<1>10. Owes(j) /\ MachineTypes'
  BY <1>0, <1>1, <1>3, <1>7 DEF Owes, MachineTypes, Panels!machine, Panels!Kinds
<1> QED BY <1>3, <1>5, <1>9, <1>10, StepDone

LEMMA StillTyped == MachineTypes /\ UNCHANGED <<Panels!machine, proven>> => MachineTypes'
BY DEF MachineTypes, Panels!machine

LEMMA OllamaParts ==
  ASSUME NEW o \in Ollamas
  PROVE  /\ [o EXCEPT !.here = TRUE] \in Ollamas /\ [o EXCEPT !.here = TRUE].ours = o.ours
         /\ [o EXCEPT !.serving = TRUE] \in Ollamas /\ [o EXCEPT !.serving = TRUE].ours = o.ours
         /\ [o EXCEPT !.model = TRUE] \in Ollamas /\ [o EXCEPT !.model = TRUE].ours = o.ours
         /\ [o EXCEPT !.ours = TRUE] \in Ollamas
BY DEF Ollamas

\* Where a job is, and of what kind it must be.
LEMMA HereIs ==
  ASSUME SInv, NEW j \in DOMAIN job
  PROVE  /\ JobTypes /\ ControlTypes /\ MachineTypes /\ JobOK(j) /\ job[j] \in Panels!Job
         /\ job[j].kind \in Panels!Kinds /\ status[job[j].kind] \in Panels!Statuses
         /\ \A k \in Panels!Kinds : job[j].at \in PlacesOf[k] => job[j].kind = k
BY JobFields DEF SInv, STyped, Panels!Job, ControlTypes, JobOK, PlacesOf, Panels!Kinds

LEMMA OllamaSteps ==
  ASSUME SInv, NEW j \in DOMAIN job,
         Panels!Start(j) \/ Panels!Download(j) \/ Panels!Verify(j) \/ Panels!Execute(j) \/ Panels!Find(j) \/ Panels!Serve(j)
  PROVE  SInv'
<1>0. /\ JobTypes /\ MachineTypes /\ JobOK(j) /\ job[j] \in Panels!Job
      /\ job[j].kind \in Panels!Kinds /\ status[job[j].kind] \in Panels!Statuses
      /\ \A k \in Panels!Kinds : job[j].at \in PlacesOf[k] => job[j].kind = k
  BY HereIs
<1> DEFINE P == Panels!FirstPlace[job[j].kind]
<1>1. CASE Panels!Start(j)
  <2>1. MachineTypes' /\ job[j].at = "born" BY <1>0, <1>1, StillTyped DEF Panels!Start, Panels!At
  <2>2. P \in PlacesOf[job[j].kind] /\ P \in {"download", "connect", "pending", "info"}
    BY <1>0 DEF Panels!FirstPlace, PlacesOf, Panels!Kinds
  <2>3. CASE Panels!Goes(j, P)
    BY <1>0, <1>1, <2>1, <2>2, <2>3, GoesDone DEF Panels!Start, Panels!machine, JobOK, Panels!Places
  <2>4. CASE Panels!Vanishes(j) BY <1>1, <2>1, <2>4, VanishesDone DEF Panels!Start
  <2> QED BY <1>1, <2>3, <2>4 DEF Panels!Start
<1>2. CASE Panels!Download(j)
  <2>1. MachineTypes' /\ job[j].at = "download" BY <1>0, <1>2, StillTyped DEF Panels!Download, Panels!At
  <2>2. job[j].kind = "ollama" BY <1>0, <2>1 DEF PlacesOf, Panels!Kinds
  <2>3. CASE Panels!Ends(j, "cancelled") BY <1>2, <2>1, <2>2, <2>3, EndsDone DEF Panels!Download, Panels!machine
  <2>4. CASE Panels!Ends(j, "error") BY <1>2, <2>1, <2>2, <2>4, EndsDone DEF Panels!Download, Panels!machine
  <2>5. CASE ~Panels!Cancelled(j) /\ Panels!Goes(j, "verify") /\ Panels!Sets(j, "verifying")
    BY <1>0, <1>2, <2>1, <2>2, <2>5, GoesDone
       DEF Panels!Download, Panels!machine, JobOK, Panels!Places, PlacesOf, Panels!Statuses, Panels!Busy
  <2> QED BY <1>2, <2>3, <2>4, <2>5 DEF Panels!Download
<1>3. CASE Panels!Verify(j)
  <2>1. MachineTypes' /\ job[j].at = "verify" BY <1>0, <1>3, StillTyped DEF Panels!Verify, Panels!At
  <2>2. job[j].kind = "ollama" BY <1>0, <2>1 DEF PlacesOf, Panels!Kinds
  <2>3. CASE Panels!Ends(j, "cancelled") BY <1>3, <2>1, <2>2, <2>3, EndsDone DEF Panels!Verify, Panels!machine
  <2>4. CASE Panels!Ends(j, "error") BY <1>3, <2>1, <2>2, <2>4, EndsDone DEF Panels!Verify, Panels!machine
  <2>5. CASE ~Panels!Cancelled(j) /\ Panels!Goes(j, "execute") /\ UNCHANGED status
    BY <1>0, <1>3, <2>1, <2>2, <2>5, GoesDone DEF Panels!Verify, Panels!machine, JobOK, Panels!Places, PlacesOf
  <2> QED BY <1>3, <2>3, <2>4, <2>5 DEF Panels!Verify
<1>4. CASE Panels!Execute(j)
  <2>1. MachineTypes' /\ job[j].at = "execute" BY <1>0, <1>4, StillTyped DEF Panels!Execute, Panels!At
  <2>2. job[j].kind = "ollama" BY <1>0, <2>1 DEF PlacesOf, Panels!Kinds
  <2>3. CASE Panels!Ends(j, "error") BY <1>4, <2>1, <2>2, <2>3, EndsDone DEF Panels!Execute, Panels!machine
  <2>4. CASE job' = [job EXCEPT ![j].at = "open", ![j].setup = "open"] /\ Panels!Sets(j, "installing")
    <3> DEFINE r == [job[j] EXCEPT !.at = "open", !.setup = "open"]
    <3>1. /\ r \in Panels!Job /\ r.kind = job[j].kind /\ r.stopped = job[j].stopped /\ r.at = "open"
          /\ r.staged = job[j].staged /\ r.moved = job[j].moved /\ r.setup = "open"
          /\ r.lost = job[j].lost
      BY <1>0 DEF Panels!Job, Panels!Places
    <3>2. job' = [job EXCEPT ![j] = r] BY <1>0, <2>4 DEF JobTypes
    <3> HIDE DEF r
    <3>3. Moved(j) /\ job'[j] = r BY <1>0, <2>1, <3>1, <3>2, Rewritten
    <3>4. Said(j) /\ status'[job[j].kind] = "installing"
      BY <1>0, <1>4, <2>4, HereIs, SaidOf DEF Panels!Execute, Panels!Statuses, Panels!Busy
    <3>5. JobOK(j)' BY <1>0, <2>1, <2>2, <3>1, <3>3 DEF JobOK, PlacesOf
    <3>6. Ok(j) BY <2>1, <2>2, <3>1, <3>3, <3>5 DEF Ok
    <3>7. Owes(j) BY <1>4, <2>1, <2>2, <3>1, <3>3, <3>4, <1>0 DEF Owes, Panels!Execute, Panels!machine, JobOK, Said, Panels!Kinds
    <3> QED BY <2>1, <3>3, <3>4, <3>6, <3>7, StepDone
  <2> QED BY <1>4, <2>3, <2>4 DEF Panels!Execute
<1>5. CASE Panels!Find(j)
  <2>1. job[j].at = "find" /\ job[j].setup = "ended" BY <1>0, <1>5 DEF Panels!Find, Panels!At, JobOK
  <2>2. job[j].kind = "ollama" BY <1>0, <2>1 DEF PlacesOf, Panels!Kinds
  <2>3. MachineTypes'
    <3>1. ollama' \in Ollamas BY <1>0, <1>5, OllamaParts DEF Panels!Find, MachineTypes
    <3> QED BY <1>0, <1>5, <3>1 DEF Panels!Find, MachineTypes
  <2>4. CASE Panels!Ends(j, "cancelled") /\ UNCHANGED ollama
    BY <1>5, <2>1, <2>2, <2>3, <2>4, EndsDone DEF Panels!Find
  <2>5. CASE Panels!Ends(j, "error") /\ UNCHANGED ollama
    BY <1>5, <2>1, <2>2, <2>3, <2>5, EndsDone DEF Panels!Find
  <2>6. CASE Panels!Goes(j, "serve") /\ UNCHANGED status
    BY <1>0, <1>5, <2>1, <2>2, <2>3, <2>6, GoesDone DEF Panels!Find, Panels!Places, PlacesOf
  <2> QED BY <1>5, <2>4, <2>5, <2>6 DEF Panels!Find
<1>6. CASE Panels!Serve(j)
  <2>1. job[j].at = "serve" BY <1>6 DEF Panels!Serve, Panels!At
  <2>2. job[j].kind = "ollama" BY <1>0, <2>1 DEF PlacesOf, Panels!Kinds
  <2>3. ollama' \in Ollamas /\ ollama'.ours = ollama.ours
    BY <1>0, <1>6, OllamaParts DEF Panels!Serve, MachineTypes
  <2>4. MachineTypes' BY <1>0, <1>6, <2>3 DEF Panels!Serve, MachineTypes
  <2> QED BY <1>6, <2>1, <2>2, <2>3, <2>4, EndsDone DEF Panels!Serve
<1> QED BY <1>1, <1>2, <1>3, <1>4, <1>5, <1>6

\* The installer that was opened returns, or is not waited for any longer.
LEMMA SetupSteps ==
  ASSUME SInv, NEW j \in DOMAIN job, Panels!SetupReturns(j) \/ Panels!SetupTimesOut(j)
  PROVE  SInv'
<1>0. /\ JobTypes /\ MachineTypes /\ JobOK(j) /\ job[j] \in Panels!Job
      /\ job[j].kind \in Panels!Kinds /\ status[job[j].kind] \in Panels!Statuses
      /\ \A k \in Panels!Kinds : job[j].at \in PlacesOf[k] => job[j].kind = k
  BY HereIs
<1>1. job[j].at = "open" /\ job[j].setup = "open"
  BY <1>0 DEF Panels!SetupReturns, Panels!SetupTimesOut, Panels!At, JobOK
<1>2. job[j].kind = "ollama" BY <1>0, <1>1 DEF PlacesOf, Panels!Kinds
<1>3. ollama' \in Ollamas /\ ollama'.ours = ollama.ours
  BY <1>0, OllamaParts DEF Panels!SetupReturns, Panels!SetupTimesOut, Panels!machine, MachineTypes
<1>4. MachineTypes' /\ UNCHANGED <<files, proven, Panels!control>>
  BY <1>0, <1>3 DEF Panels!SetupReturns, Panels!SetupTimesOut, Panels!machine, MachineTypes
<1>5. ASSUME NEW place \in {"find", "dead"}, NEW e \in {"ended", "refused", "killed"},
             place = "find" => e = "ended", NEW s \in {"starting", "error"},
             place = "dead" => s = "error", Panels!Sets(j, s),
             job' = [job EXCEPT ![j].at = place, ![j].setup = e]
      PROVE  SInv'
  <2> DEFINE r == [job[j] EXCEPT !.at = place, !.setup = e]
  <2>1. /\ r \in Panels!Job /\ r.kind = job[j].kind /\ r.stopped = job[j].stopped /\ r.at = place
        /\ r.staged = job[j].staged /\ r.moved = job[j].moved /\ r.setup = e
        /\ r.lost = job[j].lost
    BY <1>0 DEF Panels!Job, Panels!Places
  <2>2. job' = [job EXCEPT ![j] = r] BY <1>0, <1>5 DEF JobTypes
  <2> HIDE DEF r
  <2>3. Moved(j) /\ job'[j] = r BY <1>0, <1>1, <2>1, <2>2, Rewritten
  <2>4. Said(j) /\ status'[job[j].kind] = s
    BY <1>0, <1>4, <1>5, HereIs, SaidOf DEF Panels!Statuses, Panels!Busy
  <2>5. JobOK(j)' BY <1>0, <1>1, <1>2, <1>5, <2>1, <2>3 DEF JobOK, PlacesOf
  <2>6. Ok(j) BY <1>1, <1>2, <1>5, <2>1, <2>3, <2>4, <2>5 DEF Ok, Panels!Busy
  <2>7. Owes(j) BY <1>0, <1>1, <1>2, <1>3, <1>4, <2>1, <2>3, <2>4 DEF Owes, JobOK, Said, Panels!Kinds
  <2> QED BY <1>4, <2>3, <2>4, <2>6, <2>7, StepDone
<1>6. CASE Panels!SetupTimesOut(j) BY <1>5, <1>6 DEF Panels!SetupTimesOut
<1>7. CASE Panels!SetupReturns(j) BY <1>5, <1>7 DEF Panels!SetupReturns
<1> QED BY <1>6, <1>7

LEMMA ModelSteps ==
  ASSUME SInv, NEW j \in DOMAIN job,
         Panels!Connect(j) \/ Panels!ReadLine(j) \/ Panels!StreamEnds(j) \/ Panels!AfterStream(j) \/ Panels!Prove(j)
  PROVE  SInv'
<1>0. /\ JobTypes /\ MachineTypes /\ JobOK(j) /\ job[j] \in Panels!Job
      /\ job[j].kind \in Panels!Kinds /\ status[job[j].kind] \in Panels!Statuses
      /\ \A k \in Panels!Kinds : job[j].at \in PlacesOf[k] => job[j].kind = k
  BY HereIs
<1>1. job[j].at \in {"connect", "reading", "ended", "prove"} /\ UNCHANGED Panels!control
  BY DEF Panels!Connect, Panels!ReadLine, Panels!StreamEnds, Panels!AfterStream, Panels!Prove, Panels!At
<1>2. job[j].kind = "model" BY <1>0, <1>1 DEF PlacesOf, Panels!Kinds
<1>3. MachineTypes' /\ ollama'.ours = ollama.ours /\ files' = files /\ (proven => proven')
  <2>1. ollama' \in Ollamas /\ ollama'.ours = ollama.ours
    BY <1>0, OllamaParts
       DEF MachineTypes, Panels!Connect, Panels!ReadLine, Panels!StreamEnds, Panels!AfterStream, Panels!Prove, Panels!machine
  <2>2. UNCHANGED <<files, speech>> /\ (UNCHANGED proven \/ proven')
    BY DEF Panels!Connect, Panels!ReadLine, Panels!StreamEnds, Panels!AfterStream, Panels!Prove, Panels!machine
  <2>3. proven' \in BOOLEAN
    BY <1>0 DEF Panels!Connect, Panels!ReadLine, Panels!StreamEnds, Panels!AfterStream, Panels!Prove, MachineTypes
  <2> QED BY <1>0, <2>1, <2>2, <2>3 DEF MachineTypes
<1>4. ASSUME NEW s \in {"cancelled", "error"}, Panels!Ends(j, s) PROVE SInv'
  BY <1>1, <1>2, <1>3, <1>4, EndsDone
<1>5. ASSUME NEW place \in {"reading", "ended"}, job[j].at \in {"connect", "reading"}, Panels!Goes(j, place),
             NEW s \in Panels!Statuses, Panels!Sets(j, s) \/ (UNCHANGED status /\ s = status[job[j].kind]),
             s = "complete" => UNCHANGED status \/ place = "ended",
             s = "cancelled" => UNCHANGED status
      PROVE  SInv'
  <2>1. place \in Panels!Places \ {"dead"} /\ place \in PlacesOf[job[j].kind]
    BY <1>2 DEF Panels!Places, PlacesOf
  <2> QED BY <1>1, <1>2, <1>3, <1>5, <2>1, GoesDone
<1>6. CASE Panels!Connect(j)
  <2>1. CASE Panels!Ends(j, "error") BY <1>4, <2>1
  <2>2. CASE Panels!Goes(j, "reading") /\ UNCHANGED status
    BY <1>0, <1>5, <1>6, <2>2 DEF Panels!Connect, Panels!At
  <2> QED BY <1>6, <2>1, <2>2 DEF Panels!Connect
<1>7. CASE Panels!ReadLine(j)
  <2>0. job[j].at = "reading" BY <1>7 DEF Panels!ReadLine, Panels!At
  <2>1. CASE Panels!Ends(j, "cancelled") BY <1>4, <2>1
  <2>2. ASSUME NEW s \in {"downloading", "verifying"}, Panels!Sets(j, s), UNCHANGED job PROVE SInv'
    <3>1. Panels!Goes(j, "reading") BY <1>0, <2>0, <2>2 DEF Panels!Goes, Panels!Job, JobTypes
    <3> QED BY <1>5, <2>0, <2>2, <3>1 DEF Panels!Statuses, Panels!Busy
  <2>3. ASSUME NEW s \in {"error", "complete"}, Panels!Sets(j, s), Panels!Goes(j, "ended") PROVE SInv'
    BY <1>5, <2>0, <2>3 DEF Panels!Statuses
  <2> QED BY <1>7, <2>1, <2>2, <2>3 DEF Panels!ReadLine
<1>8. CASE Panels!StreamEnds(j)
  <2>1. CASE Panels!Ends(j, "error") BY <1>4, <2>1
  <2>2. CASE Panels!Goes(j, "ended") /\ UNCHANGED status
    BY <1>0, <1>5, <1>8, <2>2 DEF Panels!StreamEnds, Panels!At
  <2> QED BY <1>8, <2>1, <2>2 DEF Panels!StreamEnds
<1>9. CASE Panels!AfterStream(j)
  <2>0. job[j].at = "ended" BY <1>9 DEF Panels!AfterStream, Panels!At
  <2>1. ASSUME NEW place \in {"prove", "dead"}, Panels!Goes(j, place), NEW s \in Panels!Statuses,
               Panels!Sets(j, s) \/ (UNCHANGED status /\ s = status[job[j].kind]), s # "complete"
        PROVE  SInv'
    <3> DEFINE r == [job[j] EXCEPT !.at = place]
    <3>1. /\ r \in Panels!Job /\ r.kind = job[j].kind /\ r.stopped = job[j].stopped /\ r.at = place
          /\ r.staged = job[j].staged /\ r.moved = job[j].moved /\ r.setup = job[j].setup
          /\ r.lost = job[j].lost
      BY <1>0 DEF Panels!Job, Panels!Places
    <3>2. job' = [job EXCEPT ![j] = r] BY <1>0, <2>1 DEF Panels!Goes, JobTypes
    <3> HIDE DEF r
    <3>3. Moved(j) /\ job'[j] = r BY <1>0, <2>0, <3>1, <3>2, Rewritten
    <3>4. Said(j) /\ status'[job[j].kind] = s BY <1>0, <1>1, <2>1, HereIs, SaidOf
    <3>5. JobOK(j)' BY <1>0, <1>2, <2>0, <3>1, <3>3 DEF JobOK, PlacesOf
    <3>6. Ok(j) BY <1>2, <2>0, <3>1, <3>3, <3>5 DEF Ok
    <3>7. Owes(j) BY <1>2, <1>3, <2>0, <2>1, <3>1, <3>3, <3>4 DEF Owes
    <3> QED BY <1>3, <3>3, <3>4, <3>6, <3>7, StepDone
  <2>2. CASE Panels!Ends(j, "error") BY <1>4, <2>2
  <2>3. CASE Panels!Goes(j, "prove") /\ Panels!Sets(j, "verifying") BY <2>1, <2>3 DEF Panels!Statuses, Panels!Busy
  <2>4. CASE status["model"] # "complete" /\ Panels!Goes(j, "dead") /\ UNCHANGED status
    BY <1>0, <1>2, <2>1, <2>4
  <2> QED BY <1>9, <2>2, <2>3, <2>4 DEF Panels!AfterStream
<1>10. CASE Panels!Prove(j)
  <2>1. CASE Panels!Ends(j, "error") BY <1>4, <2>1
  <2>2. CASE proven' /\ Panels!Ends(j, "complete") BY <1>1, <1>2, <1>3, <2>2, EndsDone
  <2> QED BY <1>10, <2>1, <2>2 DEF Panels!Prove
<1> QED BY <1>6, <1>7, <1>8, <1>9, <1>10

LEMMA VoiceSteps ==
  ASSUME SInv, NEW j \in DOMAIN job, Panels!Pending(j) \/ Panels!Fetch(j) \/ Panels!Move(j)
  PROVE  SInv'
<1>0. /\ JobTypes /\ MachineTypes /\ JobOK(j) /\ FilesOK(j) /\ job[j] \in Panels!Job
      /\ job[j].kind \in Panels!Kinds /\ status[job[j].kind] \in Panels!Statuses
      /\ \A k \in Panels!Kinds : job[j].at \in PlacesOf[k] => job[j].kind = k
  BY HereIs DEF SInv
<1>1. /\ job[j].at \in {"pending", "fetch", "moving"} /\ UNCHANGED Panels!control
      /\ UNCHANGED <<ollama, speech, proven>>
  BY DEF Panels!Pending, Panels!Fetch, Panels!Move, Panels!At, Panels!machine
<1>2. job[j].kind = "voice" BY <1>0, <1>1 DEF PlacesOf, Panels!Kinds
<1>3. ASSUME NEW f \in Panels!Files, NEW v \in {"short", "good"}, files' = [files EXCEPT ![f] = v]
      PROVE  MachineTypes'
  BY <1>0, <1>1, <1>3 DEF MachineTypes
<1>4. ASSUME files' = files PROVE MachineTypes' BY <1>0, <1>1, <1>4 DEF MachineTypes
<1>5. ASSUME MachineTypes', NEW s \in {"complete", "error", "cancelled"}, Panels!Ends(j, s),
             s = "cancelled" => job[j].moved = {}
      PROVE  SInv'
  BY <1>1, <1>2, <1>5, EndsDone
<1>6. ASSUME MachineTypes', UNCHANGED status, NEW place \in {"fetch", "moving"},
             NEW todo \in SUBSET Panels!Files, NEW staged \in SUBSET Panels!Files, NEW moved \in SUBSET Panels!Files,
             place = "fetch" => moved = {}, place = "moving" => todo = {},
             "voice" \in twice \/ \A f \in todo \cup staged : files'[f] # "good",
             job' = [job EXCEPT ![j] = [job[j] EXCEPT !.at = place, !.todo = todo,
                                                      !.staged = staged, !.moved = moved]]
      PROVE  SInv'
  <2> DEFINE r == [job[j] EXCEPT !.at = place, !.todo = todo, !.staged = staged, !.moved = moved]
  <2>1. /\ r \in Panels!Job /\ r.kind = job[j].kind /\ r.stopped = job[j].stopped /\ r.at = place
        /\ r.todo = todo /\ r.staged = staged /\ r.moved = moved /\ r.setup = job[j].setup
        /\ r.lost = job[j].lost
    BY <1>0 DEF Panels!Job, Panels!Places
  <2>2. job' = [job EXCEPT ![j] = r] BY <1>6
  <2> HIDE DEF r
  <2>3. Moved(j) /\ job'[j] = r BY <1>0, <1>1, <2>1, <2>2, Rewritten
  <2>4. Said(j) BY <1>0, <1>1, <1>6, HereIs, SaidOf
  <2>5. JobOK(j)'
    <3>1. ~job[j].lost BY <1>0, <1>1 DEF JobOK
    <3> QED BY <1>2, <1>6, <2>1, <2>3, <3>1 DEF JobOK, PlacesOf
  <2>6. Ok(j) BY <1>1, <1>2, <1>6, <2>1, <2>3, <2>5 DEF Ok
  <2>7. Owes(j) BY <1>1, <1>2, <1>6, <2>1, <2>3 DEF Owes
  <2> QED BY <1>6, <2>3, <2>4, <2>6, <2>7, StepDone
<1>7. CASE Panels!Pending(j)
  <2>0. MachineTypes' /\ job[j].at = "pending" /\ files' = files
    BY <1>4, <1>7 DEF Panels!Pending, Panels!At, Panels!machine
  <2>1. CASE Panels!Ends(j, "complete") BY <1>5, <2>0, <2>1
  <2>2. CASE /\ job' = [job EXCEPT ![j].at = "fetch", ![j].todo = Panels!Missing(job[j].voice)]
             /\ UNCHANGED status
    <3> DEFINE M == Panels!Missing(job[j].voice)
    <3>1. M \in SUBSET Panels!Files /\ \A f \in M : files[f] # "good"
      BY <1>0 DEF Panels!Missing, Panels!Files, Panels!Job
    <3>2. job[j].staged = {} /\ job[j].moved = {} BY <1>0, <2>0 DEF JobOK
    <3>3. [job[j] EXCEPT !.at = "fetch", !.todo = M, !.staged = {}, !.moved = {}]
           = [job[j] EXCEPT !.at = "fetch", !.todo = M]
      BY <1>0, <3>2 DEF Panels!Job
    <3> HIDE DEF M
    <3>4. job' = [job EXCEPT ![j] = [job[j] EXCEPT !.at = "fetch", !.todo = M, !.staged = {}, !.moved = {}]]
      BY <1>0, <2>2, <3>3 DEF JobTypes, M
    <3>5. {} \in SUBSET Panels!Files /\ \A f \in M \cup {} : files'[f] # "good" BY <2>0, <3>1
    <3>6. MachineTypes' /\ UNCHANGED status BY <2>0, <2>2
    <3> QED BY <1>6, <3>1, <3>4, <3>5, <3>6
  <2>3. CASE Panels!Vanishes(j) /\ UNCHANGED status
    BY <1>7, <2>0, <2>3, VanishesDone DEF Panels!Pending
  <2> QED BY <1>7, <2>1, <2>2, <2>3 DEF Panels!Pending
<1>8. CASE Panels!Fetch(j)
  <2>0. /\ MachineTypes' /\ job[j].at = "fetch" /\ files' = files /\ job[j].moved = {}
    BY <1>0, <1>4, <1>8 DEF Panels!Fetch, Panels!At, Panels!machine, JobOK
  <2>1. CASE Panels!Ends(j, "cancelled") BY <1>5, <2>0, <2>1
  <2>2. CASE Panels!Ends(j, "error") BY <1>5, <2>0, <2>2
  <2>3. ASSUME NEW f \in job[j].todo, UNCHANGED status,
               job' = [job EXCEPT ![j].todo = job[j].todo \ {f}, ![j].staged = job[j].staged \cup {f}]
        PROVE  SInv'
    <3> DEFINE T == job[j].todo \ {f}
               G == job[j].staged \cup {f}
    <3>1. T \in SUBSET Panels!Files /\ G \in SUBSET Panels!Files /\ T \cup G = job[j].todo \cup job[j].staged
      BY <1>0 DEF Panels!Job
    <3>2. [job[j] EXCEPT !.at = "fetch", !.todo = T, !.staged = G, !.moved = {}]
           = [job[j] EXCEPT !.todo = T, !.staged = G]
      BY <1>0, <2>0 DEF Panels!Job
    <3>3. job' = [job EXCEPT ![j] = [job[j] EXCEPT !.at = "fetch", !.todo = T, !.staged = G, !.moved = {}]]
      BY <1>0, <2>3, <3>2 DEF JobTypes
    <3>4. "voice" \in twice \/ \A g \in T \cup G : files'[g] # "good"
      BY <1>0, <2>0, <3>1 DEF FilesOK
    <3> HIDE DEF T, G
    <3>5. {} \in SUBSET Panels!Files /\ MachineTypes' /\ UNCHANGED status BY <2>0, <2>3
    <3>6. T \in SUBSET Panels!Files /\ G \in SUBSET Panels!Files BY <3>1
    <3> QED BY <1>6, <3>3, <3>4, <3>5, <3>6
  <2>4. CASE job[j].todo = {} /\ Panels!Goes(j, "moving") /\ Panels!Sets(j, "installing")
    BY <1>1, <1>2, <2>0, <2>4, GoesDone DEF Panels!Places, PlacesOf, Panels!Statuses, Panels!Busy
  <2> QED BY <1>8, <2>1, <2>2, <2>3, <2>4 DEF Panels!Fetch
<1>9. CASE Panels!Move(j)
  <2>0. job[j].at = "moving" /\ job[j].todo = {} /\ job[j].staged \subseteq Panels!Files
    BY <1>0, <1>9 DEF Panels!Move, Panels!At, JobOK, Panels!Job
  <2>1. ASSUME NEW f \in job[j].staged, Panels!Placed(f), UNCHANGED status,
               job' = [job EXCEPT ![j].staged = job[j].staged \ {f}, ![j].moved = job[j].moved \cup {f}]
        PROVE  SInv'
    <3> DEFINE G == job[j].staged \ {f}
               D == job[j].moved \cup {f}
    <3>1. G \in SUBSET Panels!Files /\ D \in SUBSET Panels!Files BY <1>0, <2>0 DEF Panels!Job
    <3>2. [job[j] EXCEPT !.at = "moving", !.todo = {}, !.staged = G, !.moved = D]
           = [job[j] EXCEPT !.staged = G, !.moved = D]
      BY <1>0, <2>0 DEF Panels!Job
    <3>3. job' = [job EXCEPT ![j] = [job[j] EXCEPT !.at = "moving", !.todo = {}, !.staged = G, !.moved = D]]
      BY <1>0, <2>1, <3>2 DEF JobTypes
    <3>4. MachineTypes' BY <1>3, <2>0, <2>1 DEF Panels!Placed
    <3>5. \A g \in {} \cup G : files'[g] = files[g]
      BY <1>0, <2>0, <2>1 DEF Panels!Placed, MachineTypes
    <3>6. "voice" \in twice \/ \A g \in {} \cup G : files'[g] # "good"
      BY <1>0, <2>0, <3>5 DEF FilesOK
    <3> HIDE DEF G, D
    <3> QED BY <1>6, <2>1, <3>1, <3>3, <3>4, <3>6
  <2>2. ASSUME NEW f \in job[j].staged, files' \in {files, [files EXCEPT ![f] = "short"]},
               Panels!Ends(j, "error")
        PROVE  SInv'
    BY <1>3, <1>4, <1>5, <2>0, <2>2
  <2>3. CASE Panels!Ends(j, "complete") /\ UNCHANGED files BY <1>4, <1>5, <2>3
  <2> QED BY <1>9, <2>1, <2>2, <2>3 DEF Panels!Move
<1> QED BY <1>7, <1>8, <1>9

LEMMA SpeechSteps ==
  ASSUME SInv, NEW j \in DOMAIN job, Panels!Info(j) \/ Panels!Get(j) \/ Panels!Replace(j)
  PROVE  SInv'
<1>0. /\ JobTypes /\ MachineTypes /\ JobOK(j) /\ job[j] \in Panels!Job
      /\ job[j].kind \in Panels!Kinds /\ status[job[j].kind] \in Panels!Statuses
      /\ \A k \in Panels!Kinds : job[j].at \in PlacesOf[k] => job[j].kind = k
  BY HereIs
<1>1. /\ job[j].at \in {"info", "get", "remove"} /\ UNCHANGED Panels!control
      /\ UNCHANGED <<ollama, files, proven>>
  BY DEF Panels!Info, Panels!Get, Panels!Replace, Panels!At, Panels!machine
<1>2. job[j].kind = "speech" BY <1>0, <1>1 DEF PlacesOf, Panels!Kinds
<1>3. MachineTypes'
  <2>1. speech' \in {"absent", "damaged", "whole"}
    BY <1>0 DEF Panels!Info, Panels!Get, Panels!Replace, Panels!machine, MachineTypes
  <2> QED BY <1>0, <1>1, <2>1 DEF MachineTypes
<1>4. ASSUME NEW s \in {"complete", "error", "cancelled"}, Panels!Ends(j, s) PROVE SInv'
  BY <1>1, <1>2, <1>3, <1>4, EndsDone
<1>5. ASSUME NEW place \in {"get", "remove"}, Panels!Goes(j, place),
             NEW s \in {"downloading", "installing"}, Panels!Sets(j, s)
      PROVE  SInv'
  BY <1>1, <1>2, <1>3, <1>5, GoesDone DEF Panels!Places, PlacesOf, Panels!Statuses, Panels!Busy
<1>6. CASE Panels!Info(j)
  <2>1. CASE Panels!Vanishes(j) /\ Panels!Sets(j, "downloading")
    BY <1>6, <2>1, VanishesDone DEF Panels!Info, Panels!At, Panels!Busy
  <2> QED BY <1>4, <1>5, <1>6, <2>1 DEF Panels!Info
<1>7. CASE Panels!Get(j)
  <2>1. CASE UNCHANGED job /\ Panels!Sets(j, "downloading")
    <3>1. Panels!Goes(j, "get") BY <1>0, <1>7, <2>1 DEF Panels!Goes, Panels!Get, Panels!At, Panels!Job, JobTypes
    <3> QED BY <1>5, <2>1, <3>1
  <2> QED BY <1>4, <1>5, <1>7, <2>1 DEF Panels!Get
<1>8. CASE Panels!Replace(j) BY <1>4, <1>8 DEF Panels!Replace
<1> QED BY <1>6, <1>7, <1>8

-----------------------------------------------------------------------------
(* What is pressed. *)

LEMMA InstallStep ==
  ASSUME SInv, NEW k \in Panels!Kinds, NEW v \in Voices, Panels!Begin(k, v)
  PROVE  SInv'
<1> DEFINE n == Len(job) + 1
           new == [kind |-> k, at |-> "born", voice |-> v, todo |-> {}, staged |-> {},
                   moved |-> {}, stopped |-> FALSE, lost |-> FALSE, setup |-> "none"]
           old == thread[k]
<1>0. /\ JobTypes /\ ControlTypes /\ MachineTypes
      /\ DOMAIN job = 1..Len(job) /\ Len(job) \in Nat
      /\ \A i \in DOMAIN job : job[i] \in Panels!Job /\ JobOK(i) /\ StoppedOK(i) /\ FilesOK(i)
  BY JobFields DEF SInv, STyped
<1>1. /\ job' = Append(job, new) /\ Len(job) < MaxJobs /\ UNCHANGED <<Panels!machine, proven, presses>>
      /\ thread' = [thread EXCEPT ![k] = n] /\ cancel' = [cancel EXCEPT ![k] = FALSE]
      /\ old = 0 \/ ~Panels!Alive(old)
      /\ status' = [status EXCEPT ![k] = IF k = "speech" THEN "checking" ELSE "downloading"]
      /\ twice' = twice \cup {c \in {k} : old \in DOMAIN job /\ job[old].at = "born"}
  BY DEF Panels!Begin
<1>2. new \in Panels!Job /\ new.kind = k /\ new.at = "born" /\ ~new.stopped /\ new.setup = "none"
      /\ new.moved = {} /\ new.staged = {} /\ ~new.lost
  BY DEF Panels!Job, Panels!Places
<1>3. /\ job' \in Seq(Panels!Job) /\ Len(job') = n /\ DOMAIN job' = 1..n /\ job'[n] = new
      /\ \A i \in DOMAIN job : job'[i] = job[i]
  BY <1>0, <1>1, <1>2 DEF JobTypes
<1> HIDE DEF new
<1>4. n \in DOMAIN job' /\ n \notin DOMAIN job /\ \A i \in DOMAIN job' : i # n => i \in DOMAIN job
  BY <1>0, <1>3
<1>5. JobTypes'
  <2>1. n \in Nat /\ n <= MaxJobs BY <1>0, <1>1, SetupAssumption
  <2>2. thread' \in [Panels!Kinds -> 0..n] BY <1>0, <1>1 DEF JobTypes
  <2> QED BY <1>3, <2>1, <2>2 DEF JobTypes
<1>6. ControlTypes' BY <1>0, <1>1 DEF ControlTypes, Panels!Statuses, Panels!Busy
<1>7. MachineTypes' BY <1>0, <1>1, StillTyped
<1>8. twice \subseteq twice' /\ \A c \in Panels!Kinds \ {k} : thread'[c] = thread[c] /\ cancel'[c] = cancel[c]
                                                     /\ status'[c] = status[c]
  BY <1>0, <1>1 DEF JobTypes, ControlTypes
<1>9. k \notin twice' => \A i \in DOMAIN job : job[i].kind = k => job[i].at = "dead"
  <2> SUFFICES ASSUME k \notin twice', NEW i \in DOMAIN job, job[i].kind = k, job[i].at # "dead"
               PROVE  FALSE
    OBVIOUS
  <2>1. i = old BY <1>8 DEF SInv, OneJob
  <2>2. job[old].at = "born" BY <1>0, <1>1, <2>1 DEF Panels!Alive
  <2> QED BY <1>1, <2>1, <2>2
<1>10. ASSUME NEW i \in DOMAIN job' PROVE JobOK(i)' /\ StoppedOK(i)' /\ FilesOK(i)'
  <2>1. CASE i = n BY <1>2, <1>3, <2>1 DEF JobOK, StoppedOK, FilesOK
  <2>2. CASE i # n
    <3>1. i \in DOMAIN job /\ job'[i] = job[i] BY <1>3, <1>4, <2>2
    <3>2. JobOK(i)' BY <1>0, <3>1 DEF JobOK
    <3>3. FilesOK(i)' BY <1>0, <1>1, <1>8, <3>1 DEF FilesOK, Panels!machine
    <3>4. StoppedOK(i)'
      <4> SUFFICES ASSUME "ollama" \notin twice', job[i].stopped
                   PROVE  /\ job[i].setup = "none"
                          /\ job[i].at = "dead" \/ (job[i].at \in {"download", "verify"} /\ cancel'["ollama"])
        BY <3>1 DEF StoppedOK
      <4>1. /\ job[i].setup = "none"
            /\ job[i].at = "dead" \/ (job[i].at \in {"download", "verify"} /\ cancel["ollama"])
        BY <1>0, <1>8, <3>1 DEF StoppedOK
      <4>2. CASE k # "ollama" BY <1>8, <4>1, <4>2 DEF Panels!Kinds
      <4>3. CASE k = "ollama"
        <5>1. job[i].at \in {"download", "verify"} => job[i].kind = k
          BY <1>0, <3>1, <4>3 DEF JobOK, PlacesOf, Panels!Job, Panels!Kinds
        <5> QED BY <1>9, <3>1, <4>1, <4>3, <5>1
      <4> QED BY <4>2, <4>3
    <3> QED BY <3>2, <3>3, <3>4
  <2> QED BY <2>1, <2>2
<1>11. ASSUME NEW c \in Panels!Kinds PROVE OneJob(c)'
  <2> SUFFICES ASSUME c \notin twice', NEW i \in DOMAIN job', job'[i].kind = c, job'[i].at # "dead"
               PROVE  i = thread'[c]
    BY DEF OneJob
  <2>1. CASE i = n BY <1>0, <1>1, <1>2, <1>3, <2>1 DEF JobTypes
  <2>2. CASE i # n /\ c = k BY <1>3, <1>4, <1>9, <2>2
  <2>3. CASE i # n /\ c # k BY <1>3, <1>4, <1>8, <2>3 DEF SInv, OneJob
  <2> QED BY <2>1, <2>2, <2>3
<1>12. ReportOK'
  <2>1. CASE k = "voice" BY <1>0, <1>1, <2>1 DEF ReportOK, ControlTypes
  <2>2. CASE k # "voice"
    <3>1. thread'["voice"] = thread["voice"] /\ status'["voice"] = status["voice"]
      BY <1>8, <2>2 DEF Panels!Kinds
    <3>2. thread["voice"] # 0 => thread["voice"] \in DOMAIN job
      BY <1>0 DEF JobTypes, Panels!Kinds
    <3> QED BY <1>3, <1>8, <3>1, <3>2 DEF SInv, ReportOK
  <2> QED BY <2>1, <2>2
<1>13. Panels!BusyIsReal'
  <2> SUFFICES ASSUME NEW c \in Panels!Kinds, c # "model", status'[c] \in Panels!Busy
               PROVE  Panels!Working(c)' \/ Panels!DiedUnheard(c)'
    BY DEF Panels!BusyIsReal
  <2>1. CASE c = k BY <1>2, <1>3, <1>4, <2>1 DEF Panels!Working
  <2>2. CASE c # k
    <3>1. CASE Panels!Working(c) BY <1>0, <1>3, <3>1 DEF Panels!Working
    <3>2. CASE Panels!DiedUnheard(c) BY <1>0, <1>3, <1>8, <2>2, <3>2 DEF Panels!DiedUnheard
    <3> QED BY <1>8, <2>2, <3>1, <3>2 DEF SInv, Panels!BusyIsReal
  <2> QED BY <2>1, <2>2
<1>14. Panels!CompleteMeansAnswered'
  <2> SUFFICES ASSUME status'["model"] = "complete", ~proven
               PROVE  \E i \in DOMAIN job' : job'[i].at = "ended"
    BY <1>1 DEF Panels!CompleteMeansAnswered, Panels!At
  <2>1. status["model"] = "complete" BY <1>0, <1>1 DEF ControlTypes, Panels!Kinds
  <2>2. PICK i \in DOMAIN job : job[i].at = "ended"
    BY <2>1 DEF SInv, Panels!CompleteMeansAnswered, Panels!At
  <2> QED BY <1>0, <1>3, <2>2
<1>15. Panels!OursOnlyIfInstalled'
  <2> SUFFICES ASSUME ollama.ours PROVE \E i \in DOMAIN job' : job'[i].setup = "ended"
    BY <1>1 DEF Panels!OursOnlyIfInstalled, Panels!machine
  <2>1. PICK i \in DOMAIN job : job[i].setup = "ended" BY DEF SInv, Panels!OursOnlyIfInstalled
  <2> QED BY <1>0, <1>3, <2>1
<1> QED BY <1>5, <1>6, <1>7, <1>10, <1>11, <1>12, <1>13, <1>14, <1>15 DEF SInv, STyped

LEMMA CancelStep ==
  ASSUME SInv, NEW k \in Panels!Kinds, Panels!Cancel(k)
  PROVE  SInv'
<1>0. /\ JobTypes /\ ControlTypes /\ MachineTypes
      /\ DOMAIN job = 1..Len(job) /\ Len(job) \in Nat
      /\ \A i \in DOMAIN job : job[i] \in Panels!Job /\ JobOK(i) /\ StoppedOK(i) /\ FilesOK(i)
  BY JobFields DEF SInv, STyped
<1>1. /\ UNCHANGED <<thread, status, Panels!machine, proven, twice>>
      /\ cancel' = [cancel EXCEPT ![k] = TRUE] /\ presses < MaxPresses /\ presses' = presses + 1
      /\ job' = [j \in DOMAIN job |->
                   IF job[j].kind = k /\ job[j].at \in {"download", "verify"}
                     THEN [job[j] EXCEPT !.stopped = TRUE] ELSE job[j]]
  BY DEF Panels!Cancel, Panels!Press
<1>2. ASSUME NEW i \in DOMAIN job
      PROVE  /\ job'[i] \in Panels!Job /\ job'[i].kind = job[i].kind /\ job'[i].at = job[i].at
             /\ job'[i].setup = job[i].setup /\ job'[i].moved = job[i].moved
             /\ job'[i].staged = job[i].staged /\ job'[i].todo = job[i].todo
             /\ job'[i].lost = job[i].lost
             /\ job'[i].stopped =>
                  job[i].stopped \/ (job[i].kind = k /\ job[i].at \in {"download", "verify"})
  BY <1>0, <1>1 DEF Panels!Job
<1>3. job' \in Seq(Panels!Job) /\ Len(job') = Len(job) /\ DOMAIN job' = DOMAIN job
  <2>1. DOMAIN job' = 1..Len(job) BY <1>0, <1>1
  <2>2. job' \in [1..Len(job) -> Panels!Job] BY <1>0, <1>1, <1>2
  <2> QED BY <1>0, <2>1, <2>2
<1>4. JobTypes' BY <1>0, <1>1, <1>3 DEF JobTypes
<1>5. ControlTypes' BY <1>0, <1>1, SetupAssumption DEF ControlTypes
<1>6. MachineTypes' BY <1>0, <1>1, StillTyped
<1>7. ASSUME NEW i \in DOMAIN job' PROVE JobOK(i)' /\ StoppedOK(i)' /\ FilesOK(i)'
  <2>1. i \in DOMAIN job BY <1>3
  <2>2. JobOK(i)' BY <1>0, <1>2, <2>1 DEF JobOK
  <2>3. FilesOK(i)' BY <1>0, <1>1, <1>2, <2>1 DEF FilesOK, Panels!machine
  <2>4. StoppedOK(i)'
    <3>1. cancel["ollama"] => cancel'["ollama"] BY <1>0, <1>1 DEF ControlTypes, Panels!Kinds
    <3>2. ASSUME job[i].kind = k, job[i].at \in {"download", "verify"}
          PROVE  cancel'["ollama"] /\ job[i].setup = "none"
      <4>1. k = "ollama" BY <1>0, <2>1, <3>2 DEF JobOK, PlacesOf, Panels!Kinds
      <4> QED BY <1>0, <1>1, <2>1, <3>2, <4>1 DEF JobOK, ControlTypes
    <3> QED BY <1>0, <1>1, <1>2, <2>1, <3>1, <3>2 DEF StoppedOK
  <2> QED BY <2>2, <2>3, <2>4
<1>8. ASSUME NEW c \in Panels!Kinds PROVE OneJob(c)' BY <1>1, <1>2, <1>3 DEF SInv, OneJob
<1>9. ReportOK'
  <2>1. thread["voice"] # 0 => thread["voice"] \in DOMAIN job BY <1>0 DEF JobTypes, Panels!Kinds
  <2> QED BY <1>1, <1>2, <2>1 DEF SInv, ReportOK
<1>10. Panels!BusyIsReal'
  BY <1>1, <1>2, <1>3 DEF SInv, Panels!BusyIsReal, Panels!Working, Panels!DiedUnheard
<1>11. Panels!CompleteMeansAnswered' BY <1>1, <1>2, <1>3 DEF SInv, Panels!CompleteMeansAnswered, Panels!At
<1>12. Panels!OursOnlyIfInstalled' BY <1>1, <1>2, <1>3 DEF SInv, Panels!OursOnlyIfInstalled, Panels!machine
<1> QED BY <1>4, <1>5, <1>6, <1>7, <1>8, <1>9, <1>10, <1>11, <1>12 DEF SInv, STyped

LEMMA RestartStep ==
  ASSUME SInv, Panels!Restart
  PROVE  SInv'
<1>0. /\ JobTypes /\ ControlTypes /\ MachineTypes
      /\ DOMAIN job = 1..Len(job) /\ Len(job) \in Nat
      /\ \A i \in DOMAIN job : job[i] \in Panels!Job /\ JobOK(i) /\ StoppedOK(i)
  BY JobFields DEF SInv, STyped
<1>1. /\ UNCHANGED <<ollama, speech, proven, twice>> /\ presses < MaxPresses /\ presses' = presses + 1
      /\ job' = [j \in DOMAIN job |-> [job[j] EXCEPT !.at = "dead", !.staged = {}, !.lost = FALSE]]
      /\ thread' = [k \in Panels!Kinds |-> 0] /\ cancel' = [k \in Panels!Kinds |-> FALSE]
      /\ status' = [k \in Panels!Kinds |-> "idle"]
  BY DEF Panels!Restart, Panels!Press
<1>2. ASSUME NEW i \in DOMAIN job
      PROVE  /\ job'[i] \in Panels!Job /\ job'[i].at = "dead" /\ job'[i].setup = job[i].setup
             /\ job'[i].staged = {} /\ job'[i].stopped = job[i].stopped /\ ~job'[i].lost
  BY <1>0, <1>1 DEF Panels!Job, Panels!Places
<1>3. job' \in Seq(Panels!Job) /\ Len(job') = Len(job) /\ DOMAIN job' = DOMAIN job
  <2>1. DOMAIN job' = 1..Len(job) BY <1>0, <1>1
  <2>2. job' \in [1..Len(job) -> Panels!Job] BY <1>0, <1>1, <1>2
  <2> QED BY <1>0, <2>1, <2>2
<1>4. JobTypes'
  <2>0. 0 \in 0..Len(job) BY <1>0
  <2>1. thread' \in [Panels!Kinds -> 0..Len(job)]
    <3>1. thread' = [k \in Panels!Kinds |-> 0] BY DEF Panels!Restart
    <3> QED BY <2>0, <3>1
  <2> QED BY <1>0, <1>3, <2>1 DEF JobTypes
<1>5. ControlTypes'
  <2>1. cancel' \in [Panels!Kinds -> BOOLEAN] BY <1>1
  <2>2. status' \in [Panels!Kinds -> Panels!Statuses] BY <1>1 DEF Panels!Statuses
  <2>3. presses' \in 0..MaxPresses
    <3>1. presses \in 0..MaxPresses BY <1>0 DEF ControlTypes
    <3>2. presses < MaxPresses /\ presses' = presses + 1 BY DEF Panels!Restart, Panels!Press
    <3> QED BY <3>1, <3>2, SetupAssumption
  <2> QED BY <1>0, <1>1, <2>1, <2>2, <2>3 DEF ControlTypes
<1>6. MachineTypes'
  <2>1. files' \in [Panels!Files -> {"absent", "short", "bad", "good"}]
    <3>1. CASE UNCHANGED files BY <1>0, <3>1 DEF MachineTypes
    <3>2. ASSUME NEW f, files' = [files EXCEPT ![f] = "short"]
          PROVE  files' \in [Panels!Files -> {"absent", "short", "bad", "good"}]
      BY <1>0, <3>2 DEF MachineTypes
    <3> QED BY <3>1, <3>2 DEF Panels!Restart
  <2> QED BY <1>0, <1>1, <2>1 DEF MachineTypes
<1>7. ASSUME NEW i \in DOMAIN job' PROVE JobOK(i)' /\ StoppedOK(i)' /\ FilesOK(i)'
  <2>1. i \in DOMAIN job /\ job'[i].at = "dead" BY <1>2, <1>3
  <2>2. JobOK(i)' BY <1>2, <2>1 DEF JobOK
  <2>3. StoppedOK(i)' BY <1>0, <1>1, <1>2, <2>1 DEF StoppedOK
  <2>4. FilesOK(i)' BY <2>1 DEF FilesOK
  <2> QED BY <2>2, <2>3, <2>4
<1>8. ASSUME NEW c \in Panels!Kinds PROVE OneJob(c)' BY <1>2, <1>3 DEF OneJob
<1>9. ReportOK' /\ Panels!BusyIsReal' /\ Panels!CompleteMeansAnswered'
  BY <1>1 DEF ReportOK, Panels!BusyIsReal, Panels!CompleteMeansAnswered, Panels!Busy, Panels!Kinds
<1>10. Panels!OursOnlyIfInstalled' BY <1>1, <1>2, <1>3 DEF SInv, Panels!OursOnlyIfInstalled
<1> QED BY <1>4, <1>5, <1>6, <1>7, <1>8, <1>9, <1>10 DEF SInv, STyped

LEMMA HandSteps ==
  ASSUME SInv, Panels!StartOllama \/ Panels!ByHand
  PROVE  SInv'
<1>0. JobTypes /\ ControlTypes /\ MachineTypes BY DEF SInv, STyped
<1>1. /\ UNCHANGED <<job, thread, cancel, status, files, speech, proven, twice>>
      /\ presses < MaxPresses /\ presses' = presses + 1
  BY DEF Panels!StartOllama, Panels!ByHand, Panels!Press
<1>2. ollama' \in Ollamas /\ ollama'.ours = ollama.ours
  <2>1. ollama \in Ollamas BY <1>0 DEF MachineTypes
  <2>2. CASE Panels!StartOllama BY <2>1, <2>2, OllamaParts DEF Panels!StartOllama
  <2>3. CASE ollama' = [ollama EXCEPT !.here = TRUE, !.serving = TRUE] BY <2>1, <2>3 DEF Ollamas
  <2>4. ASSUME NEW b \in BOOLEAN, \/ ollama' = [ollama EXCEPT !.serving = b]
                                  \/ ollama' = [ollama EXCEPT !.model = b]
        PROVE  ollama' \in Ollamas /\ ollama'.ours = ollama.ours
    BY <2>1, <2>4 DEF Ollamas
  <2>5. (ollama.here /\ ~ollama.serving) \in BOOLEAN /\ (ollama.model \/ ollama.serving) \in BOOLEAN
    OBVIOUS
  <2> QED BY <2>2, <2>3, <2>4, <2>5 DEF Panels!ByHand
<1>3. JobTypes' BY <1>0, <1>1 DEF JobTypes
<1>4. ControlTypes' BY <1>0, <1>1, SetupAssumption DEF ControlTypes
<1>5. MachineTypes' BY <1>0, <1>1, <1>2 DEF MachineTypes
<1>6. ASSUME NEW i \in DOMAIN job' PROVE JobOK(i)' /\ StoppedOK(i)' /\ FilesOK(i)'
  BY <1>1 DEF SInv, JobOK, StoppedOK, FilesOK
<1>7. ASSUME NEW k \in Panels!Kinds PROVE OneJob(k)' BY <1>1 DEF SInv, OneJob
<1>8. ReportOK' /\ Panels!BusyIsReal' /\ Panels!CompleteMeansAnswered' /\ Panels!OursOnlyIfInstalled'
  BY <1>1, <1>2 DEF SInv, ReportOK, Panels!BusyIsReal, Panels!Working, Panels!DiedUnheard, Panels!CompleteMeansAnswered, Panels!At,
                    Panels!OursOnlyIfInstalled
<1> QED BY <1>3, <1>4, <1>5, <1>6, <1>7, <1>8 DEF SInv, STyped

LEMMA SetupNext == SInv /\ [Panels!Next]_(Panels!vars) => SInv'
<1> SUFFICES ASSUME SInv, [Panels!Next]_(Panels!vars) PROVE SInv' OBVIOUS
<1>1. ASSUME NEW k \in Panels!Kinds, Panels!Cancel(k) \/ (\E v \in Voices : Panels!Install(k, v)) PROVE SInv'
  BY <1>1, CancelStep, InstallStep DEF Panels!Install
<1>2. ASSUME NEW j \in DOMAIN job, Panels!Step(j) PROVE SInv'
  BY <1>2, OllamaSteps, SetupSteps, ModelSteps, VoiceSteps, SpeechSteps DEF Panels!Step
<1>3. CASE Panels!StartOllama \/ Panels!ByHand \/ Panels!Restart BY <1>3, HandSteps, RestartStep
<1>4. CASE UNCHANGED Panels!vars
  BY <1>4 DEF Panels!vars, SInv, STyped, JobTypes, ControlTypes, MachineTypes, JobOK, StoppedOK,
              FilesOK, OneJob, ReportOK, Panels!BusyIsReal, Panels!Working, Panels!DiedUnheard, Panels!CompleteMeansAnswered, Panels!At,
              Panels!OursOnlyIfInstalled
<1> QED BY <1>1, <1>2, <1>3, <1>4 DEF Panels!Next

\* The bookkeeping of the four installers.
THEOREM SetupBookkeeping == Panels!Spec => []SInv
BY SetupInit, SetupNext, PTL DEF Panels!Spec

\* Every variable of the installers keeps its type.
THEOREM SetupTypes == Panels!Spec => []Panels!TypeOK
<1>1. SInv => Panels!TypeOK BY STypedIsTypeOK DEF SInv
<1> QED BY <1>1, SetupBookkeeping, PTL

LEMMA SInvIsHonest == SInv => Panels!StatusIsHonest
<1> SUFFICES ASSUME SInv PROVE Panels!CancelledChangesNothing /\ Panels!CancelledIsNotRun
  BY DEF SInv, Panels!StatusIsHonest
<1>1. Panels!CancelledChangesNothing BY DEF SInv, ReportOK, Panels!CancelledChangesNothing
<1>2. Panels!CancelledIsNotRun BY DEF SInv, StoppedOK, Panels!CancelledIsNotRun
<1> QED BY <1>1, <1>2

\* What the panels and the uninstaller are told is so, and what is reported as cancelled
\* did not happen and does not happen any more, for any number of downloads and presses.
THEOREM StatusStaysHonest == Panels!Spec => []StatusIsHonest
<1>1. SInv => StatusIsHonest BY SInvIsHonest DEF StatusIsHonest
<1> QED BY <1>1, SetupBookkeeping, PTL

LEMMA GoodStep ==
  ASSUME SInv, [Panels!Next]_(Panels!vars), NEW f \in Panels!Files, files[f] = "good", "voice" \notin twice
  PROVE  files'[f] = "good"
<1>0. files \in [Panels!Files -> {"absent", "short", "bad", "good"}] BY DEF SInv, STyped, MachineTypes
<1>1. ASSUME NEW j \in DOMAIN job, NEW g \in job[j].staged, job[j].at = "moving" PROVE g # f
  BY <1>1 DEF SInv, FilesOK
<1>2. ASSUME NEW g, g # f, NEW v, files' = [files EXCEPT ![g] = v] PROVE files'[f] = "good"
  BY <1>0, <1>2
<1>3. CASE files' = files BY <1>3
<1>4. ASSUME NEW j \in DOMAIN job, Panels!Move(j) PROVE files'[f] = "good"
  <2>1. job[j].at = "moving" BY <1>4 DEF Panels!Move, Panels!At
  <2>2. ASSUME NEW g \in job[j].staged, Panels!Placed(g) PROVE files'[f] = "good"
    BY <1>1, <1>2, <2>1, <2>2 DEF Panels!Placed
  <2>3. ASSUME NEW g \in job[j].staged, files' \in {files, [files EXCEPT ![g] = "short"]}
        PROVE  files'[f] = "good"
    BY <1>1, <1>2, <2>1, <2>3
  <2> QED BY <1>4, <2>2, <2>3 DEF Panels!Move
<1>5. CASE Panels!Restart
  <2>1. ASSUME NEW j \in DOMAIN job, Panels!At(j, "moving"), NEW g \in job[j].staged,
               files' = [files EXCEPT ![g] = "short"]
        PROVE  files'[f] = "good"
    BY <1>1, <1>2, <2>1 DEF Panels!At
  <2> QED BY <1>5, <2>1 DEF Panels!Restart
<1>6. ASSUME NEW j \in DOMAIN job, Panels!Step(j), ~Panels!Move(j) PROVE files' = files
  BY <1>6 DEF Panels!Step, Panels!Start, Panels!Download, Panels!Verify, Panels!Execute, Panels!SetupReturns, Panels!SetupTimesOut, Panels!Find, Panels!Serve,
              Panels!Connect, Panels!ReadLine, Panels!StreamEnds, Panels!AfterStream, Panels!Prove, Panels!Pending, Panels!Fetch, Panels!Info, Panels!Get,
              Panels!Replace, Panels!machine
<1>7. ASSUME NEW k \in Panels!Kinds, Panels!Cancel(k) \/ (\E v \in Voices : Panels!Install(k, v)) PROVE files' = files
  BY <1>7 DEF Panels!Cancel, Panels!Install, Panels!Begin, Panels!machine
<1>8. CASE Panels!StartOllama \/ Panels!ByHand BY <1>8 DEF Panels!StartOllama, Panels!ByHand
<1>9. CASE UNCHANGED Panels!vars BY <1>9 DEF Panels!vars
<1> QED BY <1>3, <1>4, <1>5, <1>6, <1>7, <1>8, <1>9 DEF Panels!Next

\* A file of the voice that is right stays right, whatever is cancelled, fails or is cut
\* off, unless two installations of it ran at once (kokoro/install.py).
THEOREM GoodFilesStayGood == Panels!Spec => GoodStaysGood
<1> DEFINE Kept == \A f \in Panels!Files :
                     files[f] = "good" /\ "voice" \notin twice => files'[f] = "good"
<1>1. SInv /\ [Panels!Next]_(Panels!vars) => [Kept]_setupVars
  BY GoodStep DEF setupVars, Panels!vars
<1> QED BY <1>1, SetupBookkeeping, PTL
         DEF Panels!Spec, Panels!vars, setupVars, GoodStaysGood, Panels!GoodStaysGood

-----------------------------------------------------------------------------
(* The task and the installers together. *)

\* What the run checks on a small instance, for every value of the constants, but for what
\* must happen eventually.
THEOREM TheWorkIsHonest ==
  WorkSpec => /\ []RunsAsGranted /\ []OneHand /\ []EndingsAreWritten
              /\ []StatusIsHonest /\ GoodStaysGood
<1> DEFINE Kept == \A f \in Panels!Files :
                     files[f] = "good" /\ "voice" \notin twice => files'[f] = "good"
<1>1. WorkInit => IInv /\ SInv
  BY TypeInit, ControlInit, SetupInit DEF IInv, WorkInit
<1>2. [WorkNext]_<<part, vars, setupVars>> => [Next]_vars /\ [Panels!Next]_(Panels!vars)
  <2>1. UNCHANGED setupVars => UNCHANGED Panels!vars BY DEF setupVars, Panels!vars
  <2> QED BY <2>1 DEF WorkNext
<1>3. IInv /\ SInv /\ [WorkNext]_<<part, vars, setupVars>> => (IInv /\ SInv)'
  BY <1>2, InvStep, SetupNext
<1>4. IInv /\ SInv => RunsAsGranted /\ OneHand /\ EndingsAreWritten /\ StatusIsHonest
  BY RecordedEndings, SInvIsHonest DEF IInv, Control, StatusIsHonest
<1>5. SInv /\ [Panels!Next]_(Panels!vars) => [Kept]_setupVars
  BY GoodStep DEF setupVars, Panels!vars
<1> QED BY <1>1, <1>2, <1>3, <1>4, <1>5, PTL
         DEF WorkSpec, Panels!vars, setupVars, GoodStaysGood, Panels!GoodStaysGood

-----------------------------------------------------------------------------
(***************************************************************************)
(* What comes before a task's first edit (MCTaskStart).                    *)
(***************************************************************************)

(* Where a task works: what is true at every stage of its start. *)

NumbersOK ==
  /\ spared # 0 => ref.at = spared /\ spared # repo.head /\ spared # isolation.start
  /\ repo.head <= commits /\ isolation.start <= commits /\ ref.at <= commits /\ spared <= commits
  /\ commits <= acts + 1

\* A worktree is being made or removed: nothing was in the way when the start looked.
Making(past) == pc \in past \cup {"add", "clean", "ref", "delete"} \/ (pc = "setup" /\ isolation.strategy = "worktree")
BeforeOK ==
  /\ before.dest # "absent" => dest.is # "absent"
  /\ Making({"branch"}) => before.dest = "absent"
  /\ ~misread /\ before.ref # 0 => ref.at # 0
  /\ ~misread /\ Making({}) => before.ref = 0

\* What is JARVIS's at the path and of the branch.
OwnersOK ==
  /\ dest.is = "absent" => dest.by = Iso!None
  /\ ref.at = 0 => ref.by = Iso!None
  /\ dest.by = "jarvis" \/ ref.by = "jarvis" =>
       \/ pc = "setup" /\ isolation.strategy = "worktree"
       \/ pc \in {"clean", "ref", "delete"}
       \/ pc = "idle" /\ task \in {"failed", "running"}
  /\ pc \in {"ref", "delete"} => dest.by # "jarvis"

StagesOK ==
  /\ pc # "idle" => task = "awaiting" /\ root = Iso!None /\ refusal = Iso!None
  /\ isolation.strategy = "worktree" => isolation.start # 0
  /\ pc \in {"path", "branch", "add", "clean", "ref", "delete"} => isolation.strategy = "worktree"
  /\ pc = "setup" /\ isolation.strategy # "worktree" => allow
  /\ pc = "setup" /\ isolation.strategy = "worktree" => dest.by = "jarvis" /\ registered /\ ref.by = "jarvis"

EndsOK ==
  /\ root # Iso!None => task = "running" /\ refusal = Iso!None
  /\ root = "project" => allow
  /\ root = "worktree" => dest.by = "jarvis" /\ registered /\ ref.by = "jarvis"
  /\ refusal = "nothing changed" => task = "awaiting"
  /\ refusal \in {"clean", "kept"} => task = "failed"
  /\ refusal = "clean" /\ ~misread => dest.by # "jarvis" /\ ref.by # "jarvis"

Repos   == [git : BOOLEAN, head : Iso!Commits, conflict : BOOLEAN, detached : BOOLEAN]
Dests   == [is : {"absent", "empty", "data", "git"}, by : {Iso!None, "user", "jarvis"}]
Refs    == [at : Iso!Commits, by : {Iso!None, "user", "jarvis"}]
Chosen  == [strategy : {Iso!None, "worktree", "in_place", "stop"}, start : Iso!Commits]
Befores == [dest : {"absent", "empty", "data", "git"}, ref : Iso!Commits]

PlaceTypes == repo \in Repos /\ dest \in Dests /\ ref \in Refs /\ isolation \in Chosen /\ before \in Befores
FlagTypes  ==
  /\ registered \in BOOLEAN /\ unsaved \in BOOLEAN /\ allow \in BOOLEAN
  /\ misread \in BOOLEAN /\ lost \in BOOLEAN
StageTypes ==
  /\ task \in {"awaiting", "running", "failed"} /\ root \in {Iso!None, "worktree", "project"}
  /\ pc \in {"idle", "plan", "path", "branch", "add", "setup", "clean", "ref", "delete"}
  /\ refusal \in {Iso!None, "nothing changed", "clean", "kept"}
NumberTypes ==
  /\ acts \in 0..MaxActs /\ breaks \in 0..MaxBreaks /\ starts \in 0..MaxStarts
  /\ commits \in Iso!Commits /\ spared \in Iso!Commits
IsTyped == PlaceTypes /\ FlagTypes /\ StageTypes /\ NumberTypes

IsInv == PlaceAssumption /\ IsTyped /\ NumbersOK /\ BeforeOK /\ OwnersOK /\ StagesOK /\ EndsOK

LEMMA StartParts ==
  ASSUME PlaceAssumption, IsTyped
  PROVE  /\ repo.head \in Iso!Commits /\ dest.is \in {"absent", "empty", "data", "git"}
         /\ dest.by \in {Iso!None, "user", "jarvis"} /\ ref.at \in Iso!Commits /\ ref.by \in {Iso!None, "user", "jarvis"}
         /\ isolation.strategy \in {Iso!None, "worktree", "in_place", "stop"} /\ isolation.start \in Iso!Commits
         /\ before.dest \in {"absent", "empty", "data", "git"} /\ before.ref \in Iso!Commits
         /\ acts \in Nat /\ commits \in Nat /\ Iso!Commits \subseteq Nat /\ breaks \in Nat /\ starts \in Nat
         /\ MaxActs \in Nat /\ MaxBreaks \in Nat /\ MaxStarts \in Nat
<1>1. PlaceTypes /\ NumberTypes BY DEF IsTyped
<1>2. repo.head \in Iso!Commits BY <1>1 DEF PlaceTypes, Repos
<1>3. dest.is \in {"absent", "empty", "data", "git"} /\ dest.by \in {Iso!None, "user", "jarvis"} BY <1>1 DEF PlaceTypes, Dests
<1>4. ref.at \in Iso!Commits /\ ref.by \in {Iso!None, "user", "jarvis"} BY <1>1
   DEF PlaceTypes, Refs
<1>5. isolation.strategy \in {Iso!None, "worktree", "in_place", "stop"} /\ isolation.start \in Iso!Commits BY <1>1 DEF PlaceTypes, Chosen
<1>6. before.dest \in {"absent", "empty", "data", "git"} /\ before.ref \in Iso!Commits BY <1>1 DEF PlaceTypes, Befores
<1> QED BY <1>1, <1>2, <1>3, <1>4, <1>5, <1>6 DEF NumberTypes, Iso!Commits,
  PlaceAssumption

\* A failure is counted, and read as "there is none" once and for all.
LEMMA Faulted == ASSUME PlaceAssumption, IsTyped, Iso!Fault \/ Iso!Fine PROVE breaks' \in 0..MaxBreaks
BY DEF Iso!Fault, Iso!Fine, PlaceAssumption, IsTyped, NumberTypes

LEMMA StartStep ==
  ASSUME IsInv, NEW choice \in BOOLEAN, Iso!Start(choice)
  PROVE  IsInv'
<1> USE DEF IsInv
<1>1. IsTyped'
  <2>1. before' \in Befores BY StartParts DEF Iso!Start, Befores
  <2>2. starts' \in 0..MaxStarts BY StartParts DEF Iso!Start
  <2>3. allow' \in BOOLEAN BY DEF Iso!Start
  <2>4. UNCHANGED <<repo, dest, ref, isolation>> /\ UNCHANGED <<registered, unsaved, misread, lost>>
        /\ UNCHANGED <<task, root>> /\ refusal' = Iso!None /\ pc' = "plan"
        /\ UNCHANGED <<acts, breaks, commits, spared>>
    BY DEF Iso!Start, Iso!user, Iso!place
  <2>5. PlaceTypes' BY <2>1, <2>4 DEF IsTyped, PlaceTypes
  <2>6. FlagTypes' BY <2>3, <2>4 DEF IsTyped, FlagTypes
  <2>7. StageTypes' /\ NumberTypes' BY <2>2, <2>4 DEF IsTyped, StageTypes, NumberTypes
  <2> QED BY <2>5, <2>6, <2>7 DEF IsTyped
<1>2. UNCHANGED <<repo, dest, registered, ref, isolation, task, root, commits, spared, acts, misread>>
      /\ refusal' = Iso!None /\ pc' = "plan" /\ before'.dest = dest.is /\ before'.ref = ref.at
      /\ pc = "idle" /\ task = "awaiting"
  BY DEF Iso!Start, Iso!user, Iso!place
<1>3. NumbersOK' /\ BeforeOK' BY <1>2 DEF NumbersOK, BeforeOK, Making
<1>4. OwnersOK' BY <1>2 DEF OwnersOK
<1>5. StagesOK' /\ EndsOK' BY <1>2 DEF StagesOK, EndsOK, Iso!None
<1> QED BY <1>1, <1>3, <1>4, <1>5 DEF PlaceAssumption

LEMMA PlaceChosen == ASSUME IsInv, Iso!Plan PROVE IsInv'
<1> USE DEF IsInv
<1>1. UNCHANGED <<repo, dest, registered, ref, unsaved, root, allow, starts, commits, spared, acts, before, lost>>
      /\ pc = "plan"
  BY DEF Iso!Plan, Iso!user, Iso!place
<1>2. PICK p \in Iso!MisPlanned \cup {Iso!Planned} : Iso!Proceed(p) BY
   DEF Iso!Plan
<1>3. (misread' = misread \/ misread' = TRUE) /\ breaks' \in 0..MaxBreaks BY Faulted
   DEF Iso!Plan
<1>4. /\ p \in [strategy : {Iso!None, "worktree", "in_place", "stop"}, start : Iso!Commits]
      /\ p.strategy = "worktree" => p.start = repo.head /\ p.start # 0
      /\ p.start \in {0, repo.head}
  BY <1>2, StartParts DEF Iso!MisPlanned, Iso!Planned, Iso!Commits,
     PlaceAssumption
<1>5. /\ isolation' = p
      /\ \/ p.strategy = "worktree" /\ pc' = "path" /\ refusal' = refusal /\ task' = task
         \/ p.strategy = "in_place" /\ allow /\ pc' = "setup" /\ refusal' = refusal /\ task' = task
         \/ pc' = "idle" /\ refusal' = "nothing changed" /\ task' = task
  BY <1>2 DEF Iso!Proceed, Iso!Refuses
<1>6. IsTyped'
  <2>1. PlaceTypes' BY <1>1, <1>4, <1>5 DEF IsTyped, PlaceTypes, Chosen
  <2>2. FlagTypes' BY <1>1, <1>3 DEF IsTyped, FlagTypes
  <2>3. StageTypes' BY <1>1, <1>5 DEF IsTyped, StageTypes
  <2>4. NumberTypes' BY <1>1, <1>3 DEF IsTyped, NumberTypes
  <2> QED BY <2>1, <2>2, <2>3, <2>4 DEF IsTyped
<1>7. NumbersOK'
  <2>1. isolation'.start \in {0, repo.head} BY <1>4, <1>5
  <2> QED BY <1>1, <2>1, StartParts DEF NumbersOK
<1>12. ~misread' => ~misread BY <1>3
<1>8. BeforeOK' BY <1>1, <1>5, <1>12 DEF BeforeOK, Making
<1>9. OwnersOK' BY <1>1, <1>5 DEF OwnersOK
<1>10. StagesOK' BY <1>1, <1>4, <1>5 DEF StagesOK
<1>11. EndsOK' BY <1>1, <1>5, <1>12 DEF EndsOK, StagesOK, OwnersOK, Iso!None
<1> QED BY <1>6, <1>7, <1>8, <1>9, <1>10, <1>11 DEF PlaceAssumption

LEMMA LookSteps == ASSUME IsInv, Iso!CheckPath \/ Iso!CheckBranch PROVE IsInv'
<1> USE DEF IsInv
<1>1. /\ UNCHANGED <<repo, dest, registered, ref, unsaved, root, allow, isolation, starts, commits, spared, acts, before, lost>>
      /\ pc \in {"path", "branch"}
      /\ \/ pc' = "idle" /\ task' = "failed" /\ refusal' = "clean"
         \/ pc = "path" /\ pc' = "branch" /\ dest.is = "absent" /\ task' = task /\ refusal' = refusal
         \/ pc = "branch" /\ pc' = "add" /\ (ref.at = 0 \/ misread') /\ task' = task /\ refusal' = refusal
  BY DEF Iso!CheckPath, Iso!CheckBranch, Iso!user, Iso!place,
     Iso!history, Iso!Fails
<1>2. (misread' = misread \/ misread' = TRUE) /\ breaks' \in 0..MaxBreaks
  BY Faulted DEF Iso!CheckPath, Iso!CheckBranch, Iso!history, Iso!Fine
<1>3. IsTyped'
  <2>1. PlaceTypes' BY <1>1 DEF IsTyped, PlaceTypes
  <2>2. FlagTypes' BY <1>1, <1>2 DEF IsTyped, FlagTypes
  <2>3. StageTypes' BY <1>1 DEF IsTyped, StageTypes
  <2>4. NumberTypes' BY <1>1, <1>2 DEF IsTyped, NumberTypes
  <2> QED BY <2>1, <2>2, <2>3, <2>4 DEF IsTyped
<1>4. NumbersOK' BY <1>1 DEF NumbersOK
<1>5. BeforeOK' BY <1>1, <1>2 DEF BeforeOK, Making
<1>6. OwnersOK' BY <1>1 DEF OwnersOK
<1>7. StagesOK' BY <1>1 DEF StagesOK
<1>8. EndsOK' BY <1>1, <1>2 DEF EndsOK, StagesOK, OwnersOK, Iso!None
<1> QED BY <1>3, <1>4, <1>5, <1>6, <1>7, <1>8 DEF PlaceAssumption

LEMMA AddStep == ASSUME IsInv, Iso!Add PROVE IsInv'
<1> USE DEF IsInv
<1>1. /\ UNCHANGED <<repo, unsaved, task, refusal, root, allow, isolation, starts, commits, spared, acts, before, lost, misread>>
      /\ pc = "add"
      /\ \/ /\ ref' = [at |-> isolation.start, by |-> "jarvis"] /\ ref.at = 0
            /\ dest' = [is |-> "git", by |-> "jarvis"] /\ registered' = TRUE /\ pc' \in {"setup", "clean"}
         \/ /\ ref' = [at |-> isolation.start, by |-> "jarvis"] /\ ref.at = 0
            /\ UNCHANGED <<dest, registered>> /\ pc' = "clean"
         \/ UNCHANGED <<dest, registered, ref>> /\ pc' = "clean"
  BY DEF Iso!Add, Iso!user, Iso!history, Iso!MakesRef, Iso!MakesDest
<1>2. breaks' \in 0..MaxBreaks BY Faulted DEF Iso!Add
<1>3. IsTyped'
  <2>1. PlaceTypes' 
    <3>1. [at |-> isolation.start, by |-> "jarvis"] \in Refs /\ [is |-> "git", by |-> "jarvis"] \in Dests
      BY StartParts DEF Refs, Dests
    <3> QED BY <1>1, <3>1 DEF IsTyped, PlaceTypes
  <2>2. FlagTypes' BY <1>1 DEF IsTyped, FlagTypes
  <2>3. StageTypes' BY <1>1 DEF IsTyped, StageTypes
  <2>4. NumberTypes' BY <1>1, <1>2 DEF IsTyped, NumberTypes
  <2> QED BY <2>1, <2>2, <2>3, <2>4 DEF IsTyped
<1>4. isolation.strategy = "worktree" /\ isolation.start # 0 BY <1>1 DEF StagesOK
<1>5. /\ ref' = ref \/ (ref.at = 0 /\ ref'.at = isolation.start /\ ref'.by = "jarvis")
      /\ dest' = dest \/ (dest'.is = "git" /\ dest'.by = "jarvis")
  BY <1>1
<1>6. NumbersOK' BY <1>1, <1>4, <1>5, StartParts DEF NumbersOK
<1>7. BeforeOK' BY <1>1, <1>4, <1>5 DEF BeforeOK, Making
<1>8. OwnersOK' BY <1>1, <1>4 DEF OwnersOK
<1>9. StagesOK' BY <1>1, <1>4 DEF StagesOK
<1>10. EndsOK' BY <1>1 DEF EndsOK, StagesOK, Iso!None
<1> QED BY <1>3, <1>6, <1>7, <1>8, <1>9, <1>10 DEF PlaceAssumption

LEMMA SetUpStep == ASSUME IsInv, Iso!SetUp PROVE IsInv'
<1> USE DEF IsInv
<1>1. /\ UNCHANGED <<repo, dest, registered, ref, unsaved, allow, isolation, starts, commits, spared, acts, before, lost, misread>>
      /\ pc = "setup"
      /\ \/ task' = "running" /\ pc' = "idle" /\ refusal' = refusal
            /\ root' = (IF isolation.strategy = "worktree" THEN "worktree" ELSE "project")
         \/ isolation.strategy = "worktree" /\ pc' = "clean" /\ task' = task /\ refusal' = refusal /\ root' = root
         \/ isolation.strategy # "worktree" /\ task' = "failed" /\ refusal' = "clean" /\ pc' = "idle" /\ root' = root
  BY DEF Iso!SetUp, Iso!user, Iso!place, Iso!history, Iso!Fails
<1>2. breaks' \in 0..MaxBreaks BY Faulted DEF Iso!SetUp
<1>3. IsTyped'
  <2>1. PlaceTypes' BY <1>1 DEF IsTyped, PlaceTypes
  <2>2. FlagTypes' BY <1>1 DEF IsTyped, FlagTypes
  <2>3. StageTypes' BY <1>1 DEF IsTyped, StageTypes
  <2>4. NumberTypes' BY <1>1, <1>2 DEF IsTyped, NumberTypes
  <2> QED BY <2>1, <2>2, <2>3, <2>4 DEF IsTyped
<1>4. NumbersOK' BY <1>1 DEF NumbersOK
<1>5. BeforeOK' BY <1>1 DEF BeforeOK, Making
<1>6. OwnersOK' BY <1>1 DEF OwnersOK
<1>7. StagesOK' BY <1>1 DEF StagesOK
<1>8. EndsOK' BY <1>1 DEF EndsOK, StagesOK, OwnersOK, Iso!None
<1> QED BY <1>3, <1>4, <1>5, <1>6, <1>7, <1>8 DEF PlaceAssumption

LEMMA CleanDestStep == ASSUME IsInv, Iso!CleanDest PROVE IsInv'
<1> USE DEF IsInv
<1>1. /\ UNCHANGED <<repo, ref, root, allow, isolation, starts, commits, spared, acts, before>>
      /\ pc = "clean"
      /\ \/ dest.is = "absent" /\ dest' = dest /\ pc' = "ref" /\ task' = task /\ refusal' = refusal
         \/ dest' = Iso!Gone /\ pc' = "ref" /\ task' = task /\ refusal' = refusal
         \/ dest' = dest /\ pc' = "idle" /\ task' = "failed" /\ refusal' = "kept"
  BY DEF Iso!CleanDest, Iso!user, Iso!Fails
<1>2. (misread' = misread \/ misread' = TRUE) /\ breaks' \in 0..MaxBreaks BY Faulted
   DEF Iso!CleanDest
<1>3. registered' \in BOOLEAN /\ unsaved' \in BOOLEAN /\ lost' \in BOOLEAN BY
   DEF Iso!CleanDest, IsTyped, FlagTypes
<1>4. dest' = dest \/ (dest'.is = "absent" /\ dest'.by = Iso!None) BY <1>1 DEF Iso!Gone
<1>5. IsTyped'
  <2>1. PlaceTypes' 
    <3>1. Iso!Gone \in Dests BY DEF Iso!Gone, Dests
    <3> QED BY <1>1, <3>1 DEF IsTyped, PlaceTypes
  <2>2. FlagTypes' BY <1>1, <1>2, <1>3 DEF IsTyped, FlagTypes
  <2>3. StageTypes' BY <1>1 DEF IsTyped, StageTypes
  <2>4. NumberTypes' BY <1>1, <1>2 DEF IsTyped, NumberTypes
  <2> QED BY <2>1, <2>2, <2>3, <2>4 DEF IsTyped
<1>6. NumbersOK' BY <1>1 DEF NumbersOK
<1>7. BeforeOK' BY <1>1, <1>2, <1>4 DEF BeforeOK, Making
<1>8. OwnersOK' BY <1>1, <1>4 DEF OwnersOK, Iso!Gone, Iso!None
<1>9. StagesOK' BY <1>1 DEF StagesOK
<1>10. EndsOK' BY <1>1 DEF EndsOK, StagesOK, Iso!None
<1> QED BY <1>5, <1>6, <1>7, <1>8, <1>9, <1>10 DEF PlaceAssumption

LEMMA CleanRefSteps == ASSUME IsInv, Iso!CleanRef \/ Iso!DeleteRef PROVE IsInv'
<1> USE DEF IsInv
<1>1. /\ UNCHANGED <<repo, dest, registered, unsaved, root, allow, isolation, starts, commits, spared, acts, before, lost>>
      /\ pc \in {"ref", "delete"}
      /\ \/ ref' = ref /\ pc' = "delete" /\ task' = task /\ refusal' = refusal
         \/ ref' = ref /\ pc' = "idle" /\ task' = "failed" /\ refusal' = "kept"
         \/ ref' = ref /\ pc' = "idle" /\ task' = "failed" /\ refusal' = "clean" /\ (ref.at = 0 \/ misread')
         \/ ref.at = isolation.start /\ ref' = [at |-> 0, by |-> Iso!None] /\ pc' = "idle" /\ task' = "failed" /\ refusal' = "clean"
  BY DEF Iso!CleanRef, Iso!DeleteRef, Iso!user, Iso!place, Iso!history,
     Iso!Fails
<1>2. (misread' = misread \/ misread' = TRUE) /\ breaks' \in 0..MaxBreaks
  BY Faulted DEF Iso!CleanRef, Iso!DeleteRef, Iso!history
<1>3. /\ ref' = ref \/ (ref.at = isolation.start /\ ref'.at = 0 /\ ref'.by = Iso!None) BY <1>1
<1>4. IsTyped'
  <2>1. PlaceTypes' 
    <3>1. [at |-> 0, by |-> Iso!None] \in Refs BY DEF Refs, Iso!Commits,
      PlaceAssumption
    <3> QED BY <1>1, <3>1 DEF IsTyped, PlaceTypes
  <2>2. FlagTypes' BY <1>1, <1>2 DEF IsTyped, FlagTypes
  <2>3. StageTypes' BY <1>1 DEF IsTyped, StageTypes
  <2>4. NumberTypes' BY <1>1, <1>2 DEF IsTyped, NumberTypes
  <2> QED BY <2>1, <2>2, <2>3, <2>4 DEF IsTyped
<1>5. NumbersOK' BY <1>1, <1>3, StartParts DEF NumbersOK
<1>6. BeforeOK' BY <1>1, <1>2, <1>3 DEF BeforeOK, Making
<1>7. OwnersOK' BY <1>1, <1>3 DEF OwnersOK, Iso!None
<1>8. StagesOK' BY <1>1 DEF StagesOK
<1>10. ~misread' => ~misread BY <1>2
<1>9. EndsOK'
  <2>1. refusal' = "clean" /\ ~misread' => dest.by # "jarvis" /\ ref'.by # "jarvis"
    BY <1>1, <1>3, <1>10 DEF StagesOK, OwnersOK, Iso!None
  <2> QED BY <1>1, <2>1 DEF EndsOK, StagesOK, Iso!None
<1> QED BY <1>4, <1>5, <1>6, <1>7, <1>8, <1>9 DEF PlaceAssumption

-----------------------------------------------------------------------------
(* The user, who makes commits, a branch, a folder and files. *)

LEMMA UserStep ==
  ASSUME IsInv, Iso!Acts, UNCHANGED Iso!still,
         repo' \in Repos,
         dest' \in Dests, registered' = registered, ref' \in Refs, unsaved' \in BOOLEAN,
         commits' \in {commits, commits + 1},
         repo'.head = repo.head \/ (repo'.head = commits + 1 /\ commits' = commits + 1 /\ ref' = ref),
         \/ ref'.at = ref.at /\ ref'.by = ref.by /\ spared' = spared
         \/ ref.at = 0 /\ ref'.at = repo.head /\ repo.head # 0 /\ ref'.by = "user" /\ spared' = spared
         \/ ref.at # 0 /\ ref'.at = commits + 1 /\ ref'.by = ref.by /\ spared' = commits + 1 /\ commits' = commits + 1
            /\ repo'.head = repo.head,
         dest' = dest \/ (dest.is = "absent" /\ dest'.is # "absent" /\ dest'.by = "user")
  PROVE  IsInv'
<1> USE DEF IsInv
<1>1. UNCHANGED <<task, root, pc, allow, isolation, refusal, breaks, starts, before, misread, lost, registered>>
  BY DEF Iso!still
<1>2. acts' = acts + 1 /\ acts < MaxActs BY DEF Iso!Acts
<1>3. commits \in Nat /\ commits <= acts + 1 /\ commits + 1 \in Iso!Commits BY <1>2, StartParts DEF NumbersOK, Iso!Commits
<1>4. IsTyped'
  <2>1. PlaceTypes' BY <1>1 DEF IsTyped, PlaceTypes
  <2>2. FlagTypes' BY <1>1 DEF IsTyped, FlagTypes
  <2>3. StageTypes' BY <1>1 DEF IsTyped, StageTypes
  <2>4. NumberTypes' 
    <3>1. commits \in Iso!Commits /\ spared \in Iso!Commits /\ acts \in 0..MaxActs BY DEF IsTyped, NumberTypes
    <3>2. commits' \in Iso!Commits BY <1>3, <3>1
    <3>3. spared' \in Iso!Commits BY <1>3, <3>1
    <3>4. acts' \in 0..MaxActs BY <1>2, <3>1, StartParts
    <3> QED BY <1>1, <3>2, <3>3, <3>4 DEF IsTyped, NumberTypes
  <2> QED BY <2>1, <2>2, <2>3, <2>4 DEF IsTyped
<1>5. NumbersOK'
  <2>1. /\ repo.head \in Nat /\ isolation.start \in Nat /\ ref.at \in Nat /\ spared \in Nat /\ acts \in Nat
        /\ repo.head <= commits /\ isolation.start <= commits /\ ref.at <= commits /\ spared <= commits
    BY StartParts DEF IsTyped, NumberTypes, NumbersOK
  <2>2. spared' # 0 => ref'.at = spared' /\ spared' # repo'.head /\ spared' # isolation.start
    BY <1>3, <2>1 DEF NumbersOK
  <2>3. repo'.head <= commits' /\ isolation.start <= commits' /\ ref'.at <= commits' /\ spared' <= commits'
    BY <1>3, <2>1
  <2>4. commits' <= acts' + 1 BY <1>2, <1>3, <2>1 DEF NumbersOK
  <2> QED BY <1>1, <2>2, <2>3, <2>4 DEF NumbersOK
<1>6. BeforeOK' BY <1>1, <1>3 DEF BeforeOK, Making
<1>7. OwnersOK' BY <1>1, <1>3 DEF OwnersOK, Iso!None
<1>8. StagesOK' BY <1>1 DEF StagesOK, OwnersOK, Iso!None
<1>9. EndsOK'
  <2>1. (dest'.by = "jarvis" <=> dest.by = "jarvis") /\ (ref'.by = "jarvis" <=> ref.by = "jarvis")
    BY DEF OwnersOK, Iso!None
  <2>5. (root = "worktree" => dest.by = "jarvis" /\ registered /\ ref.by = "jarvis")
        /\ (root = "project" => allow)
    BY DEF EndsOK
  <2>6. root' = root /\ allow' = allow /\ registered' = registered BY <1>1
  <2>7. root' = "project" => allow' BY <2>5, <2>6
  <2>8. root' = "worktree" => registered' BY <2>5, <2>6
  <2>2. (root' = "worktree" => dest'.by = "jarvis" /\ registered' /\ ref'.by = "jarvis")
        /\ (root' = "project" => allow')
    BY <2>1, <2>5, <2>6, <2>7, <2>8
  <2>3. refusal' = "clean" /\ ~misread' => dest'.by # "jarvis" /\ ref'.by # "jarvis"
    BY <1>1, <2>1 DEF EndsOK
  <2>4. /\ root' # Iso!None => task' = "running" /\ refusal' = Iso!None
        /\ refusal' = "nothing changed" => task' = "awaiting"
        /\ refusal' \in {"clean", "kept"} => task' = "failed"
    BY <1>1 DEF EndsOK
  <2> QED BY <2>2, <2>3, <2>4 DEF EndsOK
<1> QED BY <1>4, <1>5, <1>6, <1>7, <1>8, <1>9 DEF PlaceAssumption

LEMMA UserSteps ==
  ASSUME IsInv, Iso!CommitsOnHead \/ Iso!Merges \/ Iso!MakesBranch \/ Iso!MakesFolder \/ Iso!WorksInside \/ Iso!CommitsInside
  PROVE  IsInv'
<1>0. /\ PlaceAssumption /\ IsTyped /\ dest \in Dests /\ ref \in Refs /\ repo \in Repos /\ unsaved \in BOOLEAN
      /\ dest.is \in {"absent", "empty", "data", "git"} /\ repo.head \in Iso!Commits
  BY StartParts DEF IsInv, IsTyped, PlaceTypes, FlagTypes
<1>1. Iso!Acts /\ UNCHANGED Iso!still /\ registered' = registered
  BY DEF Iso!CommitsOnHead, Iso!Merges, Iso!MakesBranch, Iso!MakesFolder,
     Iso!WorksInside, Iso!CommitsInside, Iso!place
<1>2. commits + 1 \in Iso!Commits BY <1>0, <1>1, StartParts DEF Iso!Acts, IsInv,
  NumbersOK, Iso!Commits
<1>3. CASE Iso!CommitsOnHead
  <2>1. repo' \in Repos /\ repo'.head = commits + 1 BY <1>0, <1>2, <1>3
     DEF Iso!CommitsOnHead, Repos
  <2> QED BY <1>0, <1>1, <1>3, <2>1, UserStep DEF Iso!CommitsOnHead, Iso!place
<1>4. CASE Iso!Merges
  <2>1. PICK b \in BOOLEAN : repo' = [repo EXCEPT !.conflict = b] \/ repo' = [repo EXCEPT !.detached = b]
    BY <1>4 DEF Iso!Merges
  <2>2. repo' \in Repos /\ repo'.head = repo.head BY <1>0, <2>1 DEF Repos
  <2> QED BY <1>0, <1>1, <1>4, <2>2, UserStep DEF Iso!Merges, Iso!place
<1>5. CASE Iso!MakesBranch
  <2>1. ref' \in Refs /\ ref'.at = repo.head /\ ref'.by = "user" BY <1>0, <1>5
     DEF Iso!MakesBranch, Refs
  <2> QED BY <1>0, <1>1, <1>5, <2>1, UserStep DEF Iso!MakesBranch
<1>6. CASE Iso!MakesFolder
  <2>1. dest' \in Dests /\ dest'.is # "absent" /\ dest'.by = "user" BY <1>0, <1>6
     DEF Iso!MakesFolder, Dests
  <2> QED BY <1>0, <1>1, <1>6, <2>1, UserStep DEF Iso!MakesFolder
<1>7. CASE Iso!WorksInside BY <1>0, <1>1, <1>7, UserStep DEF Iso!WorksInside
<1>8. CASE Iso!CommitsInside
  <2>1. ref' \in Refs /\ ref'.at = commits + 1 /\ ref'.by = ref.by BY <1>0, <1>2, <1>8
     DEF Iso!CommitsInside, Refs
  <2>2. unsaved' \in BOOLEAN BY <1>8 DEF Iso!CommitsInside
  <2> QED BY <1>0, <1>1, <1>8, <2>1, <2>2, UserStep DEF Iso!CommitsInside
<1> QED BY <1>3, <1>4, <1>5, <1>6, <1>7, <1>8

LEMMA PlaceInit == ASSUME PlaceAssumption, Iso!Init PROVE IsInv
<1>1. PICK git \in BOOLEAN, head \in {0, 1} :
        repo = [git |-> git, head |-> IF git THEN head ELSE 0, conflict |-> FALSE, detached |-> FALSE]
  BY DEF Iso!Init
<1>2. 0 \in Iso!Commits /\ 1 \in Iso!Commits BY DEF PlaceAssumption, Iso!Commits
<1>3. repo \in Repos /\ repo.head \in {0, 1} BY <1>1, <1>2 DEF Repos
<1>4. commits = repo.head BY DEF Iso!Init
<1>5. IsTyped
  <2>1. PlaceTypes BY <1>2, <1>3 DEF Iso!Init, PlaceTypes, Iso!Gone, Iso!NoPlan,
    Dests, Refs, Chosen, Befores
  <2>2. FlagTypes BY DEF Iso!Init, FlagTypes
  <2>3. StageTypes BY DEF Iso!Init, StageTypes
  <2>4. NumberTypes BY <1>2, <1>3, <1>4 DEF Iso!Init, NumberTypes, PlaceAssumption
  <2> QED BY <2>1, <2>2, <2>3, <2>4 DEF IsTyped
<1>6. NumbersOK /\ BeforeOK BY <1>3, <1>4 DEF Iso!Init, NumbersOK, BeforeOK, Making,
  Iso!Gone, Iso!NoPlan
<1>7. OwnersOK /\ StagesOK /\ EndsOK BY DEF Iso!Init, OwnersOK, StagesOK, EndsOK,
  Iso!Gone, Iso!NoPlan, Iso!None
<1> QED BY <1>5, <1>6, <1>7 DEF IsInv

LEMMA PlaceNext == IsInv /\ [Iso!Next]_(Iso!vars) => IsInv'
<1> SUFFICES ASSUME IsInv, [Iso!Next]_(Iso!vars) PROVE IsInv' OBVIOUS
<1>1. CASE UNCHANGED Iso!vars
  <2>4. PlaceTypes' BY <1>1 DEF Iso!vars, IsInv, IsTyped, PlaceTypes
  <2>5. FlagTypes' BY <1>1 DEF Iso!vars, IsInv, IsTyped, FlagTypes
  <2>6. StageTypes' BY <1>1 DEF Iso!vars, IsInv, IsTyped, StageTypes
  <2>7. NumberTypes' BY <1>1 DEF Iso!vars, IsInv, IsTyped, NumberTypes
  <2>1. PlaceTypes' /\ FlagTypes' /\ StageTypes' /\ NumberTypes' BY <2>4, <2>5, <2>6, <2>7
  <2>2. NumbersOK' /\ BeforeOK' BY <1>1 DEF Iso!vars, IsInv, NumbersOK, BeforeOK, Making
  <2>3. OwnersOK' /\ StagesOK' /\ EndsOK' BY <1>1 DEF Iso!vars, IsInv, OwnersOK, StagesOK,
    EndsOK
  <2> QED BY <2>1, <2>2, <2>3 DEF IsInv, IsTyped, PlaceAssumption
<1>2. CASE \E choice \in BOOLEAN : Iso!Start(choice) BY <1>2, StartStep
<1>3. CASE Iso!Plan \/ Iso!CheckPath \/ Iso!CheckBranch BY <1>3, PlaceChosen, LookSteps
<1>4. CASE Iso!Add \/ Iso!SetUp BY <1>4, AddStep, SetUpStep
<1>5. CASE Iso!CleanDest \/ Iso!CleanRef \/ Iso!DeleteRef BY <1>5, CleanDestStep, CleanRefSteps
<1>6. CASE Iso!CommitsOnHead \/ Iso!Merges \/ Iso!MakesBranch \/ Iso!MakesFolder \/ Iso!WorksInside \/ Iso!CommitsInside
  BY <1>6, UserSteps
<1> QED BY <1>1, <1>2, <1>3, <1>4, <1>5, <1>6 DEF Iso!Next, Iso!Starting

\* The inductive invariant of a start: whose the worktree's path and the branch are at each
\* stage, and what a failure at it leaves behind (start_task, coding/gitsafe.py, coding/service.py).
THEOREM PlaceBookkeeping == Iso!Spec => []IsInv
<1>1. Iso!Init => IsInv BY PlaceInit, PlaceAssumption
<1> QED BY <1>1, PlaceNext, PTL DEF Iso!Spec

\* Every variable of a task's start keeps its type, for any number of acts, faults and
\* starts (start_task).
THEOREM PlaceTypesHold == Iso!Spec => []Iso!TypeOK
<1>1. IsInv => Iso!TypeOK
  <2> SUFFICES ASSUME IsInv PROVE Iso!TypeOK OBVIOUS
  <2>1. PlaceTypes /\ FlagTypes /\ StageTypes /\ NumberTypes BY DEF IsInv, IsTyped
  <2> QED BY <2>1, Zenon
        DEF Iso!TypeOK, PlaceTypes, FlagTypes, StageTypes, NumberTypes, Repos, Dests, Refs,
          Chosen, Befores
<1> QED BY <1>1, PlaceBookkeeping, PTL

\* What others have in the repository stays there when the start of a task fails, a task works
\* where it was agreed, and a refusal says what is left of the attempt (start_task).
THEOREM TheStartIsHonest == Iso!Spec => []IsolationIsHonest
<1>1. IsInv => IsolationIsHonest
  <2> SUFFICES ASSUME IsInv PROVE IsolationIsHonest OBVIOUS
  <2>1. Iso!OthersWorkStays BY DEF IsInv, Iso!OthersWorkStays, NumbersOK, BeforeOK
  <2>2. Iso!SaysWhatRemains
    BY DEF IsInv, Iso!SaysWhatRemains, EndsOK, OwnersOK, StagesOK, Iso!None
  <2>3. Iso!RunsWhereAgreed BY DEF IsInv, Iso!RunsWhereAgreed, EndsOK
  <2> QED BY <2>1, <2>2, <2>3 DEF IsolationIsHonest, Iso!IsolationIsHonest
<1> QED BY <1>1, PlaceBookkeeping, PTL

-----------------------------------------------------------------------------
(* Choosing a folder and creating a project. *)

\* What a folder request, a plan and a call of the page are.
Asked   == [state : {Prep!None, "pending", "selected", "cancelled", "expired", "failed"},
            purpose : Prep!Purposes, path : Folders \cup {Prep!None}, consumed : BOOLEAN, old : BOOLEAN]
PlanRecord == [state : {Prep!None, "kept", "gone"}, parent : Folders \cup {Prep!None},
            absent : BOOLEAN, consumed : BOOLEAN, old : BOOLEAN]
Writing == [post : Prep!Posts \cup {0}, at : {Prep!None, "checked", "made", "written"}]

FolderTypes ==
  /\ req \in [FolderRequests -> Asked] /\ pick \in [Prep!Purposes -> FolderRequests \cup {Prep!None}]
  /\ dialogs \subseteq FolderRequests /\ spent \in [FolderRequests -> 0..MaxPosts]
PlanTypes ==
  /\ plan \in [Plans -> PlanRecord] /\ shown \in Plans \cup {Prep!None}
  /\ post \in [Prep!Posts -> Prep!Calls] /\ creating \in Writing /\ agreed \subseteq Plans
  /\ places \in [Folders -> {"absent", "theirs", "half", "ours"}]

\* A selection: chosen once, used once.
SelectionOK(r) ==
  /\ req[r].state = Prep!None => ~req[r].consumed
  /\ req[r].state = "selected" => req[r].path # Prep!None
  /\ spent[r] <= 1 /\ (~req[r].consumed => spent[r] = 0)
PickOK(w) ==
  pick[w] # Prep!None =>
    /\ req[pick[w]].state \in {"selected", "expired"}
    /\ req[pick[w]].purpose = w /\ req[pick[w]].path # Prep!None
FolderInv ==
  /\ FolderTypes
  /\ \A r \in FolderRequests : SelectionOK(r)
  /\ \A w \in Prep!Purposes : PickOK(w)
  /\ \A a, b \in dialogs : a = b

\* A call of the page: what it is about.
CallOK(c) ==
  /\ c.kind = "create" => c.id \in agreed
  /\ c.kind = "cancel" => c.id \in Plans
  /\ c.kind = "plan" /\ c.at = "ok" => c.id \in Plans /\ plan[c.id].state # Prep!None
  /\ c.kind \in {"add", "plan"} /\ c.at \in {"sent", "orphan"} => c.id \in FolderRequests \cup {Prep!None}
CreatingOK ==
  /\ creating.post = 0 => creating = Prep!NotCreating
  /\ creating.post # 0 =>
       /\ post[creating.post].kind = "create" /\ post[creating.post].at \in {"sent", "orphan"}
       /\ plan[Prep!PlanOf].absent
WorldOK ==
  /\ spoilt = FALSE
  /\ \A f \in Folders : places[f] \in {"half", "ours"} => \E p \in agreed : plan[p].parent = f /\ plan[p].absent
ProjectInv ==
  /\ PlanTypes
  /\ \A p \in agreed : plan[p].state # Prep!None
  /\ shown # Prep!None => plan[shown].state # Prep!None
  /\ \A k \in Prep!Posts : CallOK(post[k])
  /\ CreatingOK /\ WorldOK

NpInv == ProjectAssumption /\ FolderInv /\ ProjectInv

States == {Prep!None, "pending", "selected", "cancelled", "expired", "failed"}

LEMMA AskedParts ==
  ASSUME NEW v \in Asked
  PROVE  v.state \in States /\ v.purpose \in Prep!Purposes /\ v.path \in Folders \cup {Prep!None} /\ v.consumed \in BOOLEAN
BY DEF Asked, States

LEMMA AskedState ==
  ASSUME NEW v \in Asked, NEW s \in States
  PROVE  LET a == [v EXCEPT !.state = s]
         IN a \in Asked /\ a.state = s /\ a.purpose = v.purpose /\ a.path = v.path /\ a.consumed = v.consumed
BY DEF Asked, States

LEMMA AskedUsed ==
  ASSUME NEW v \in Asked
  PROVE  LET a == [v EXCEPT !.consumed = TRUE]
         IN a \in Asked /\ a.state = v.state /\ a.purpose = v.purpose /\ a.path = v.path /\ a.consumed = TRUE
BY DEF Asked

LEMMA AskedOld ==
  ASSUME NEW v \in Asked
  PROVE  LET a == [v EXCEPT !.old = TRUE]
         IN a \in Asked /\ a.state = v.state /\ a.purpose = v.purpose /\ a.path = v.path /\ a.consumed = v.consumed
BY DEF Asked

\* What is chosen stays chosen, whatever becomes of the requests.
LEMMA PicksKept ==
  ASSUME FolderInv, FolderTypes', \A r \in FolderRequests : SelectionOK(r)',
         \A r \in FolderRequests : req[r].state \in {"selected", "expired"} /\ req[r].path # Prep!None =>
           req'[r].state \in {"selected", "expired"} /\ req'[r].path # Prep!None /\ req'[r].purpose = req[r].purpose,
         \A w \in Prep!Purposes : \/ pick'[w] \in {pick[w], Prep!None}
                                  \/ /\ pick'[w] \in FolderRequests /\ req[pick'[w]].state = "selected"
                                     /\ req[pick'[w]].purpose = w,
         \A a, b \in dialogs' : a = b
  PROVE  FolderInv'
<1> SUFFICES ASSUME NEW w \in Prep!Purposes PROVE PickOK(w)' BY DEF FolderInv
<1>3. CASE pick'[w] = Prep!None BY <1>3 DEF PickOK
<1>1. CASE pick'[w] = pick[w] /\ pick'[w] # Prep!None
  <2>1. pick[w] \in FolderRequests /\ PickOK(w) BY <1>1 DEF FolderInv, FolderTypes
  <2> QED BY <1>1, <2>1 DEF PickOK
<1>2. CASE pick'[w] \in FolderRequests /\ req[pick'[w]].state = "selected" /\ req[pick'[w]].purpose = w
  <2>1. SelectionOK(pick'[w]) BY <1>2 DEF FolderInv
  <2> QED BY <1>2, <2>1 DEF PickOK, SelectionOK
<1> QED BY <1>1, <1>2, <1>3

\* One request changes.
LEMMA OneRequest ==
  ASSUME FolderInv, NEW r \in FolderRequests, NEW v \in Asked, req' = [req EXCEPT ![r] = v], UNCHANGED spent,
         v.state = Prep!None => ~v.consumed, v.state = "selected" => v.path # Prep!None, v.consumed = req[r].consumed,
         v.purpose = req[r].purpose,
         req[r].state \in {"selected", "expired"} /\ req[r].path # Prep!None =>
           v.state \in {"selected", "expired"} /\ v.path # Prep!None,
         pick' \in [Prep!Purposes -> FolderRequests \cup {Prep!None}], dialogs' \subseteq FolderRequests,
         \A w \in Prep!Purposes : \/ pick'[w] \in {pick[w], Prep!None}
                                  \/ /\ pick'[w] \in FolderRequests /\ req[pick'[w]].state = "selected"
                                     /\ req[pick'[w]].purpose = w,
         \A a, b \in dialogs' : a = b
  PROVE  FolderInv'
<1>1. FolderTypes' BY DEF FolderInv, FolderTypes
<1>2. \A q \in FolderRequests : req'[q] = IF q = r THEN v ELSE req[q] BY DEF FolderInv, FolderTypes
<1>3. \A q \in FolderRequests : SelectionOK(q)'
  <2> SUFFICES ASSUME NEW q \in FolderRequests PROVE SelectionOK(q)' OBVIOUS
  <2>1. SelectionOK(q) BY DEF FolderInv
  <2> QED BY <1>2, <2>1 DEF SelectionOK
<1>4. \A q \in FolderRequests : req[q].state \in {"selected", "expired"} /\ req[q].path # Prep!None =>
        req'[q].state \in {"selected", "expired"} /\ req'[q].path # Prep!None /\ req'[q].purpose = req[q].purpose
  BY <1>2
<1> QED BY <1>1, <1>3, <1>4, PicksKept

\* A request that has not been chosen, or a choice that is too old, comes to an end.
LEMMA RequestEnds ==
  ASSUME FolderInv, NEW r \in FolderRequests, NEW s \in {"cancelled", "expired", "failed"},
         req' = [req EXCEPT ![r] = [req[r] EXCEPT !.state = s]], UNCHANGED spent,
         req[r].state \in {"pending", "selected"}, req[r].state = "selected" => s = "expired",
         pick' \in [Prep!Purposes -> FolderRequests \cup {Prep!None}], dialogs' \subseteq FolderRequests,
         \A w \in Prep!Purposes : \/ pick'[w] \in {pick[w], Prep!None}
                                  \/ /\ pick'[w] \in FolderRequests /\ req[pick'[w]].state = "selected"
                                     /\ req[pick'[w]].purpose = w,
         \A a, b \in dialogs' : a = b
  PROVE  FolderInv'
<1> DEFINE v == [req[r] EXCEPT !.state = s]
<1>1. req[r] \in Asked /\ s \in States BY DEF FolderInv, FolderTypes, States
<1>2. v \in Asked /\ v.state = s /\ v.purpose = req[r].purpose /\ v.path = req[r].path /\ v.consumed = req[r].consumed
  BY <1>1, AskedState
<1>3. req' = [req EXCEPT ![r] = v] OBVIOUS
<1> HIDE DEF v
<1>4. v.state # Prep!None /\ v.state # "selected" BY <1>2 DEF Prep!None
<1>5. req[r].state \in {"selected", "expired"} /\ req[r].path # Prep!None => v.state = "expired" /\ v.path # Prep!None BY <1>2
<1> QED BY <1>2, <1>3, <1>4, <1>5, OneRequest

LEMMA FoldersQuiet ==
  ASSUME FolderInv, UNCHANGED <<req, spent>>, pick' \in [Prep!Purposes -> FolderRequests \cup {Prep!None}], dialogs' \subseteq FolderRequests,
         \A w \in Prep!Purposes : \/ pick'[w] \in {pick[w], Prep!None}
                                  \/ /\ pick'[w] \in FolderRequests /\ req[pick'[w]].state = "selected"
                                     /\ req[pick'[w]].purpose = w,
         \A a, b \in dialogs' : a = b
  PROVE  FolderInv'
<1>1. FolderTypes' BY DEF FolderInv, FolderTypes
<1>3. \A q \in FolderRequests : SelectionOK(q)' BY DEF FolderInv, SelectionOK
<1> QED BY <1>1, <1>3, PicksKept

-----------------------------------------------------------------------------
(* Browse. *)

LEMMA BrowseStep ==
  ASSUME ProjectAssumption, FolderInv, NEW w \in Prep!Purposes, NEW r \in FolderRequests, Prep!Browse(w, r)
  PROVE  FolderInv'
<1> DEFINE v == [Prep!NoRequest EXCEPT !.state = "pending", !.purpose = w]
<1>0. FolderTypes /\ req[r].state = Prep!None BY DEF Prep!Browse, FolderInv
<1>1. v \in Asked /\ v.state = "pending" /\ v.consumed = FALSE /\ v.path = Prep!None /\ v.purpose = w
  BY DEF Asked, Prep!NoRequest
<1>2. req' = [Prep!Swept EXCEPT ![r] = v] /\ UNCHANGED <<pick, dialogs, spent>>
  BY DEF Prep!Browse, Prep!history
<1> HIDE DEF v
<1>3. /\ Prep!Swept \in [FolderRequests -> Asked]
      /\ \A q \in FolderRequests : /\ Prep!Swept[q].consumed = req[q].consumed /\ Prep!Swept[q].path = req[q].path
                                   /\ Prep!Swept[q].purpose = req[q].purpose
                                   /\ Prep!Swept[q].state = req[q].state \/ (req[q].state = "pending" /\ Prep!Swept[q].state = "expired")
  <2>1. \A q \in FolderRequests : /\ Prep!Swept[q] = IF req[q].state = "pending" /\ req[q].old
                                                  THEN [req[q] EXCEPT !.state = "expired"] ELSE req[q]
                                  /\ req[q] \in Asked /\ "expired" \in States
    BY <1>0 DEF Prep!Swept, FolderTypes, States
  <2>2. \A q \in FolderRequests : /\ Prep!Swept[q] \in Asked
                                  /\ Prep!Swept[q].consumed = req[q].consumed /\ Prep!Swept[q].path = req[q].path
                                  /\ Prep!Swept[q].purpose = req[q].purpose
                                  /\ Prep!Swept[q].state = req[q].state \/ (req[q].state = "pending" /\ Prep!Swept[q].state = "expired")
    <3> SUFFICES ASSUME NEW q \in FolderRequests
                 PROVE  /\ Prep!Swept[q] \in Asked
                        /\ Prep!Swept[q].consumed = req[q].consumed /\ Prep!Swept[q].path = req[q].path
                        /\ Prep!Swept[q].purpose = req[q].purpose
                        /\ Prep!Swept[q].state = req[q].state \/ (req[q].state = "pending" /\ Prep!Swept[q].state = "expired")
      OBVIOUS
    <3>1. CASE Prep!Swept[q] = req[q] BY <2>1, <3>1
    <3>2. CASE req[q].state = "pending" /\ Prep!Swept[q] = [req[q] EXCEPT !.state = "expired"]
      BY <2>1, <3>2, AskedState
    <3> QED BY <2>1, <3>1, <3>2
  <2>3. Prep!Swept \in [FolderRequests -> Asked] BY <2>2 DEF Prep!Swept
  <2> QED BY <2>2, <2>3
<1>4. \A q \in FolderRequests : req'[q] = IF q = r THEN v ELSE Prep!Swept[q] BY <1>2, <1>3
<1>5. FolderTypes' BY <1>0, <1>1, <1>2, <1>3 DEF FolderTypes
<1>6. \A q \in FolderRequests : SelectionOK(q)'
  <2> SUFFICES ASSUME NEW q \in FolderRequests PROVE SelectionOK(q)' OBVIOUS
  <2>1. SelectionOK(q) BY DEF FolderInv
  <2>2. CASE q = r BY <1>0, <1>1, <1>2, <1>4, <2>1, <2>2 DEF SelectionOK, Prep!None
  <2>3. CASE q # r
    <3>1. req'[q] = Prep!Swept[q] BY <1>4, <2>3
    <3> QED BY <1>2, <1>3, <2>1, <3>1 DEF SelectionOK, Prep!None
  <2> QED BY <2>2, <2>3
<1>7. \A q \in FolderRequests : req[q].state \in {"selected", "expired"} /\ req[q].path # Prep!None =>
        req'[q].state \in {"selected", "expired"} /\ req'[q].path # Prep!None /\ req'[q].purpose = req[q].purpose
  BY <1>0, <1>3, <1>4 DEF Prep!None
<1>8. pick' = pick /\ dialogs' = dialogs BY <1>2
<1> QED BY <1>5, <1>6, <1>7, <1>8, PicksKept DEF FolderInv

LEMMA DialogSteps ==
  ASSUME ProjectAssumption, FolderInv, NEW r \in FolderRequests,
         Prep!OpenDialog(r) \/ Prep!Answered(r) \/ Prep!BridgeFails(r) \/ Prep!ReadOutcome(r)
  PROVE  FolderInv'
<1>0. FolderTypes /\ req[r] \in Asked /\ SelectionOK(r) /\ (\A a, b \in dialogs : a = b)
      /\ pick \in [Prep!Purposes -> FolderRequests \cup {Prep!None}] /\ dialogs \subseteq FolderRequests
  BY DEF FolderInv, FolderTypes
<1>1. UNCHANGED spent BY DEF Prep!OpenDialog, Prep!Answered, Prep!BridgeFails, Prep!ReadOutcome,
  Prep!history
<1>2. CASE Prep!OpenDialog(r)
  <2>1. UNCHANGED <<req, pick>> /\ (dialogs' = dialogs \/ dialogs' = {r}) BY <1>2
     DEF Prep!OpenDialog
  <2> QED BY <1>0, <1>1, <2>1, FoldersQuiet
<1>3. CASE Prep!Answered(r)
  <2>1. UNCHANGED pick /\ dialogs' = dialogs \ {r} BY <1>3 DEF Prep!Answered
  <2>2. CASE UNCHANGED req BY <1>0, <1>1, <2>1, <2>2, FoldersQuiet
  <2>3. CASE \E o \in {"selected", "cancelled", "failed"}, f \in Folders \cup {Prep!None} :
               Prep!Resolve(r, o, f) /\ (o = "selected" => f # Prep!None)
    <3>1. PICK o \in {"selected", "cancelled", "failed"}, f \in Folders \cup {Prep!None} :
               Prep!Resolve(r, o, f) /\ (o = "selected" => f # Prep!None)
      BY <2>3
    <3>2. CASE req[r].state # "pending"
      <4>1. req' = req BY <3>1, <3>2 DEF Prep!Resolve
      <4> QED BY <1>0, <1>1, <2>1, <4>1, FoldersQuiet
    <3>3. CASE req[r].state = "pending" /\ req[r].old
      <4>1. req' = [req EXCEPT ![r] = [req[r] EXCEPT !.state = "expired"]] BY <3>1, <3>3
         DEF Prep!Resolve
      <4>2. \A a, b \in dialogs' : a = b BY <1>0, <2>1
      <4>3. pick' \in [Prep!Purposes -> FolderRequests \cup {Prep!None}] /\ dialogs' \subseteq FolderRequests
            /\ \A w \in Prep!Purposes : pick'[w] \in {pick[w], Prep!None}
        BY <1>0, <2>1
      <4> QED BY <1>1, <3>3, <4>1, <4>2, <4>3, RequestEnds
    <3>4. CASE req[r].state = "pending" /\ ~req[r].old
      <4>1. req' = [req EXCEPT ![r] = [req[r] EXCEPT !.state = o, !.path = f]] BY <3>1, <3>4 DEF Prep!Resolve
      <4>8. PICK v : v = [req[r] EXCEPT !.state = o, !.path = f] OBVIOUS
      <4>2. o \in States BY DEF States
      <4>3. v \in Asked /\ v.state = o /\ v.purpose = req[r].purpose /\ v.path = f /\ v.consumed = req[r].consumed
        <5>1. req[r] \in Asked BY <1>0
        <5>2. f \in Folders \cup {Prep!None} OBVIOUS
        <5> QED BY <4>2, <4>8, <5>1, <5>2 DEF Asked, States
      <4>4. req' = [req EXCEPT ![r] = v] BY <4>1, <4>8
      <4>5. \A a, b \in dialogs' : a = b BY <1>0, <2>1
      <4>6. pick' \in [Prep!Purposes -> FolderRequests \cup {Prep!None}] /\ dialogs' \subseteq FolderRequests
            /\ \A w \in Prep!Purposes : pick'[w] \in {pick[w], Prep!None}
        BY <1>0, <2>1
      <4>7. v.state # Prep!None /\ (v.state = "selected" => v.path # Prep!None) BY <3>1, <4>3 DEF Prep!None
      <4> QED BY <1>1, <3>4, <4>3, <4>4, <4>5, <4>6, <4>7, OneRequest
    <3> QED BY <3>2, <3>3, <3>4
  <2>4. \A f \in Folders : f # Prep!None BY DEF ProjectAssumption
  <2> QED BY <1>3, <2>2, <2>3, <2>4 DEF Prep!Answered
<1>4. CASE Prep!BridgeFails(r)
  <2>1. UNCHANGED <<pick, dialogs>> BY <1>4 DEF Prep!BridgeFails
  <2>2. \/ req' = req
        \/ req[r].state = "pending" /\ req' = [req EXCEPT ![r] = [req[r] EXCEPT !.state = "cancelled"]]
    BY <1>4 DEF Prep!BridgeFails
  <2>3. CASE req' = req BY <1>0, <1>1, <2>1, <2>3, FoldersQuiet
  <2>4. CASE req[r].state = "pending" /\ req' = [req EXCEPT ![r] = [req[r] EXCEPT !.state = "cancelled"]]
    BY <1>0, <1>1, <2>1, <2>4, RequestEnds
  <2> QED BY <2>2, <2>3, <2>4
<1>5. CASE Prep!ReadOutcome(r)
  <2>1. UNCHANGED dialogs /\ pick' = (IF req[r].state = "selected" THEN [pick EXCEPT ![req[r].purpose] = r] ELSE pick)
    BY <1>5 DEF Prep!ReadOutcome
  <2>2. \/ req' = req
        \/ req[r].state = "pending" /\ req' = [req EXCEPT ![r] = [req[r] EXCEPT !.state = "expired"]]
    BY <1>5 DEF Prep!ReadOutcome
  <2>3. /\ pick' \in [Prep!Purposes -> FolderRequests \cup {Prep!None}]
        /\ \A w \in Prep!Purposes : \/ pick'[w] \in {pick[w], Prep!None}
                                    \/ /\ pick'[w] \in FolderRequests /\ req[pick'[w]].state = "selected"
                                       /\ req[pick'[w]].purpose = w
    BY <1>0, <2>1
  <2>4. CASE req' = req BY <1>0, <1>1, <2>1, <2>3, <2>4, FoldersQuiet
  <2>5. CASE req[r].state = "pending" /\ req' = [req EXCEPT ![r] = [req[r] EXCEPT !.state = "expired"]]
    BY <1>0, <1>1, <2>1, <2>3, <2>5, RequestEnds
  <2> QED BY <2>2, <2>4, <2>5
<1> QED BY <1>2, <1>3, <1>4, <1>5

LEMMA UseSteps ==
  ASSUME ProjectAssumption, FolderInv, NEW r \in FolderRequests, Prep!Consume(r) \/ Prep!Refuse(r),
         MaxPosts >= 1, UNCHANGED <<pick, dialogs>>
  PROVE  FolderInv'
<1>0. FolderTypes /\ req[r] \in Asked /\ SelectionOK(r) /\ (\A a, b \in dialogs : a = b)
      /\ pick \in [Prep!Purposes -> FolderRequests \cup {Prep!None}] /\ dialogs \subseteq FolderRequests
  BY DEF FolderInv, FolderTypes
<1>1. CASE Prep!Refuse(r)
  <2>1. UNCHANGED spent BY <1>1 DEF Prep!Refuse
  <2>2. \/ req' = req
        \/ req[r].state = "selected" /\ req' = [req EXCEPT ![r] = [req[r] EXCEPT !.state = "expired"]]
    BY <1>1 DEF Prep!Refuse
  <2>3. CASE req' = req BY <1>0, <2>1, <2>3, FoldersQuiet
  <2>4. CASE req[r].state = "selected" /\ req' = [req EXCEPT ![r] = [req[r] EXCEPT !.state = "expired"]]
    BY <1>0, <2>1, <2>4, RequestEnds
  <2> QED BY <2>2, <2>3, <2>4
<1>2. CASE Prep!Consume(r)
  <2> DEFINE v == [req[r] EXCEPT !.consumed = TRUE]
  <2>1. req' = [req EXCEPT ![r] = v] /\ spent' = [spent EXCEPT ![r] = spent[r] + 1]
        /\ req[r].state = "selected" /\ ~req[r].consumed
    BY <1>2 DEF Prep!Consume
  <2>2. v \in Asked /\ v.state = "selected" /\ v.consumed = TRUE /\ v.path = req[r].path /\ v.purpose = req[r].purpose
    BY <1>0, <2>1, AskedUsed
  <2> HIDE DEF v
  <2>3. spent[r] = 0 BY <1>0, <2>1 DEF SelectionOK
  <2>4. spent' \in [FolderRequests -> 0..MaxPosts] /\ spent'[r] = 1 /\ (\A q \in FolderRequests : q # r => spent'[q] = spent[q])
    BY <1>0, <2>1, <2>3 DEF FolderTypes, ProjectAssumption
  <2>5. \A q \in FolderRequests : req'[q] = IF q = r THEN v ELSE req[q] BY <1>0, <2>1
     DEF FolderTypes
  <2>6. FolderTypes' BY <1>0, <2>1, <2>2, <2>4 DEF FolderTypes
  <2>7. \A q \in FolderRequests : SelectionOK(q)'
    <3> SUFFICES ASSUME NEW q \in FolderRequests PROVE SelectionOK(q)' OBVIOUS
    <3>1. SelectionOK(q) BY DEF FolderInv
    <3>2. CASE q = r BY <1>0, <2>1, <2>2, <2>4, <2>5, <3>2 DEF SelectionOK, Prep!None
    <3>3. CASE q # r BY <2>4, <2>5, <3>1, <3>3 DEF SelectionOK
    <3> QED BY <3>2, <3>3
  <2>8. \A q \in FolderRequests : req[q].state \in {"selected", "expired"} /\ req[q].path # Prep!None =>
          req'[q].state \in {"selected", "expired"} /\ req'[q].path # Prep!None /\ req'[q].purpose = req[q].purpose
    BY <2>2, <2>5
  <2>9. pick' = pick /\ dialogs' = dialogs OBVIOUS
  <2> QED BY <1>0, <2>6, <2>7, <2>8, <2>9, PicksKept
<1> QED BY <1>1, <1>2

-----------------------------------------------------------------------------
(* The page's calls, the plans and what is written. *)

\* A plan that was made stays what it is; it may be used, grow old or be forgotten.
PlanMoves == \A p \in Plans :
  plan[p].state # Prep!None =>
    plan'[p].state # Prep!None /\ plan'[p].parent = plan[p].parent /\ plan'[p].absent = plan[p].absent

LEMMA CallParts ==
  ASSUME NEW c \in Prep!Calls
  PROVE  /\ c.kind \in {Prep!None, "done", "add", "plan", "create", "cancel"}
         /\ c.id \in FolderRequests \cup Plans \cup {Prep!None} /\ c.typed \in Folders \cup {Prep!None}
         /\ c.at \in {Prep!None, "sent", "orphan", "ok", "error"}
BY DEF Prep!Calls

LEMMA IdleCalls ==
  /\ Prep!Idle \in Prep!Calls /\ Prep!Idle.kind = Prep!None /\ Prep!Idle.at = Prep!None
  /\ Prep!Done \in Prep!Calls /\ Prep!Done.kind = "done" /\ Prep!Done.at = Prep!None
BY DEF Prep!Idle, Prep!Done, Prep!Calls

LEMMA PlanParts ==
  ASSUME NEW p \in PlanRecord
  PROVE  /\ p.state \in {Prep!None, "kept", "gone"} /\ p.parent \in Folders \cup {Prep!None} /\ p.absent \in BOOLEAN
         /\ p.consumed \in BOOLEAN /\ p.old \in BOOLEAN
BY DEF PlanRecord

LEMMA CallKept ==
  ASSUME NEW c \in Prep!Calls, CallOK(c), PlanMoves, agreed \subseteq agreed'
  PROVE  CallOK(c)'
BY DEF CallOK, PlanMoves

LEMMA ProjectKept ==
  ASSUME ProjectAssumption, ProjectInv, PlanTypes', PlanMoves, agreed \subseteq agreed',
         \A p \in agreed' : p \in agreed \/ plan[p].state # Prep!None,
         shown' \in {shown, Prep!None} \/ (shown' \in Plans /\ plan'[shown'].state # Prep!None),
         \A k \in Prep!Posts : post'[k] \in {post[k], Prep!Done} \/ CallOK(post[k])',
         \/ creating' = creating
            /\ (creating.post # 0 => /\ post'[creating.post].kind = "create"
                                     /\ post'[creating.post].at \in {"sent", "orphan"}
                                     /\ post'[creating.post].id = post[creating.post].id)
         \/ CreatingOK',
         (places' = places /\ spoilt' = spoilt) \/ WorldOK'
  PROVE  ProjectInv'
<1>0. /\ PlanTypes /\ agreed \subseteq Plans /\ shown \in Plans \cup {Prep!None} /\ Prep!None \notin Plans
      /\ \A k \in Prep!Posts : post[k] \in Prep!Calls /\ CallOK(post[k])
  BY DEF ProjectInv, PlanTypes, ProjectAssumption
<1>1. \A p \in agreed' : plan'[p].state # Prep!None
  <2>1. agreed' \subseteq Plans BY DEF PlanTypes
  <2> QED BY <1>0, <2>1 DEF ProjectInv, PlanMoves
<1>2. shown' # Prep!None => plan'[shown'].state # Prep!None BY <1>0 DEF ProjectInv, PlanMoves
<1>3. \A k \in Prep!Posts : CallOK(post[k])'
  <2> SUFFICES ASSUME NEW k \in Prep!Posts PROVE CallOK(post[k])' OBVIOUS
  <2>1. CASE post'[k] = post[k]
    <3>1. PICK c \in Prep!Calls : c = post[k] /\ CallOK(c) BY <1>0
    <3>2. CallOK(c)' BY <3>1, CallKept
    <3>3. post'[k] = c BY <2>1, <3>1
    <3> QED BY <3>2, <3>3 DEF CallOK
  <2>2. CASE post'[k] = Prep!Done BY <2>2, IdleCalls DEF CallOK
  <2> QED BY <2>1, <2>2
<1>4. CreatingOK'
  <2> SUFFICES ASSUME creating' = creating,
                      creating.post # 0 => /\ post'[creating.post].kind = "create"
                                           /\ post'[creating.post].at \in {"sent", "orphan"}
                                           /\ post'[creating.post].id = post[creating.post].id
               PROVE  CreatingOK'
    OBVIOUS
  <2>1. creating.post = 0 => creating = Prep!NotCreating BY DEF ProjectInv, CreatingOK
  <2>2. ASSUME creating.post # 0 PROVE plan'[Prep!PlanOf'].absent
    <3>1. creating.post \in Prep!Posts BY <1>0, <2>2 DEF PlanTypes, Writing
    <3>2. plan[Prep!PlanOf].absent /\ Prep!PlanOf \in agreed BY <1>0, <2>2, <3>1 DEF ProjectInv,
      CreatingOK, CallOK, Prep!PlanOf
    <3>3. Prep!PlanOf \in Plans /\ plan[Prep!PlanOf].state # Prep!None BY <1>0, <3>2 DEF ProjectInv
    <3>4. Prep!PlanOf' = Prep!PlanOf BY <2>2 DEF Prep!PlanOf
    <3>5. plan'[Prep!PlanOf].absent = plan[Prep!PlanOf].absent BY <3>3 DEF PlanMoves
    <3> QED BY <3>2, <3>4, <3>5
  <2> QED BY <2>1, <2>2 DEF CreatingOK
<1>5. WorldOK'
  <2> SUFFICES ASSUME places' = places, spoilt' = spoilt PROVE WorldOK' OBVIOUS
  <2>1. spoilt' = FALSE BY DEF ProjectInv, WorldOK
  <2>2. \A f \in Folders : places[f] \in {"half", "ours"} =>
          \E p \in agreed' : plan'[p].parent = f /\ plan'[p].absent
    <3> SUFFICES ASSUME NEW f \in Folders, places[f] \in {"half", "ours"}
                 PROVE  \E p \in agreed' : plan'[p].parent = f /\ plan'[p].absent
      OBVIOUS
    <3>1. PICK p \in agreed : plan[p].parent = f /\ plan[p].absent BY DEF ProjectInv, WorldOK
    <3>2. p \in Plans /\ plan[p].state # Prep!None BY <1>0 DEF ProjectInv
    <3>3. plan'[p].parent = f /\ plan'[p].absent = plan[p].absent BY <3>1, <3>2 DEF PlanMoves
    <3> QED BY <3>1, <3>3
  <2> QED BY <2>1, <2>2 DEF WorldOK
<1> QED BY <1>1, <1>2, <1>3, <1>4, <1>5 DEF ProjectInv

\* The page makes a call.
LEMMA SendKept ==
  ASSUME ProjectAssumption, ProjectInv, NEW c \in Prep!Calls, Prep!Send(c), CallOK(c)', agreed \subseteq agreed',
         agreed' \subseteq Plans, \A p \in agreed' : p \in agreed \/ plan[p].state # Prep!None,
         shown' \in {shown, Prep!None}, UNCHANGED <<plan, creating, places, spoilt>>
  PROVE  ProjectInv'
<1>1. PICK k \in Prep!Posts : post[k] = Prep!Idle /\ post' = [post EXCEPT ![k] = c] BY DEF Prep!Send
<1>2. PlanTypes /\ post \in [Prep!Posts -> Prep!Calls] BY DEF ProjectInv, PlanTypes
<1>3. post' \in [Prep!Posts -> Prep!Calls] /\ post'[k] = c /\ (\A j \in Prep!Posts : j # k => post'[j] = post[j]) BY <1>1, <1>2
<1>4. PlanTypes' BY <1>2, <1>3 DEF PlanTypes
<1>5. PlanMoves BY DEF PlanMoves
<1>6. CallOK(post[k])' BY <1>3 DEF CallOK
<1>7. creating.post # 0 => creating.post \in Prep!Posts /\ creating.post # k
  BY <1>1, <1>2, IdleCalls DEF ProjectInv, CreatingOK, PlanTypes, Writing, Prep!None
<1>8. creating.post # 0 => post'[creating.post] = post[creating.post] BY <1>3, <1>7
<1>9. creating.post # 0 => post[creating.post].kind = "create" /\ post[creating.post].at \in {"sent", "orphan"}
  BY DEF ProjectInv, CreatingOK
<1> QED BY <1>3, <1>4, <1>5, <1>6, <1>8, <1>9, ProjectKept

LEMMA PressSteps ==
  ASSUME ProjectAssumption, ProjectInv, FolderInv,
         \/ \E typed \in Folders \cup {Prep!None} : Prep!SubmitAdd(typed) \/ Prep!SubmitNew(typed)
         \/ Prep!PressCreate \/ Prep!AbandonPlan
  PROVE  ProjectInv'
<1>0. PlanTypes /\ agreed \subseteq Plans /\ shown \in Plans \cup {Prep!None} /\ Prep!None \notin Plans
      /\ pick["add"] \in FolderRequests \cup {Prep!None} /\ pick["new"] \in FolderRequests \cup {Prep!None}
  BY DEF ProjectInv, PlanTypes, ProjectAssumption, FolderInv, FolderTypes, Prep!Purposes
<1>1. ASSUME NEW typed \in Folders \cup {Prep!None}, Prep!SubmitAdd(typed) PROVE ProjectInv'
  <2>1. PICK c : c = [kind |-> "add", id |-> pick["add"], typed |-> typed, at |-> "sent"] OBVIOUS
  <2>2. c \in Prep!Calls /\ c.kind = "add" /\ c.id = pick["add"] BY <1>0, <2>1 DEF Prep!Calls
  <2>3. Prep!Send(c) /\ UNCHANGED <<plan, creating, places, spoilt, shown, agreed>>
    BY <1>1, <2>1 DEF Prep!SubmitAdd, Prep!Submit, Prep!history
  <2>4. CallOK(c)' BY <1>0, <2>2 DEF CallOK
  <2> QED BY <1>0, <2>2, <2>3, <2>4, SendKept
<1>2. ASSUME NEW typed \in Folders \cup {Prep!None}, Prep!SubmitNew(typed) PROVE ProjectInv'
  <2>1. PICK c : c = [kind |-> "plan", id |-> pick["new"], typed |-> typed, at |-> "sent"] OBVIOUS
  <2>2. c \in Prep!Calls /\ c.kind = "plan" /\ c.at = "sent" /\ c.id = pick["new"] BY <1>0, <2>1 DEF Prep!Calls
  <2>3. Prep!Send(c) /\ shown' = Prep!None /\ UNCHANGED <<plan, creating, places, spoilt, agreed>>
    BY <1>2, <2>1 DEF Prep!SubmitNew, Prep!Submit, Prep!history
  <2>4. CallOK(c)' BY <1>0, <2>2 DEF CallOK
  <2> QED BY <1>0, <2>2, <2>3, <2>4, SendKept
<1>3. CASE Prep!PressCreate
  <2>1. PICK c : c = [kind |-> "create", id |-> shown, typed |-> Prep!None, at |-> "sent"] OBVIOUS
  <2>2. c \in Prep!Calls /\ c.kind = "create" /\ c.id = shown BY <1>0, <2>1 DEF Prep!Calls
  <2>3. Prep!Send(c) /\ shown # Prep!None /\ agreed' = agreed \cup {shown} /\ UNCHANGED <<plan, creating, places, spoilt, shown>>
    BY <1>3, <2>1 DEF Prep!PressCreate
  <2>4. CallOK(c)' BY <2>2, <2>3 DEF CallOK
  <2>5. plan[shown].state # Prep!None BY <2>3 DEF ProjectInv
  <2> QED BY <1>0, <2>2, <2>3, <2>4, <2>5, SendKept
<1>4. CASE Prep!AbandonPlan
  <2>1. PICK c : c = [kind |-> "cancel", id |-> shown, typed |-> Prep!None, at |-> "sent"] OBVIOUS
  <2>2. c \in Prep!Calls /\ c.kind = "cancel" /\ c.id = shown BY <1>0, <2>1 DEF Prep!Calls
  <2>3. Prep!Send(c) /\ shown # Prep!None /\ shown' = Prep!None /\ UNCHANGED <<plan, creating, places, spoilt, agreed>>
    BY <1>4, <2>1 DEF Prep!AbandonPlan, Prep!history
  <2>4. CallOK(c)' BY <1>0, <2>2, <2>3 DEF CallOK
  <2> QED BY <1>0, <2>2, <2>3, <2>4, SendKept
<1> QED BY <1>1, <1>2, <1>3, <1>4

-----------------------------------------------------------------------------
(* The server answers. *)

LEMMA HeardIs ==
  ASSUME ProjectInv, NEW k \in Prep!Posts, NEW c \in Prep!Calls, Prep!Heard(k, c), CallOK(c)'
  PROVE  /\ post' \in [Prep!Posts -> Prep!Calls] /\ (\A j \in Prep!Posts : j # k => post'[j] = post[j])
         /\ \A j \in Prep!Posts : post'[j] \in {post[j], Prep!Done} \/ CallOK(post[j])'
<1>1. post \in [Prep!Posts -> Prep!Calls] BY DEF ProjectInv, PlanTypes
<1>2. post' = [post EXCEPT ![k] = IF post[k].at = "orphan" THEN Prep!Done ELSE c] BY DEF Prep!Heard
<1>3. post' \in [Prep!Posts -> Prep!Calls] /\ (\A j \in Prep!Posts : j # k => post'[j] = post[j]) BY <1>1, <1>2, IdleCalls
<1>4. post'[k] \in {Prep!Done, c} BY <1>1, <1>2
<1>5. post'[k] = c => CallOK(post[k])' BY DEF CallOK
<1> QED BY <1>3, <1>4, <1>5

LEMMA Replied ==
  ASSUME ProjectInv, NEW k \in Prep!Posts, NEW what \in {"ok", "error"}, Prep!Reply(k, what),
         what = "ok" => post[k].kind # "plan", PlanMoves, agreed \subseteq agreed'
  PROVE  /\ post' \in [Prep!Posts -> Prep!Calls] /\ (\A j \in Prep!Posts : j # k => post'[j] = post[j])
         /\ \A j \in Prep!Posts : post'[j] \in {post[j], Prep!Done} \/ CallOK(post[j])'
<1>1. PICK a \in Prep!Calls : a = post[k] /\ CallOK(a) BY DEF ProjectInv, PlanTypes
<1>2. PICK c : c = [a EXCEPT !.at = what] OBVIOUS
<1>3. c \in Prep!Calls /\ c.kind = a.kind /\ c.id = a.id /\ c.at = what BY <1>1, <1>2 DEF Prep!Calls
<1>4. Prep!Heard(k, c) BY <1>1, <1>2 DEF Prep!Reply
<1>5. CallOK(a)' BY <1>1, CallKept
<1>6. CallOK(c)' BY <1>1, <1>3, <1>5 DEF CallOK
<1> QED BY <1>3, <1>4, <1>6, HeardIs

LEMMA QuietPlan == ASSUME UNCHANGED plan PROVE PlanMoves
BY DEF PlanMoves

\* Nothing else of the project changes while a call is answered.
LEMMA AnsweredKept ==
  ASSUME ProjectAssumption, ProjectInv, post' \in [Prep!Posts -> Prep!Calls],
         \A j \in Prep!Posts : post'[j] \in {post[j], Prep!Done} \/ CallOK(post[j])',
         plan' \in [Plans -> PlanRecord], PlanMoves,
         shown' \in {shown, Prep!None} \/ (shown' \in Plans /\ plan'[shown'].state # Prep!None),
         creating.post # 0 => post'[creating.post] = post[creating.post],
         UNCHANGED <<creating, places, agreed, spoilt>>
  PROVE  ProjectInv'
<1>1. PlanTypes' BY DEF ProjectInv, PlanTypes
<1>2. creating.post # 0 => post[creating.post].kind = "create" /\ post[creating.post].at \in {"sent", "orphan"}
  BY DEF ProjectInv, CreatingOK
<1> QED BY <1>1, <1>2, ProjectKept

LEMMA AddAndCancelSteps ==
  ASSUME ProjectAssumption, ProjectInv, NEW k \in Prep!Posts, Prep!HandleAdd(k) \/ Prep!HandleCancel(k)
  PROVE  ProjectInv'
<1>0. creating.post = 0 /\ PlanTypes /\ post[k] \in Prep!Calls
  BY DEF Prep!HandleAdd, Prep!HandleCancel, Prep!Idling, Prep!NotCreating, ProjectInv, PlanTypes
<1>1. UNCHANGED <<creating, places, agreed, spoilt, shown>> BY DEF Prep!HandleAdd,
  Prep!HandleCancel, Prep!history
<1>2. \E what \in {"ok", "error"} : Prep!Reply(k, what) BY DEF Prep!HandleAdd, Prep!HandleCancel
<1>3. post[k].kind # "plan" BY DEF Prep!HandleAdd, Prep!HandleCancel, Prep!Arrived
<1>4. plan' \in [Plans -> PlanRecord] /\ PlanMoves
  <2>1. CASE Prep!HandleAdd(k) BY <1>0, <2>1, QuietPlan DEF Prep!HandleAdd, PlanTypes
  <2>2. CASE Prep!HandleCancel(k)
    <3>1. PICK p : p = post[k].id OBVIOUS
    <3>2. p \in Plans BY <2>2, <3>1 DEF Prep!HandleCancel, Prep!Arrived, ProjectInv, CallOK
    <3>3. PICK v : v = [plan[p] EXCEPT !.state = "gone"] OBVIOUS
    <3>4. v \in PlanRecord /\ v.state = "gone" /\ v.parent = plan[p].parent /\ v.absent = plan[p].absent
      BY <1>0, <3>2, <3>3 DEF PlanTypes, PlanRecord
    <3>5. plan' = [plan EXCEPT ![p] = v] BY <2>2, <3>1, <3>3 DEF Prep!HandleCancel
    <3> QED BY <1>0, <3>2, <3>4, <3>5 DEF PlanTypes, PlanMoves, Prep!None
  <2> QED BY <2>1, <2>2
<1>5. agreed \subseteq agreed' BY <1>1
<1> QED BY <1>0, <1>1, <1>2, <1>3, <1>4, <1>5, Replied, AnsweredKept

LEMMA PlanStep ==
  ASSUME ProjectAssumption, ProjectInv, FolderInv, NEW k \in Prep!Posts, NEW p \in Plans, Prep!HandlePlan(k, p)
  PROVE  ProjectInv'
<1>0. creating.post = 0 /\ PlanTypes /\ post[k] \in Prep!Calls /\ plan[p].state = Prep!None
      /\ post[k].kind = "plan" /\ post[k].at \in {"sent", "orphan"}
  BY DEF Prep!HandlePlan, Prep!Idling, Prep!NotCreating, ProjectInv, PlanTypes, Prep!Arrived
<1>1. UNCHANGED <<creating, places, agreed, spoilt, shown>> BY DEF Prep!HandlePlan
<1>2. CASE UNCHANGED plan /\ Prep!Reply(k, "error")
  <2>1. plan' \in [Plans -> PlanRecord] /\ PlanMoves BY <1>0, <1>2, QuietPlan DEF PlanTypes
  <2>2. agreed \subseteq agreed' BY <1>1
  <2> QED BY <1>0, <1>1, <1>2, <2>1, <2>2, Replied, AnsweredKept
<1>3. CASE ~(UNCHANGED plan /\ Prep!Reply(k, "error"))
  <2> DEFINE f == Prep!Place(post[k])
             new == Prep!Remembered(p)
             v == [Prep!NoPlan EXCEPT !.state = "kept", !.parent = f, !.absent = (places[f] = "absent")]
             made == [plan EXCEPT ![p] = v]
  <2>1. /\ plan' = [q \in Plans |-> IF made[q].state = "kept" /\ \A i \in 1..Len(new) : new[i] # q
                                     THEN [made[q] EXCEPT !.state = "gone"] ELSE made[q]]
        /\ Prep!Heard(k, [post[k] EXCEPT !.at = "ok", !.id = p])
        /\ (IF post[k].id = Prep!None THEN UNCHANGED <<req, spent>> ELSE Prep!Consume(post[k].id))
    BY <1>3 DEF Prep!HandlePlan
  <2>2. f \in Folders \cup {Prep!None}
    <3>1. CASE post[k].id = Prep!None BY <1>0, <3>1, CallParts DEF Prep!Place
    <3>2. CASE post[k].id # Prep!None
      <4>1. post[k].id \in FolderRequests BY <1>0, <3>2 DEF ProjectInv, CallOK
      <4>2. req[post[k].id] \in Asked BY <4>1 DEF FolderInv, FolderTypes
      <4> QED BY <3>2, <4>2, AskedParts DEF Prep!Place
    <3> QED BY <3>1, <3>2
  <2> HIDE DEF f
  <2>3. v \in PlanRecord /\ v.state = "kept" BY <2>2 DEF Prep!NoPlan, PlanRecord
  <2> HIDE DEF v, new
  <2>4. made \in [Plans -> PlanRecord] /\ (\A q \in Plans : q # p => made[q] = plan[q]) /\ made[p].state = "kept"
    BY <1>0, <2>3 DEF PlanTypes
  <2> HIDE DEF made
  <2>5. \A q \in Plans : /\ plan'[q] \in PlanRecord /\ plan'[q].parent = made[q].parent /\ plan'[q].absent = made[q].absent
                         /\ (made[q].state # Prep!None => plan'[q].state # Prep!None)
    <3> SUFFICES ASSUME NEW q \in Plans
                 PROVE  /\ plan'[q] \in PlanRecord /\ plan'[q].parent = made[q].parent /\ plan'[q].absent = made[q].absent
                        /\ (made[q].state # Prep!None => plan'[q].state # Prep!None)
      OBVIOUS
    <3>1. plan'[q] = made[q] \/ plan'[q] = [made[q] EXCEPT !.state = "gone"] BY <2>1
    <3>2. CASE plan'[q] = made[q] BY <2>4, <3>2
    <3>3. CASE plan'[q] = [made[q] EXCEPT !.state = "gone"]
      <4>1. made[q] \in PlanRecord BY <2>4
      <4> QED BY <3>3, <4>1 DEF PlanRecord, Prep!None
    <3> QED BY <3>1, <3>2, <3>3
  <2>6. plan' \in [Plans -> PlanRecord] BY <2>1, <2>5
  <2>7. PlanMoves BY <1>0, <2>4, <2>5 DEF PlanMoves
  <2>8. plan'[p].state # Prep!None BY <2>4, <2>5 DEF Prep!None
  <2>9. PICK c : c = [post[k] EXCEPT !.at = "ok", !.id = p] OBVIOUS
  <2>10. c \in Prep!Calls /\ c.kind = "plan" /\ c.at = "ok" /\ c.id = p BY <1>0, <2>9 DEF Prep!Calls
  <2>11. CallOK(c)' BY <2>8, <2>10 DEF CallOK
  <2> QED BY <1>0, <1>1, <2>1, <2>6, <2>7, <2>9, <2>10, <2>11, HeardIs, AnsweredKept
<1> QED BY <1>2, <1>3

-----------------------------------------------------------------------------
(* Create. *)

LEMMA OnePlan ==
  ASSUME ProjectInv, NEW p \in Plans, NEW v \in PlanRecord, plan' = [plan EXCEPT ![p] = v],
         v.state # Prep!None, v.parent = plan[p].parent, v.absent = plan[p].absent
  PROVE  plan' \in [Plans -> PlanRecord] /\ PlanMoves
BY DEF ProjectInv, PlanTypes, PlanMoves

\* The create call under way: which plan, and where.
LEMMA UnderWay ==
  ASSUME ProjectAssumption, ProjectInv, creating.post # 0
  PROVE  /\ creating.post \in Prep!Posts /\ post[creating.post] \in Prep!Calls
         /\ post[creating.post].kind = "create" /\ post[creating.post].at \in {"sent", "orphan"}
         /\ Prep!PlanOf \in agreed /\ Prep!PlanOf \in Plans /\ plan[Prep!PlanOf] \in PlanRecord
         /\ plan[Prep!PlanOf].absent /\ plan[Prep!PlanOf].state # Prep!None
<1>1. creating.post \in Prep!Posts BY DEF ProjectInv, PlanTypes, Writing
<1>2. post[creating.post] \in Prep!Calls /\ CallOK(post[creating.post]) BY <1>1 DEF ProjectInv,
  PlanTypes
<1>3. /\ post[creating.post].kind = "create" /\ post[creating.post].at \in {"sent", "orphan"}
      /\ plan[Prep!PlanOf].absent
  BY DEF ProjectInv, CreatingOK
<1>4. Prep!PlanOf \in agreed BY <1>2, <1>3 DEF CallOK, Prep!PlanOf
<1>5. Prep!PlanOf \in Plans /\ plan[Prep!PlanOf].state # Prep!None BY <1>4 DEF ProjectInv, PlanTypes
<1>6. plan[Prep!PlanOf] \in PlanRecord BY <1>5 DEF ProjectInv, PlanTypes
<1> QED BY <1>1, <1>2, <1>3, <1>4, <1>5, <1>6

LEMMA CreateStep ==
  ASSUME ProjectAssumption, ProjectInv, NEW k \in Prep!Posts, Prep!HandleCreate(k)
  PROVE  ProjectInv'
<1>0. /\ creating.post = 0 /\ PlanTypes /\ post[k] \in Prep!Calls /\ CallOK(post[k])
      /\ post[k].kind = "create" /\ post[k].at \in {"sent", "orphan"}
      /\ UNCHANGED <<places, agreed, spoilt, shown>>
  BY DEF Prep!HandleCreate, Prep!Idling, Prep!NotCreating, ProjectInv, PlanTypes, Prep!Arrived,
     Prep!history
<1>1. CASE Prep!StillValid(post[k].id)
  <2>1. PICK p : p = post[k].id OBVIOUS
  <2>2. p \in agreed /\ p \in Plans /\ plan[p].absent /\ plan[p].state # Prep!None
    BY <1>0, <1>1, <2>1 DEF CallOK, PlanTypes, ProjectInv, Prep!StillValid
  <2>3. PICK v : v = [plan[p] EXCEPT !.consumed = TRUE] OBVIOUS
  <2>4. plan[p] \in PlanRecord BY <1>0, <2>2 DEF PlanTypes
  <2>5. v \in PlanRecord /\ v.state = plan[p].state /\ v.parent = plan[p].parent /\ v.absent = plan[p].absent
    BY <2>3, <2>4 DEF PlanRecord
  <2>6. creating' = [post |-> k, at |-> "checked"] /\ plan' = [plan EXCEPT ![p] = v] /\ post' = post
    BY <1>1, <2>1, <2>3 DEF Prep!HandleCreate
  <2>7. plan' \in [Plans -> PlanRecord] /\ PlanMoves BY <2>2, <2>5, <2>6, OnePlan
  <2>8. creating' \in Writing BY <2>6 DEF Writing
  <2>9. PlanTypes' BY <1>0, <2>6, <2>7, <2>8 DEF PlanTypes
  <2>10. creating'.post = k /\ k # 0 BY <2>6 DEF Prep!Posts
  <2>11. plan'[p].absent BY <2>2, <2>7 DEF PlanMoves
  <2>12. Prep!PlanOf' = p BY <2>1, <2>6, <2>10 DEF Prep!PlanOf
  <2>13. CreatingOK' BY <1>0, <2>6, <2>10, <2>11, <2>12 DEF CreatingOK
  <2> QED BY <1>0, <2>6, <2>7, <2>9, <2>13, ProjectKept
<1>2. CASE ~Prep!StillValid(post[k].id)
  <2>1. Prep!Reply(k, "error") /\ UNCHANGED <<creating, plan>> BY <1>2 DEF Prep!HandleCreate
  <2>2. plan' \in [Plans -> PlanRecord] /\ PlanMoves /\ agreed \subseteq agreed' BY <1>0, <2>1, QuietPlan DEF PlanTypes
  <2> QED BY <1>0, <2>1, <2>2, Replied, AnsweredKept
<1> QED BY <1>1, <1>2

\* The end of a create call.
LEMMA CreateEnds ==
  ASSUME ProjectAssumption, ProjectInv, creating.post # 0, creating' = Prep!NotCreating,
         NEW what \in {"ok", "error"}, Prep!Reply(creating.post, what),
         plan' \in [Plans -> PlanRecord], PlanMoves, UNCHANGED <<places, spoilt, agreed, shown>>
  PROVE  ProjectInv'
<1>1. creating.post \in Prep!Posts /\ post[creating.post].kind # "plan" /\ PlanTypes
  BY UnderWay DEF ProjectInv
<1>2. agreed \subseteq agreed' OBVIOUS
<1>3. PICK k \in Prep!Posts : k = creating.post BY <1>1
<1>4. Prep!Reply(k, what) /\ post[k].kind # "plan" BY <1>1, <1>3
<1>5. post' \in [Prep!Posts -> Prep!Calls] /\ \A j \in Prep!Posts : post'[j] \in {post[j], Prep!Done} \/ CallOK(post[j])'
  BY <1>2, <1>4, Replied
<1>6. creating' \in Writing /\ CreatingOK' BY DEF Prep!NotCreating, Writing, CreatingOK
<1>7. PlanTypes' BY <1>1, <1>5, <1>6 DEF PlanTypes
<1> QED BY <1>5, <1>6, <1>7, ProjectKept

LEMMA CreateFailsStep ==
  ASSUME ProjectAssumption, ProjectInv, creating.post # 0, Prep!CreateFails,
         UNCHANGED <<places, spoilt, agreed, shown>>
  PROVE  ProjectInv'
<1>1. PICK p : p = Prep!PlanOf OBVIOUS
<1>2. p \in Plans /\ plan[p] \in PlanRecord /\ plan[p].state # Prep!None BY <1>1, UnderWay
<1>3. PICK v : v = [plan[p] EXCEPT !.consumed = FALSE] OBVIOUS
<1>4. v \in PlanRecord /\ v.state = plan[p].state /\ v.parent = plan[p].parent /\ v.absent = plan[p].absent
  BY <1>2, <1>3 DEF PlanRecord
<1>5. plan' = [plan EXCEPT ![p] = v] BY <1>1, <1>3 DEF Prep!CreateFails
<1>6. plan' \in [Plans -> PlanRecord] /\ PlanMoves BY <1>2, <1>4, <1>5, OnePlan
<1> QED BY <1>6, CreateEnds DEF Prep!CreateFails

\* Something is written where the plan under way said.
LEMMA Written ==
  ASSUME ProjectAssumption, ProjectInv, creating.post # 0, NEW w \in {"half", "ours"}, NEW s \in {"made", "written"},
         places' = [places EXCEPT ![Prep!PlaceOf] = w], creating' = [creating EXCEPT !.at = s], spoilt' = FALSE,
         UNCHANGED <<post, plan, agreed, shown>>
  PROVE  ProjectInv'
<1>1. PlanTypes BY DEF ProjectInv
<1>2. creating' \in Writing /\ creating'.post = creating.post BY <1>1 DEF PlanTypes, Writing
<1>3. places' \in [Folders -> {"absent", "theirs", "half", "ours"}] BY <1>1 DEF PlanTypes
<1>4. PlanTypes' BY <1>1, <1>2, <1>3 DEF PlanTypes
<1>5. CreatingOK' BY <1>2, UnderWay DEF CreatingOK, Prep!PlanOf
<1>6. WorldOK'
  <2>1. \A f \in Folders : places'[f] \in {"half", "ours"} => \E p \in agreed' : plan'[p].parent = f /\ plan'[p].absent
    <3> SUFFICES ASSUME NEW f \in Folders, places'[f] \in {"half", "ours"}
                 PROVE  \E p \in agreed : plan[p].parent = f /\ plan[p].absent
      OBVIOUS
    <3>1. CASE f = Prep!PlaceOf BY <3>1, UnderWay DEF Prep!PlaceOf
    <3>2. CASE f # Prep!PlaceOf
      <4>1. places'[f] = places[f] BY <1>1, <3>2 DEF PlanTypes
      <4> QED BY <4>1 DEF ProjectInv, WorldOK
    <3> QED BY <3>1, <3>2
  <2> QED BY <2>1 DEF WorldOK
<1>7. PlanMoves BY QuietPlan
<1> QED BY <1>4, <1>5, <1>6, <1>7, ProjectKept

LEMMA WriteSteps ==
  ASSUME ProjectAssumption, ProjectInv, Prep!MakeFolder \/ Prep!WriteFiles \/ Prep!RegisterNew
  PROVE  ProjectInv'
<1>0. creating.post # 0 /\ spoilt = FALSE /\ UNCHANGED <<agreed, shown>>
  BY DEF Prep!MakeFolder, Prep!WriteFiles, Prep!RegisterNew, Prep!Creating, ProjectInv, WorldOK,
     Prep!history
<1>1. CASE Prep!MakeFolder
  <2>1. CASE places[Prep!PlaceOf] = "absent"
    <3>1. /\ places' = [places EXCEPT ![Prep!PlaceOf] = "half"] /\ creating' = [creating EXCEPT !.at = "made"]
          /\ UNCHANGED <<post, plan>>
      BY <1>1, <2>1 DEF Prep!MakeFolder
    <3>2. spoilt' = (spoilt \/ (places[Prep!PlaceOf] = "theirs" /\ places'[Prep!PlaceOf] # "theirs")) BY <1>1 DEF Prep!MakeFolder
    <3>3. spoilt' = FALSE BY <1>0, <2>1, <3>2
    <3> QED BY <1>0, <3>1, <3>3, Written
  <2>2. CASE places[Prep!PlaceOf] # "absent"
    <3>1. Prep!CreateFails /\ UNCHANGED places BY <1>1, <2>2 DEF Prep!MakeFolder
    <3>2. spoilt' = (spoilt \/ (places[Prep!PlaceOf] = "theirs" /\ places'[Prep!PlaceOf] # "theirs")) BY <1>1 DEF Prep!MakeFolder
    <3>3. spoilt' = FALSE BY <1>0, <3>1, <3>2
    <3>4. spoilt' = spoilt BY <1>0, <3>3
    <3> QED BY <1>0, <3>1, <3>4, CreateFailsStep
  <2> QED BY <2>1, <2>2
<1>2. CASE Prep!WriteFiles
  <2>0. UNCHANGED spoilt BY <1>2 DEF Prep!WriteFiles, Prep!history
  <2>1. CASE /\ places' = [places EXCEPT ![Prep!PlaceOf] = "ours"] /\ creating' = [creating EXCEPT !.at = "written"]
             /\ UNCHANGED <<post, plan>>
    BY <1>0, <2>0, <2>1, Written
  <2>2. CASE Prep!CreateFails /\ UNCHANGED places BY <1>0, <2>0, <2>2, CreateFailsStep
  <2> QED BY <1>2, <2>1, <2>2 DEF Prep!WriteFiles
<1>3. CASE Prep!RegisterNew
  <2>0. UNCHANGED <<spoilt, places>> BY <1>3 DEF Prep!RegisterNew, Prep!history
  <2>1. CASE Prep!Reply(creating.post, "ok") /\ creating' = Prep!NotCreating /\ UNCHANGED plan
    <3>1. plan' \in [Plans -> PlanRecord] /\ PlanMoves BY <2>1, QuietPlan DEF ProjectInv, PlanTypes
    <3> QED BY <1>0, <2>0, <2>1, <3>1, CreateEnds
  <2>2. CASE Prep!CreateFails BY <1>0, <2>0, <2>2, CreateFailsStep
  <2> QED BY <1>3, <2>1, <2>2 DEF Prep!RegisterNew
<1> QED BY <1>1, <1>2, <1>3

-----------------------------------------------------------------------------
(* The page hears, and everybody else. *)

LEMMA AnswerSteps ==
  ASSUME ProjectAssumption, ProjectInv, NEW k \in Prep!Posts,
         Prep!AnswerAdd(k) \/ Prep!AnswerPlan(k) \/ Prep!AnswerCreate(k) \/ Prep!AnswerCancel(k)
  PROVE  ProjectInv'
<1>0. PlanTypes /\ post[k] \in Prep!Calls /\ CallOK(post[k]) /\ post[k].at \in {"ok", "error"}
  BY DEF Prep!AnswerAdd, Prep!AnswerPlan, Prep!AnswerCreate, Prep!AnswerCancel, ProjectInv,
     PlanTypes
<1>1. post' = [post EXCEPT ![k] = Prep!Done] /\ UNCHANGED <<plan, creating, places, agreed, spoilt>>
  BY DEF Prep!AnswerAdd, Prep!AnswerPlan, Prep!AnswerCreate, Prep!AnswerCancel, Prep!history
<1>2. post' \in [Prep!Posts -> Prep!Calls] /\ \A j \in Prep!Posts : post'[j] \in {post[j], Prep!Done} \/ CallOK(post[j])'
  BY <1>0, <1>1, IdleCalls DEF PlanTypes
<1>3. plan' \in [Plans -> PlanRecord] /\ PlanMoves BY <1>0, <1>1, QuietPlan DEF PlanTypes
<1>4. creating.post # 0 => post'[creating.post] = post[creating.post]
  <2>1. creating.post # 0 => creating.post # k BY <1>0, UnderWay
  <2> QED BY <1>0, <1>1, <2>1, UnderWay DEF PlanTypes
<1>5. shown' \in {shown, Prep!None} \/ (shown' \in Plans /\ plan'[shown'].state # Prep!None)
  BY <1>0, <1>1 DEF Prep!AnswerAdd, Prep!AnswerPlan, Prep!AnswerCreate, Prep!AnswerCancel, CallOK
<1> QED BY <1>1, <1>2, <1>3, <1>4, <1>5, AnsweredKept

LEMMA BrowsingKeepsProjects ==
  ASSUME ProjectAssumption, ProjectInv, Prep!Browsing
  PROVE  ProjectInv'
<1>1. UNCHANGED <<plan, shown, post, creating, places, agreed, spoilt>>
  BY DEF Prep!Browsing, Prep!Browse, Prep!OpenDialog, Prep!Answered, Prep!BridgeFails,
     Prep!ReadOutcome, Prep!history
<1>2. post' \in [Prep!Posts -> Prep!Calls] /\ plan' \in [Plans -> PlanRecord] /\ PlanMoves
  BY <1>1, QuietPlan DEF ProjectInv, PlanTypes
<1>3. \A j \in Prep!Posts : post'[j] \in {post[j], Prep!Done} BY <1>1
<1>4. creating.post # 0 => post'[creating.post] = post[creating.post] BY <1>1
<1>5. shown' \in {shown, Prep!None} BY <1>1
<1> QED BY <1>1, <1>2, <1>3, <1>4, <1>5, AnsweredKept

LEMMA OthersKeepProjects ==
  ASSUME ProjectAssumption, ProjectInv,
         Prep!Outside \/ Prep!TimeOut \/ Prep!Reload \/ \E dir \in listed : Prep!Removes(dir)
  PROVE  ProjectInv'
<1>0. PlanTypes /\ post \in [Prep!Posts -> Prep!Calls] /\ plan \in [Plans -> PlanRecord] BY DEF ProjectInv, PlanTypes
<1>1. CASE Prep!Outside
  <2>1. UNCHANGED <<plan, shown, post, creating, agreed, spoilt>> BY <1>1 DEF Prep!Outside,
    Prep!history
  <2>2. CASE UNCHANGED places
    <3>1. PlanMoves /\ plan' \in [Plans -> PlanRecord] /\ post' \in [Prep!Posts -> Prep!Calls] BY <1>0, <2>1, QuietPlan
    <3> QED BY <2>1, <2>2, <3>1, AnsweredKept
  <2>3. CASE \E f \in Folders : places' = [places EXCEPT ![f] = IF @ = "absent" THEN "theirs" ELSE "absent"]
    <3>1. PICK f \in Folders : places' = [places EXCEPT ![f] = IF @ = "absent" THEN "theirs" ELSE "absent"] BY <2>3
    <3>2. /\ places' \in [Folders -> {"absent", "theirs", "half", "ours"}]
          /\ \A g \in Folders : places'[g] \in {"half", "ours"} => places'[g] = places[g]
      BY <1>0, <3>1 DEF PlanTypes
    <3>3. WorldOK' BY <2>1, <3>2 DEF WorldOK, ProjectInv
    <3>4. PlanTypes' BY <1>0, <2>1, <3>2 DEF PlanTypes
    <3>5. PlanMoves BY <2>1, QuietPlan
    <3>6. CreatingOK' BY <2>1 DEF ProjectInv, CreatingOK, Prep!PlanOf
    <3> QED BY <2>1, <3>3, <3>4, <3>5, <3>6, ProjectKept
  <2> QED BY <1>1, <2>2, <2>3 DEF Prep!Outside
<1>2. CASE Prep!TimeOut
  <2>1. UNCHANGED <<shown, post, creating, places, agreed, spoilt>> BY <1>2 DEF Prep!TimeOut,
    Prep!history
  <2>2. plan' \in [Plans -> PlanRecord] /\ PlanMoves
    <3>1. CASE UNCHANGED plan BY <1>0, <3>1, QuietPlan
    <3>2. CASE \E p \in Plans : plan[p].state = "kept" /\ plan' = [plan EXCEPT ![p].old = TRUE]
      <4>1. PICK p \in Plans : plan[p].state = "kept" /\ plan' = [plan EXCEPT ![p].old = TRUE] BY <3>2
      <4>2. PICK v : v = [plan[p] EXCEPT !.old = TRUE] OBVIOUS
      <4>3. v \in PlanRecord /\ v.state = "kept" /\ v.parent = plan[p].parent /\ v.absent = plan[p].absent
        BY <1>0, <4>1, <4>2 DEF PlanRecord
      <4>4. plan' = [plan EXCEPT ![p] = v] BY <4>1, <4>2
      <4>5. v.state # Prep!None BY <4>3 DEF Prep!None
      <4> QED BY <4>3, <4>4, <4>5, OnePlan
    <3> QED BY <1>2, <3>1, <3>2 DEF Prep!TimeOut
  <2> QED BY <1>0, <2>1, <2>2, AnsweredKept
<1>3. CASE Prep!Reload
  <2>1. UNCHANGED <<plan, creating, places, agreed, spoilt>> /\ shown' = Prep!None BY <1>3
     DEF Prep!Reload, Prep!history
  <2>2. post' = [k \in Prep!Posts |->
          CASE post[k].at \in {"sent", "orphan"} -> [post[k] EXCEPT !.at = "orphan"]
            [] post[k].at \in {"ok", "error"}    -> Prep!Done
            [] OTHER                             -> post[k]]
    BY <1>3 DEF Prep!Reload
  <2>3. \A k \in Prep!Posts : \/ post[k].at \in {"sent", "orphan"} /\ post'[k] = [post[k] EXCEPT !.at = "orphan"]
                              \/ post[k].at \notin {"sent", "orphan"} /\ post'[k] \in {Prep!Done, post[k]}
    BY <2>2
  <2>4. PlanMoves /\ plan' \in [Plans -> PlanRecord] BY <1>0, <2>1, QuietPlan
  <2>5. \A k \in Prep!Posts : /\ post'[k] \in Prep!Calls
                              /\ post'[k] \in {post[k], Prep!Done} \/ CallOK(post[k])'
                              /\ (post[k].at \in {"sent", "orphan"} =>
                                    post'[k].at = "orphan" /\ post'[k].kind = post[k].kind /\ post'[k].id = post[k].id)
    <3> SUFFICES ASSUME NEW k \in Prep!Posts
                 PROVE  /\ post'[k] \in Prep!Calls
                        /\ post'[k] \in {post[k], Prep!Done} \/ CallOK(post[k])'
                        /\ (post[k].at \in {"sent", "orphan"} =>
                              post'[k].at = "orphan" /\ post'[k].kind = post[k].kind /\ post'[k].id = post[k].id)
      OBVIOUS
    <3>1. PICK a \in Prep!Calls : a = post[k] /\ CallOK(a) BY <1>0 DEF ProjectInv
    <3>2. CASE a.at \in {"sent", "orphan"}
      <4>1. PICK c : c = [a EXCEPT !.at = "orphan"] OBVIOUS
      <4>2. c \in Prep!Calls /\ c.at = "orphan" /\ c.kind = a.kind /\ c.id = a.id BY <4>1
         DEF Prep!Calls
      <4>3. post'[k] = c BY <2>3, <3>1, <3>2, <4>1
      <4>4. CallOK(a)' BY <2>1, <2>4, <3>1, CallKept
      <4>5. CallOK(post[k])' BY <3>1, <3>2, <4>2, <4>3, <4>4 DEF CallOK
      <4> QED BY <3>1, <3>2, <4>2, <4>3, <4>5
    <3>3. CASE a.at \notin {"sent", "orphan"} BY <2>3, <3>1, <3>3, IdleCalls
    <3> QED BY <3>2, <3>3
  <2>6. post' \in [Prep!Posts -> Prep!Calls]
    <3>1. \A k \in Prep!Posts : post'[k] \in Prep!Calls BY <2>5
    <3>2. \E g : post' = [k \in Prep!Posts |-> g[k]]
      <4>1. post' = [k \in Prep!Posts |-> post'[k]] BY <2>2
      <4> QED BY <4>1
    <3> QED BY <3>1, <3>2
  <2>7. PlanTypes' BY <1>0, <2>1, <2>4, <2>6 DEF PlanTypes, ProjectAssumption
  <2>8. creating.post # 0 => /\ post'[creating.post].kind = "create"
                             /\ post'[creating.post].at \in {"sent", "orphan"}
                             /\ post'[creating.post].id = post[creating.post].id
    BY <2>5, UnderWay
  <2> QED BY <2>1, <2>4, <2>5, <2>7, <2>8, ProjectKept
<1>4. CASE \E dir \in listed : Prep!Removes(dir)
  <2>1. UNCHANGED <<plan, shown, post, creating, places, agreed, spoilt>> BY <1>4
     DEF Prep!Removes, Prep!history
  <2>2. PlanMoves /\ plan' \in [Plans -> PlanRecord] /\ post' \in [Prep!Posts -> Prep!Calls] BY <1>0, <2>1, QuietPlan
  <2> QED BY <2>1, <2>2, AnsweredKept
<1> QED BY <1>1, <1>2, <1>3, <1>4

-----------------------------------------------------------------------------
(* The folder requests in the steps that are not about choosing. *)

LEMMA HandlingKeepsFolders ==
  ASSUME ProjectAssumption, ProjectInv, FolderInv, NEW k \in Prep!Posts,
         Prep!HandleAdd(k) \/ \E p \in Plans : Prep!HandlePlan(k, p)
  PROVE  FolderInv'
<1>0. UNCHANGED <<pick, dialogs>> BY DEF Prep!HandleAdd, Prep!HandlePlan
<1>5. MaxPosts >= 1 BY DEF Prep!Posts, ProjectAssumption
<1>6. post[k] \in Prep!Calls /\ CallOK(post[k]) BY DEF ProjectInv, PlanTypes
<1>7. pick \in [Prep!Purposes -> FolderRequests \cup {Prep!None}] /\ dialogs \subseteq FolderRequests /\ (\A a, b \in dialogs : a = b)
  BY DEF FolderInv, FolderTypes
<1>1. post[k].id \in FolderRequests \cup {Prep!None}
  BY <1>6 DEF Prep!HandleAdd, Prep!HandlePlan, Prep!Arrived, CallOK
<1>2. \/ UNCHANGED <<req, spent>>
      \/ post[k].id # Prep!None /\ (Prep!Consume(post[k].id) \/ Prep!Refuse(post[k].id))
  BY DEF Prep!HandleAdd, Prep!HandlePlan
<1>3. CASE UNCHANGED <<req, spent>> BY <1>0, <1>3, <1>7, FoldersQuiet
<1>4. CASE post[k].id # Prep!None /\ (Prep!Consume(post[k].id) \/ Prep!Refuse(post[k].id)) BY <1>0, <1>1, <1>4, <1>5, UseSteps
<1> QED BY <1>2, <1>3, <1>4

LEMMA OthersKeepFolders ==
  ASSUME ProjectAssumption, FolderInv,
         \/ Prep!Submitting \/ Prep!Answering \/ Prep!Outside \/ Prep!TimeOut \/ Prep!Reload
         \/ \E k \in Prep!Posts : Prep!HandleCreate(k) \/ Prep!HandleCancel(k)
         \/ Prep!MakeFolder \/ Prep!WriteFiles \/ Prep!RegisterNew
         \/ \E dir \in listed : Prep!Removes(dir)
  PROVE  FolderInv'
<1>0. /\ pick \in [Prep!Purposes -> FolderRequests \cup {Prep!None}] /\ dialogs \subseteq FolderRequests /\ (\A a, b \in dialogs : a = b)
      /\ FolderTypes
  BY DEF FolderInv, FolderTypes
<1>1. CASE Prep!TimeOut
  <2>1. UNCHANGED <<pick, dialogs, spent>> BY <1>1 DEF Prep!TimeOut, Prep!history
  <2>2. CASE UNCHANGED req BY <1>0, <2>1, <2>2, FoldersQuiet
  <2>3. CASE \E r \in FolderRequests : req' = [req EXCEPT ![r].old = TRUE]
    <3>1. PICK r \in FolderRequests : req' = [req EXCEPT ![r].old = TRUE] BY <2>3
    <3>2. PICK v : v = [req[r] EXCEPT !.old = TRUE] OBVIOUS
    <3>3. req[r] \in Asked /\ SelectionOK(r) BY <1>0 DEF FolderInv, FolderTypes
    <3>4. v \in Asked /\ v.state = req[r].state /\ v.purpose = req[r].purpose /\ v.path = req[r].path
          /\ v.consumed = req[r].consumed
      BY <3>2, <3>3, AskedOld
    <3>5. req' = [req EXCEPT ![r] = v] BY <3>1, <3>2
    <3>6. v.state = Prep!None => ~v.consumed BY <3>3, <3>4 DEF SelectionOK
    <3>7. v.state = "selected" => v.path # Prep!None BY <3>3, <3>4 DEF SelectionOK
    <3> QED BY <1>0, <2>1, <3>4, <3>5, <3>6, <3>7, OneRequest
  <2> QED BY <1>1, <2>2, <2>3 DEF Prep!TimeOut
<1>2. CASE ~Prep!TimeOut
  <2>1. UNCHANGED <<req, spent, dialogs>>
    BY <1>2 DEF Prep!Submitting, Prep!SubmitAdd, Prep!SubmitNew, Prep!PressCreate,
       Prep!AbandonPlan, Prep!Answering, Prep!AnswerAdd, Prep!AnswerPlan,
       Prep!AnswerCreate, Prep!AnswerCancel, Prep!Outside, Prep!Reload, Prep!HandleCreate, Prep!HandleCancel, Prep!MakeFolder, Prep!WriteFiles,
       Prep!RegisterNew, Prep!Removes, Prep!broker, Prep!history
  <2>2. /\ pick' \in [Prep!Purposes -> FolderRequests \cup {Prep!None}]
        /\ \A w \in Prep!Purposes : pick'[w] \in {pick[w], Prep!None}
    <3>1. \/ pick' = pick \/ pick' = [pick EXCEPT !["add"] = Prep!None] \/ pick' = [pick EXCEPT !["new"] = Prep!None]
          \/ pick' = [w \in Prep!Purposes |-> Prep!None]
      BY <1>2 DEF Prep!Submitting, Prep!SubmitAdd, Prep!SubmitNew, Prep!PressCreate,
         Prep!AbandonPlan, Prep!Answering, Prep!AnswerAdd, Prep!AnswerPlan,
         Prep!AnswerCreate, Prep!AnswerCancel, Prep!Outside, Prep!Reload, Prep!HandleCreate, Prep!HandleCancel, Prep!MakeFolder, Prep!WriteFiles,
         Prep!RegisterNew, Prep!Removes, Prep!broker
    <3> QED BY <1>0, <3>1
  <2> QED BY <1>0, <2>1, <2>2, FoldersQuiet
<1> QED BY <1>1, <1>2

-----------------------------------------------------------------------------

LEMMA ProjectInit == ASSUME ProjectAssumption, Prep!Init PROVE NpInv
<1>1. FolderInv
  <2>1. Prep!NoRequest \in Asked /\ Prep!NoRequest.state = Prep!None /\ Prep!NoRequest.consumed = FALSE BY DEF Prep!NoRequest, Asked, Prep!Purposes
  <2>2. FolderTypes BY <2>1 DEF Prep!Init, FolderTypes, ProjectAssumption
  <2>3. \A r \in FolderRequests : SelectionOK(r) BY <2>1 DEF Prep!Init, SelectionOK, Prep!None
  <2>4. \A w \in Prep!Purposes : PickOK(w) BY DEF Prep!Init, PickOK
  <2> QED BY <2>2, <2>3, <2>4 DEF FolderInv, Prep!Init
<1>2. ProjectInv
  <2>1. Prep!NoPlan \in PlanRecord BY DEF Prep!NoPlan, PlanRecord
  <2>2. creating \in Writing /\ creating = Prep!NotCreating /\ creating.post = 0 BY
     DEF Prep!Init, Prep!NotCreating, Writing
  <2>3. PlanTypes BY <2>1, <2>2, IdleCalls DEF Prep!Init, PlanTypes
  <2>4. \A k \in Prep!Posts : CallOK(post[k]) BY IdleCalls DEF Prep!Init, CallOK, Prep!None
  <2>5. CreatingOK BY <2>2 DEF CreatingOK
  <2>6. WorldOK BY DEF Prep!Init, WorldOK
  <2>7. agreed = {} /\ shown = Prep!None BY DEF Prep!Init
  <2> QED BY <2>3, <2>4, <2>5, <2>6, <2>7 DEF ProjectInv
<1> QED BY <1>1, <1>2 DEF NpInv

LEMMA ProjectNext == ASSUME NpInv, [Prep!Next]_(Prep!vars) PROVE NpInv'
<1>0. ProjectAssumption /\ FolderInv /\ ProjectInv /\ ProjectAssumption' BY DEF NpInv,
  ProjectAssumption
<1>1. FolderInv'
  <2>1. CASE UNCHANGED Prep!vars
    BY <1>0, <2>1 DEF Prep!vars, FolderInv, FolderTypes, SelectionOK, PickOK
  <2>2. CASE Prep!Browsing BY <1>0, <2>2, BrowseStep, DialogSteps DEF Prep!Browsing
  <2>3. CASE \E k \in Prep!Posts : Prep!HandleAdd(k) \/ \E p \in Plans : Prep!HandlePlan(k, p)
    BY <1>0, <2>3, HandlingKeepsFolders
  <2>4. CASE \/ Prep!Submitting \/ Prep!Answering \/ Prep!Outside \/ Prep!TimeOut \/ Prep!Reload
             \/ \E k \in Prep!Posts : Prep!HandleCreate(k) \/ Prep!HandleCancel(k)
             \/ Prep!MakeFolder \/ Prep!WriteFiles \/ Prep!RegisterNew
             \/ \E dir \in listed : Prep!Removes(dir)
    BY <1>0, <2>4, OthersKeepFolders
  <2> QED BY <2>1, <2>2, <2>3, <2>4 DEF Prep!Next, Prep!Handling
<1>2. ProjectInv'
  <2>1. CASE UNCHANGED Prep!vars
    BY <1>0, <2>1 DEF Prep!vars, ProjectInv, PlanTypes, CallOK, CreatingOK, WorldOK, Prep!PlanOf,
       Prep!history
  <2>2. CASE Prep!Browsing BY <1>0, <2>2, BrowsingKeepsProjects
  <2>3. CASE Prep!Submitting BY <1>0, <2>3, PressSteps DEF Prep!Submitting
  <2>4. CASE Prep!Handling BY <1>0, <2>4, AddAndCancelSteps, CreateStep, PlanStep, WriteSteps DEF Prep!Handling
  <2>5. CASE Prep!Answering BY <1>0, <2>5, AnswerSteps DEF Prep!Answering
  <2>6. CASE Prep!Outside \/ Prep!TimeOut \/ Prep!Reload \/ \E dir \in listed : Prep!Removes(dir)
    BY <1>0, <2>6, OthersKeepProjects
  <2> QED BY <2>1, <2>2, <2>3, <2>4, <2>5, <2>6 DEF Prep!Next
<1> QED BY <1>0, <1>1, <1>2 DEF NpInv

\* A set whose members are all the same has one member at most.
LEMMA OneDialog == ASSUME NEW S, \A a, b \in S : a = b PROVE Cardinality(S) <= 1
<1>1. CASE S = {} BY <1>1, FS_EmptySet
<1>2. CASE \E x : x \in S
  <2>1. PICK x : x \in S BY <1>2
  <2>2. S = {x} BY <2>1
  <2> QED BY <2>2, FS_Singleton
<1> QED BY <1>1, <1>2

\* The instance has its own copy of the library's operator.
LEMMA SameCount == ASSUME NEW S PROVE Prep!Cardinality(S) = Cardinality(S)
BY DEF Prep!Cardinality, Cardinality

LEMMA AgreedFollows == ASSUME NpInv PROVE ProjectsAreAsAgreed
<1>1. Prep!CreatedAsShown BY DEF NpInv, ProjectInv, WorldOK, Prep!CreatedAsShown
<1>2. Prep!SelectionsHold
  <2>1. \A r \in FolderRequests : spent[r] <= 1 BY DEF NpInv, FolderInv, SelectionOK
  <2>2. Cardinality(dialogs) <= 1 BY OneDialog DEF NpInv, FolderInv
  <2>3. \A w \in Prep!Purposes : pick[w] # Prep!None => req[pick[w]].purpose = w /\ req[pick[w]].path # Prep!None
    BY DEF NpInv, FolderInv, PickOK
  <2> QED BY <2>1, <2>2, <2>3, SameCount DEF Prep!SelectionsHold
<1> QED BY <1>1, <1>2 DEF ProjectsAreAsAgreed, Prep!ProjectsAreAsAgreed

\* The inductive invariant: what the requests, the page's calls and the plans are to each
\* other at every step (folder_requests.py, project_plan.py, coding.js, folder_picker.py).
THEOREM ProjectBookkeeping == Prep!Spec => []NpInv
<1>1. Prep!Init => NpInv BY ProjectInit, ProjectAssumption
<1>2. NpInv /\ [Prep!Next]_(Prep!vars) => NpInv' BY ProjectNext
<1> QED BY <1>1, <1>2, PTL DEF Prep!Spec

\* A selection is used once, for what it was made for; nothing is written but by a plan that
\* was on screen when Create was pressed, where that plan said, and never into a folder that
\* was there; for any folders, requests, plans, calls and faults, and with reloads and
\* expiries at any moment.
THEOREM ProjectsStayAsAgreed == Prep!Spec => []ProjectsAreAsAgreed
<1>1. NpInv => ProjectsAreAsAgreed BY AgreedFollows
<1> QED BY <1>1, ProjectBookkeeping, PTL

-----------------------------------------------------------------------------
(* The new project and the place of a task together. *)

\* What the run of a task's start checks on a small instance, for every value of the
\* constants and every behaviour of it.
THEOREM TheTaskStartIsHonest ==
  StartSpec => []ProjectsAreAsAgreed /\ []IsolationIsHonest
<1>1. StartInit => Prep!Init /\ Iso!Init
  BY DEF StartInit
<1>2. [StartNext]_<<startPart, projectVars, isoVars>> =>
        [Prep!Next]_(Prep!vars) /\ [Iso!Next]_(Iso!vars)
  <2>1. UNCHANGED isoVars => UNCHANGED Iso!vars BY DEF isoVars, Iso!vars
  <2>2. UNCHANGED projectVars => UNCHANGED Prep!vars BY DEF projectVars, Prep!vars
  <2> QED BY <2>1, <2>2 DEF StartNext
<1>3. StartSpec => Prep!Spec /\ Iso!Spec
  BY <1>1, <1>2, PTL DEF StartSpec, Prep!Spec, Iso!Spec
<1> QED BY <1>3, ProjectsStayAsAgreed, TheStartIsHonest, PTL
=============================================================================

--------------------------- MODULE ActionPipeline ---------------------------
(***************************************************************************)
(* How a command becomes a running tool: the router's dispatch             *)
(* (app/core/router.py), the policy (policy.py), the in-memory approval    *)
(* queue (pending_actions.py), the persisted audit record                  *)
(* (action_lifecycle.py), the confirm and cancel endpoints                 *)
(* (app/api/actions.py) and the shared handler pool (tool_registry.py).    *)
(*                                                                         *)
(* FastAPI runs each of these handlers in a thread of its own, so every    *)
(* lock-protected section and every database statement is one step here,   *)
(* and everything between two of them may be interleaved with the others.  *)
(***************************************************************************)
EXTENDS Naturals, FiniteSets, RuntimeState

CONSTANTS
    Actions,        \* ids the router may give to proposed actions
    Requests,       \* POST /actions/{id}/confirm and /cancel requests
    Tools,          \* tool names a route may name
    Match,          \* the tools the command behind each action may route to
    Aim,            \* the actions each request may name
    Registered,     \* those of them that are in the registry
    Permission,     \* a registered tool's permission level
    DeclaredRisk,   \* its declared risk, NoRisk when it declares none
    NoRisk,
    NoTool,
    PoolSize,       \* workers of the shared handler pool (8 in the code)
    MaxRestarts     \* bound: how often the process may die and come back

PermissionLevels == {"safe", "approval_required", "blocked"}
Risks == {"read_only", "reversible", "sensitive", "destructive", "blocked"}

ASSUME ProcessesAssumption ==
    /\ Actions \cap Requests = {}
    /\ Aim \in [Requests -> SUBSET Actions]
ASSUME ToolsAssumption ==
    /\ Registered \subseteq Tools
    /\ Match \in [Actions -> SUBSET Tools]
    /\ Permission \in [Registered -> PermissionLevels]
    /\ DeclaredRisk \in [Registered -> Risks \cup {NoRisk}]
    /\ NoRisk \notin Risks
    /\ NoTool \notin Tools
ASSUME BoundsAssumption == PoolSize \in Nat \ {0} /\ MaxRestarts \in Nat

VARIABLES
    tool,       \* the tool each action was matched to
    life,       \* action_lifecycle.status, persisted
    store,      \* PendingAction.status, "absent" when the queue has no entry
    params,     \* the queue entry's parameters: as given, or scrubbed
    late,       \* whether the entry's expires_at has passed
    handler,    \* the handler call submitted to the pool for the action
    given,      \* the parameters that call was given
    pc,         \* where each dispatch and each request stands
    target,     \* the action a request names
    result,     \* what execute()/execute_approved() returned to its caller
    write,      \* a lifecycle status read as allowed and not yet written
    rt,         \* the runtime state shown on the dashboard
    restarts

vars == <<tool, life, store, params, late, handler, given, pc, target,
          result, write, rt, restarts>>

Procs == Actions \cup Requests

Statuses == {"none", "proposed", "pending_approval", "approved", "executing",
             "succeeded", "failed", "cancelled", "expired", "blocked"}
Terminal == {"succeeded", "failed", "cancelled", "expired", "blocked"}
QueueStatuses == {"absent", "pending", "confirmed", "executed", "failed",
                  "cancelled", "expired"}
HandlerStates == {"none", "queued", "running", "ok", "error", "dropped", "killed"}
Places == {"idle", "deny", "create", "rt_await", "life_await",
           "life_approved", "rt_exec", "life_exec", "submit", "waiting",
           "give_up", "rt_standby", "mark", "life_result",
           "lookup", "life_expired", "life_cancel", "rt_cancel", "done", "raised", "killed"}
Finished == {"idle", "done", "raised", "killed"}

-----------------------------------------------------------------------------
(* Policy *)

PermissionOf(t) == IF t \in Registered THEN Permission[t] ELSE "safe"

LegacyRisk == [safe |-> "reversible", approval_required |-> "sensitive",
               blocked |-> "blocked"]

(* A declared risk wins over the one derived from the permission level. *)
RiskFor(t) ==
    IF t \in Registered /\ DeclaredRisk[t] # NoRisk
    THEN DeclaredRisk[t] ELSE LegacyRisk[PermissionOf(t)]

Evaluate(risk) ==
    CASE risk \in {"read_only", "reversible"} -> "auto_execute"
      [] risk = "sensitive"                   -> "require_approval"
      [] OTHER                                -> "deny"

Policy(t) == Evaluate(RiskFor(t))

-----------------------------------------------------------------------------
(* Helpers *)

Subject(p) == IF p \in Actions THEN p ELSE target[p]

Goto(p, place) == pc' = [pc EXCEPT ![p] = place]

(* A process acts only when no lifecycle write of its own is outstanding. *)
At(p, place) == pc[p] = place /\ write[p] = "none"

TryRuntime(target_state) == rt' = TryTransition(rt, target_state)

(* action_lifecycle.transition up to its UPDATE: the current status is     *)
(* read, a terminal one refuses, any other lets the caller go on to write. *)
(* The refusal reaches the user of a dispatch as an exception and is       *)
(* swallowed by the endpoints' _sync_lifecycle.                            *)
ReadLife(p, status, next) ==
    IF life[Subject(p)] \in Terminal
    THEN /\ Goto(p, IF p \in Actions THEN "raised" ELSE next)
         /\ UNCHANGED write
    ELSE /\ Goto(p, next)
         /\ write' = [write EXCEPT ![p] = status]

(* A dispatched tool whose level is not "safe" is turned away once more by *)
(* execute(); execute_approved() asks nothing.                             *)
MayStart(p) ==
    LET t == tool[Subject(p)]
    IN t \in Registered /\ (p \in Actions => PermissionOf(t) = "safe")

(* Store entries past their deadline are closed, and emptied, on sight. *)
Overdue(a) == store[a] = "pending" /\ late[a]

-----------------------------------------------------------------------------
Init ==
    /\ tool = [a \in Actions |-> NoTool]
    /\ life = [a \in Actions |-> "none"]
    /\ store = [a \in Actions |-> "absent"]
    /\ params = [a \in Actions |-> "original"]
    /\ late = [a \in Actions |-> FALSE]
    /\ handler = [a \in Actions |-> "none"]
    /\ given = [a \in Actions |-> "none"]
    /\ pc = [p \in Procs |-> "idle"]
    /\ target \in {f \in [Requests -> Actions] : \A r \in Requests : f[r] \in Aim[r]}
    /\ result = [p \in Procs |-> "none"]
    /\ write = [p \in Procs |-> "none"]
    /\ rt = "standby"
    /\ restarts = 0

-----------------------------------------------------------------------------
(* The dispatch of action a *)

(* The command matched a route: the risk is classified, the policy decides *)
(* and the proposal is recorded.                                           *)
Dispatch(a) ==
    /\ At(a, "idle")
    /\ \E t \in Match[a] :
        /\ tool' = [tool EXCEPT ![a] = t]
        /\ Goto(a, CASE Policy(t) = "deny"             -> "deny"
                     [] Policy(t) = "require_approval" -> "create"
                     [] OTHER                          -> "rt_exec")
    /\ life' = [life EXCEPT ![a] = "proposed"]
    /\ UNCHANGED <<store, params, late, handler, given, target, result, write,
                   rt, restarts>>

Denied(a) ==
    /\ At(a, "deny")
    /\ ReadLife(a, "blocked", "done")
    /\ UNCHANGED <<tool, life, store, params, late, handler, given, target,
                   result, rt, restarts>>

(* From here on the action can be listed, confirmed and cancelled, while   *)
(* its audit record still says "proposed".                                 *)
CreatePending(a) ==
    /\ At(a, "create")
    /\ store' = [store EXCEPT ![a] = "pending"]
    /\ Goto(a, "rt_await")
    /\ UNCHANGED <<tool, life, params, late, handler, given, target, result,
                   write, rt, restarts>>

AwaitApproval(a) ==
    /\ At(a, "rt_await")
    /\ TryRuntime("awaiting_approval")
    /\ Goto(a, "life_await")
    /\ UNCHANGED <<tool, life, store, params, late, handler, given, target,
                   result, write, restarts>>

RecordPending(a) ==
    /\ At(a, "life_await")
    /\ ReadLife(a, "pending_approval", "done")
    /\ UNCHANGED <<tool, life, store, params, late, handler, given, target,
                   result, rt, restarts>>

-----------------------------------------------------------------------------
(* Executing, by the dispatch itself or by the confirming request *)

ShowExecuting(p) ==
    /\ At(p, "rt_exec")
    /\ TryRuntime("executing")
    /\ Goto(p, "life_exec")
    /\ UNCHANGED <<tool, life, store, params, late, handler, given, target,
                   result, write, restarts>>

RecordExecuting(p) ==
    /\ At(p, "life_exec")
    /\ ReadLife(p, "executing", "submit")
    /\ UNCHANGED <<tool, life, store, params, late, handler, given, target,
                   result, rt, restarts>>

(* An unknown tool, a permission that still needs approval or an input the *)
(* tool's model rejects returns a failure with the handler never submitted. *)
Refuse(p) ==
    /\ At(p, "submit")
    /\ result' = [result EXCEPT ![p] = "failed"]
    /\ Goto(p, "rt_standby")
    /\ UNCHANGED <<tool, life, store, params, late, handler, given, target,
                   write, rt, restarts>>

Submit(p) ==
    LET a == Subject(p)
    IN /\ At(p, "submit")
       /\ MayStart(p)
       /\ handler' = [handler EXCEPT ![a] = "queued"]
       /\ given' = [given EXCEPT ![a] = IF p \in Actions THEN "original"
                                        ELSE params[a]]
       /\ Goto(p, "waiting")
       /\ UNCHANGED <<tool, life, store, params, late, target, result, write,
                      rt, restarts>>

(* future.result(): the handler's answer while the wait lasts ... *)
HandlerAnswered(p) ==
    LET a == Subject(p)
    IN /\ At(p, "waiting")
       /\ handler[a] \in {"ok", "error"}
       /\ result' = [result EXCEPT ![p] = IF handler[a] = "ok" THEN "succeeded"
                                          ELSE "failed"]
       /\ Goto(p, "rt_standby")
       /\ UNCHANGED <<tool, life, store, params, late, handler, given, target,
                      write, rt, restarts>>

(* Mutated form of TimeOut: a call that has started is waited for. *)
TimeOutQueuedOnly(p) ==
    /\ At(p, "waiting")
    /\ handler[Subject(p)] = "queued"
    /\ Goto(p, "give_up")
    /\ UNCHANGED <<tool, life, store, params, late, handler, given, target,
                   result, write, rt, restarts>>

(* ... or a timeout, after which future.cancel() drops a call that has not *)
(* started and does nothing to one that has.                               *)
TimeOut(p) ==
    /\ At(p, "waiting")
    /\ handler[Subject(p)] \in {"queued", "running"}
    /\ Goto(p, "give_up")
    /\ UNCHANGED <<tool, life, store, params, late, handler, given, target,
                   result, write, rt, restarts>>

(* Mutated form of GiveUp: the future is abandoned but not cancelled. *)
GiveUpWithoutCancel(p) ==
    /\ At(p, "give_up")
    /\ result' = [result EXCEPT ![p] = "failed"]
    /\ Goto(p, "rt_standby")
    /\ UNCHANGED <<tool, life, store, params, late, handler, given, target,
                   write, rt, restarts>>

GiveUp(p) ==
    LET a == Subject(p)
    IN /\ At(p, "give_up")
       /\ handler' = [handler EXCEPT ![a] = IF @ = "queued" THEN "dropped" ELSE @]
       /\ result' = [result EXCEPT ![p] = "failed"]
       /\ Goto(p, "rt_standby")
       /\ UNCHANGED <<tool, life, store, params, late, given, target, write,
                      rt, restarts>>

ShowStandby(p) ==
    /\ At(p, "rt_standby")
    /\ TryRuntime("standby")
    /\ Goto(p, IF p \in Actions THEN "life_result" ELSE "mark")
    /\ UNCHANGED <<tool, life, store, params, late, handler, given, target,
                   result, write, restarts>>

RecordResult(p) ==
    /\ At(p, "life_result")
    /\ ReadLife(p, result[p], "done")
    /\ UNCHANGED <<tool, life, store, params, late, handler, given, target,
                   result, rt, restarts>>

(* The UPDATE of a lifecycle transition: it names the row and no status. *)
WriteLife(p) ==
    /\ write[p] # "none"
    /\ life' = [life EXCEPT ![Subject(p)] = write[p]]
    /\ write' = [write EXCEPT ![p] = "none"]
    /\ UNCHANGED <<tool, store, params, late, handler, given, pc, target,
                   result, rt, restarts>>

-----------------------------------------------------------------------------
(* The confirm and cancel endpoints *)

(* Mutated forms of Confirm: the status is not checked, or the parameters  *)
(* are scrubbed on the way to "confirmed" as on the way to "cancelled".    *)
ConfirmAnyStatus(r) ==
    /\ At(r, "idle")
    /\ store[target[r]] # "absent"
    /\ store' = [store EXCEPT ![target[r]] = "confirmed"]
    /\ Goto(r, "life_approved")
    /\ UNCHANGED <<tool, life, params, late, handler, given, target, result,
                   write, rt, restarts>>
ConfirmScrubbing(r) ==
    /\ At(r, "idle")
    /\ store[target[r]] = "pending"
    /\ store' = [store EXCEPT ![target[r]] = "confirmed"]
    /\ params' = [params EXCEPT ![target[r]] = "scrubbed"]
    /\ Goto(r, "life_approved")
    /\ UNCHANGED <<tool, life, late, handler, given, target, result, write,
                   rt, restarts>>

(* PendingActionStore.confirm: one lock, one winner. *)
Confirm(r) ==
    LET a == target[r]
    IN /\ At(r, "idle")
       /\ IF Overdue(a)
          THEN /\ store' = [store EXCEPT ![a] = "expired"]
               /\ params' = [params EXCEPT ![a] = "scrubbed"]
               /\ Goto(r, "lookup")
          ELSE IF store[a] = "pending"
          THEN /\ store' = [store EXCEPT ![a] = "confirmed"]
               /\ Goto(r, "life_approved")
               /\ UNCHANGED params
          ELSE /\ Goto(r, "lookup")
               /\ UNCHANGED <<store, params>>
       /\ UNCHANGED <<tool, life, late, handler, given, target, result, write,
                      rt, restarts>>

RecordApproved(r) ==
    /\ At(r, "life_approved")
    /\ ReadLife(r, "approved", "rt_exec")
    /\ UNCHANGED <<tool, life, store, params, late, handler, given, target,
                   result, rt, restarts>>

(* mark_executed and mark_failed: neither looks at the current status. *)
Mark(r) ==
    LET a == target[r]
    IN /\ At(r, "mark")
       /\ IF store[a] = "absent"
          THEN UNCHANGED <<store, params>>
          ELSE /\ store' = [store EXCEPT ![a] = IF result[r] = "succeeded"
                                                THEN "executed" ELSE "failed"]
               /\ params' = [params EXCEPT ![a] = "scrubbed"]
       /\ Goto(r, "life_result")
       /\ UNCHANGED <<tool, life, late, handler, given, target, result, write,
                      rt, restarts>>

(* PendingActionStore.cancel. *)
Cancel(r) ==
    LET a == target[r]
    IN /\ At(r, "idle")
       /\ IF store[a] = "pending"
          THEN /\ store' = [store EXCEPT ![a] = IF late[a] THEN "expired"
                                                ELSE "cancelled"]
               /\ params' = [params EXCEPT ![a] = "scrubbed"]
          ELSE UNCHANGED <<store, params>>
       /\ Goto(r, IF store[a] = "pending" /\ ~ late[a] THEN "life_cancel"
                  ELSE "lookup")
       /\ UNCHANGED <<tool, life, late, handler, given, target, result, write,
                      rt, restarts>>

RecordCancelled(r) ==
    /\ At(r, "life_cancel")
    /\ ReadLife(r, "cancelled", "rt_cancel")
    /\ UNCHANGED <<tool, life, store, params, late, handler, given, target,
                   result, rt, restarts>>

ShowCancelled(r) ==
    /\ At(r, "rt_cancel")
    /\ TryRuntime("standby")
    /\ Goto(r, "done")
    /\ UNCHANGED <<tool, life, store, params, late, handler, given, target,
                   result, write, restarts>>

(* The loser of a confirm or cancel reads the entry again to say why; the  *)
(* second look can itself be the one that closes it.                       *)
LookUp(r) ==
    LET a == target[r]
    IN /\ At(r, "lookup")
       /\ IF store[a] = "expired" \/ Overdue(a)
          THEN /\ Goto(r, "life_expired")
               /\ store' = [store EXCEPT ![a] = "expired"]
               /\ params' = [params EXCEPT ![a] = "scrubbed"]
          ELSE /\ Goto(r, "done")
               /\ UNCHANGED <<store, params>>
       /\ UNCHANGED <<tool, life, late, handler, given, target, result, write,
                      rt, restarts>>

RecordExpired(r) ==
    /\ At(r, "life_expired")
    /\ ReadLife(r, "expired", "done")
    /\ UNCHANGED <<tool, life, store, params, late, handler, given, target,
                   result, rt, restarts>>

-----------------------------------------------------------------------------
(* The rest of the world *)

(* Ten minutes go by. *)
Deadline(a) ==
    /\ store[a] = "pending"
    /\ ~ late[a]
    /\ late' = [late EXCEPT ![a] = TRUE]
    /\ UNCHANGED <<tool, life, store, params, handler, given, pc, target,
                   result, write, rt, restarts>>

Expire(S) ==
    /\ store' = [a \in Actions |-> IF a \in S THEN "expired" ELSE store[a]]
    /\ params' = [a \in Actions |-> IF a \in S THEN "scrubbed" ELSE params[a]]
    /\ UNCHANGED <<tool, life, late, handler, given, pc, target, result,
                   write, rt, restarts>>

(* GET /actions/{id} closes an overdue entry, GET /actions/pending all of  *)
(* them; neither touches the audit record nor the runtime state.           *)
GetAction(a) == Overdue(a) /\ Expire({a})
ListPending ==
    LET S == {a \in Actions : Overdue(a)}
    IN S # {} /\ Expire(S)

(* The pool: a worker takes a queued call, and the call ends, if it does.  *)
HandlerStart(a) ==
    /\ handler[a] = "queued"
    /\ Cardinality({b \in Actions : handler[b] = "running"}) < PoolSize
    /\ handler' = [handler EXCEPT ![a] = "running"]
    /\ UNCHANGED <<tool, life, store, params, late, given, pc, target, result,
                   write, rt, restarts>>

HandlerEnd(a) ==
    /\ handler[a] = "running"
    /\ \E end \in {"ok", "error"} : handler' = [handler EXCEPT ![a] = end]
    /\ UNCHANGED <<tool, life, store, params, late, given, pc, target, result,
                   write, rt, restarts>>

(* The process dies and starts again: threads, queue and pool are gone,    *)
(* the audit table is not, and nothing reconciles it.                      *)
Restart ==
    /\ restarts < MaxRestarts
    /\ restarts' = restarts + 1
    /\ pc' = [p \in Procs |-> IF pc[p] \in Finished THEN pc[p] ELSE "killed"]
    /\ write' = [p \in Procs |-> "none"]
    /\ store' = [a \in Actions |-> "absent"]
    /\ params' = [a \in Actions |-> "original"]
    /\ late' = [a \in Actions |-> FALSE]
    /\ handler' = [a \in Actions |->
                    CASE handler[a] = "queued"  -> "dropped"
                      [] handler[a] = "running" -> "killed"
                      [] OTHER                  -> handler[a]]
    /\ rt' = "standby"
    /\ result' = [p \in Procs |-> "none"]
    /\ UNCHANGED <<tool, life, given, target>>

-----------------------------------------------------------------------------
DispatchStep(a) ==
    \/ Dispatch(a) \/ Denied(a) \/ CreatePending(a) \/ AwaitApproval(a)
    \/ RecordPending(a)

ExecuteStep(p) ==
    \/ ShowExecuting(p) \/ RecordExecuting(p) \/ Refuse(p) \/ Submit(p)
    \/ HandlerAnswered(p) \/ TimeOut(p) \/ GiveUp(p) \/ ShowStandby(p)
    \/ RecordResult(p) \/ WriteLife(p)

RequestStep(r) ==
    \/ RecordApproved(r) \/ Mark(r) \/ RecordCancelled(r) \/ ShowCancelled(r)
    \/ LookUp(r) \/ RecordExpired(r)

Environment ==
    \/ \E r \in Requests : Confirm(r) \/ Cancel(r)
    \/ \E a \in Actions : Deadline(a) \/ GetAction(a) \/ HandlerStart(a) \/ HandlerEnd(a)
    \/ ListPending
    \/ Restart

Next ==
    \/ \E a \in Actions : DispatchStep(a)
    \/ \E p \in Procs : ExecuteStep(p)
    \/ \E r \in Requests : RequestStep(r)
    \/ Environment

Spec == Init /\ [][Next]_vars

(* A request's thread that can run does: nothing it waits for is unbounded, *)
(* because its wait for the handler has a timeout.  Handlers themselves may *)
(* hang, users need not answer, and clocks and crashes owe nothing.         *)
Fairness == \A r \in Requests : WF_vars(ExecuteStep(r) \/ RequestStep(r))

FairSpec == Spec /\ Fairness

-----------------------------------------------------------------------------
(* Properties *)

(* Every variable holds one of the values the code gives it. *)
TypeOK ==
    /\ tool \in [Actions -> Tools \cup {NoTool}]
    /\ life \in [Actions -> Statuses]
    /\ store \in [Actions -> QueueStatuses]
    /\ params \in [Actions -> {"original", "scrubbed"}]
    /\ late \in [Actions -> BOOLEAN]
    /\ handler \in [Actions -> HandlerStates]
    /\ given \in [Actions -> {"none", "original", "scrubbed"}]
    /\ pc \in [Procs -> Places]
    /\ target \in [Requests -> Actions]
    /\ result \in [Procs -> {"none", "succeeded", "failed"}]
    /\ write \in [Procs -> Statuses]
    /\ rt \in RuntimeStates
    /\ restarts \in 0..MaxRestarts

(* What the pipeline has decided about an action, for the abstract gate.   *)
QueueDecision ==
    [absent |-> "closed", pending |-> "waiting", confirmed |-> "approved",
     executed |-> "approved", failed |-> "approved", cancelled |-> "closed",
     expired |-> "closed"]

Decision ==
    [a \in Actions |->
        IF pc[a] \in {"idle", "create"} THEN "none"
        ELSE CASE Policy(tool[a]) = "require_approval" -> QueueDecision[store[a]]
               [] /\ Policy(tool[a]) = "auto_execute"
                  /\ PermissionOf(tool[a]) = "safe"
                  /\ pc[a] # "killed" -> "exempt"
               [] OTHER -> "closed"]

Ran == [a \in Actions |-> handler[a] \in {"running", "ok", "error", "killed"}]

Gate == INSTANCE ApprovalGate WITH decision <- Decision, ran <- Ran

(* A tool that policy or its permission puts behind approval starts only   *)
(* after one confirmation won, at most once, and never after its action    *)
(* was cancelled, expired, denied or lost in a restart - whatever          *)
(* requests, listings and timeouts interleave (router._dispatch,           *)
(* PendingActionStore, execute, execute_approved).                         *)
GateSpec == Gate!Spec

(* The handler gets the parameters the user approved: scrubbing a finished *)
(* entry never reaches one still to be executed (_scrub_terminal).         *)
RunsAsApproved ==
    \A a \in Actions : handler[a] # "none" => given[a] = "original"

(* The audit trail never calls an action cancelled, expired or blocked     *)
(* whose handler has started or is about to (_sync_lifecycle mirrors the   *)
(* queue with no lock in common with it).                                  *)
AuditNeverDenies ==
    \A a \in Actions :
        life[a] \in {"cancelled", "expired", "blocked"} => handler[a] = "none"

(* The audit trail says "succeeded" only of a handler that ended well, and *)
(* once it says "failed" no call of the action is still waiting to start.  *)
AuditIsHonest ==
    \A a \in Actions :
        /\ life[a] = "succeeded" => handler[a] = "ok"
        /\ life[a] = "failed" => handler[a] # "queued"

(* The indicator never sticks on "executing" once nothing executes: who    *)
(* sets it also clears it, on every path (try_transition never raises).    *)
NoPhantomExecuting ==
    rt = "executing" =>
        \E p \in Procs : pc[p] \in {"life_exec", "submit", "waiting", "give_up",
                                    "rt_standby"}

(* What the audit trail and the indicator say of an action is so.          *)
RecordsAreHonest == AuditNeverDenies /\ AuditIsHonest /\ NoPhantomExecuting

(* An approval is always followed by a recorded end, however long the      *)
(* handler hangs: the wait is bounded and nothing between it and mark_*    *)
(* can fail (confirm_action).                                              *)
ConfirmedSettles ==
    \A a \in Actions : store[a] = "confirmed" ~> store[a] # "confirmed"

(* TerminalStateError's promise: a finished audit record is never reopened. *)
TerminalIsFinal ==
    [][\A a \in Actions : life[a] \in Terminal => life'[a] = life[a]]_vars
=============================================================================

------------------------ MODULE ActionPipelineProofs ------------------------
(***************************************************************************)
(* Proofs about ActionPipeline, for any number of commands, requests and   *)
(* tools, any registry, any pool size and any number of restarts: the      *)
(* types, the inductive invariant behind "one confirmation, one            *)
(* execution", that the pipeline implements ApprovalGate, and that what is *)
(* recorded of an action is what became of it.                             *)
(***************************************************************************)
EXTENDS ActionPipeline, TLAPS

-----------------------------------------------------------------------------
(* Types *)

(* The action a process works on is one of the router's (dispatch, confirm *)
(* and cancel name an action each).                                        *)
LEMMA SubjectType ==
    ASSUME TypeOK, NEW p \in Procs
    PROVE  Subject(p) \in Actions
BY DEF TypeOK, Subject, Procs

(* A tolerant transition stays within the table's states                   *)
(* (RuntimeStateMachine.try_transition).                                   *)
LEMMA TryTransitionType ==
    ASSUME NEW s \in RuntimeStates, NEW t \in RuntimeStates
    PROVE  TryTransition(s, t) \in RuntimeStates
BY DEF TryTransition

(* A lifecycle read that lets its caller go on leaves the caller at a      *)
(* known place with a known status to write (action_lifecycle.transition). *)
LEMMA ReadLifeType ==
    ASSUME TypeOK, NEW p \in Procs, NEW status \in Statuses,
           NEW next \in Places, ReadLife(p, status, next)
    PROVE  /\ pc' \in [Procs -> Places]
           /\ write' \in [Procs -> Statuses]
<1>1. CASE life[Subject(p)] \in Terminal
  BY <1>1 DEF ReadLife, Goto, TypeOK, Places
<1>2. CASE life[Subject(p)] \notin Terminal
  BY <1>2 DEF ReadLife, Goto, TypeOK
<1> QED BY <1>1, <1>2

(* The initial state has every variable in its type (a fresh process).     *)
LEMMA TypeInit == Init => TypeOK
BY BoundsAssumption DEF Init, TypeOK, Statuses, QueueStatuses, HandlerStates,
   Places, RuntimeStates

(* The dispatch of a command keeps the types (Router._dispatch).           *)
LEMMA DispatchType ==
    ASSUME TypeOK, NEW a \in Actions, DispatchStep(a)
    PROVE  TypeOK'
<1> USE DEF Procs
<1>1. CASE Dispatch(a)
  <2>1. PICK t \in Match[a] :
           /\ tool' = [tool EXCEPT ![a] = t]
           /\ pc' = [pc EXCEPT ![a] = CASE Policy(t) = "deny" -> "deny"
                          [] Policy(t) = "require_approval" -> "create"
                          [] OTHER -> "rt_exec"]
    BY <1>1 DEF Dispatch, Goto
  <2>2. tool' \in [Actions -> Tools \cup {NoTool}]
    BY <2>1, ToolsAssumption DEF TypeOK
  <2>3. pc' \in [Procs -> Places]
    BY <2>1 DEF TypeOK, Places
  <2>4. life' \in [Actions -> Statuses]
    BY <1>1 DEF Dispatch, TypeOK, Statuses
  <2> QED BY <1>1, <2>2, <2>3, <2>4 DEF Dispatch, TypeOK
<1>2. CASE Denied(a)
  <2>1. /\ pc' \in [Procs -> Places]
        /\ write' \in [Procs -> Statuses]
    BY <1>2, ReadLifeType DEF Denied, Places, Statuses
  <2> QED BY <1>2, <2>1 DEF Denied, TypeOK
<1>3. CASE CreatePending(a)
  BY <1>3 DEF CreatePending, Goto, TypeOK, Places, QueueStatuses
<1>4. CASE AwaitApproval(a)
  <2>1. rt' \in RuntimeStates
    BY <1>4, TryTransitionType
       DEF AwaitApproval, TryRuntime, TypeOK, RuntimeStates
  <2> QED BY <1>4, <2>1 DEF AwaitApproval, Goto, TypeOK, Places
<1>5. CASE RecordPending(a)
  <2>1. /\ pc' \in [Procs -> Places]
        /\ write' \in [Procs -> Statuses]
    BY <1>5, ReadLifeType DEF RecordPending, Places, Statuses
  <2> QED BY <1>5, <2>1 DEF RecordPending, TypeOK
<1> QED BY <1>1, <1>2, <1>3, <1>4, <1>5 DEF DispatchStep

(* Execution keeps the types (ToolRegistry.execute, execute_approved and   *)
(* their callers' bookkeeping).                                            *)
LEMMA ExecuteType ==
    ASSUME TypeOK, NEW p \in Procs, ExecuteStep(p)
    PROVE  TypeOK'
<1>0. Subject(p) \in Actions
  BY SubjectType
<1>1. CASE ShowExecuting(p)
  <2>1. rt' \in RuntimeStates
    BY <1>1, TryTransitionType
       DEF ShowExecuting, TryRuntime, TypeOK, RuntimeStates
  <2> QED BY <1>1, <2>1 DEF ShowExecuting, Goto, TypeOK, Places
<1>2. CASE RecordExecuting(p)
  <2>1. /\ pc' \in [Procs -> Places]
        /\ write' \in [Procs -> Statuses]
    BY <1>2, ReadLifeType DEF RecordExecuting, Places, Statuses
  <2> QED BY <1>2, <2>1 DEF RecordExecuting, TypeOK
<1>3. CASE Refuse(p)
  BY <1>3 DEF Refuse, Goto, TypeOK, Places
<1>4. CASE Submit(p)
  BY <1>0, <1>4 DEF Submit, Goto, TypeOK, Places, HandlerStates
<1>5. CASE HandlerAnswered(p)
  BY <1>5 DEF HandlerAnswered, Goto, TypeOK, Places
<1>6. CASE TimeOut(p)
  BY <1>6 DEF TimeOut, Goto, TypeOK, Places
<1>7. CASE GiveUp(p)
  BY <1>0, <1>7 DEF GiveUp, Goto, TypeOK, Places, HandlerStates
<1>8. CASE ShowStandby(p)
  <2>1. rt' \in RuntimeStates
    BY <1>8, TryTransitionType
       DEF ShowStandby, TryRuntime, TypeOK, RuntimeStates
  <2> QED BY <1>8, <2>1 DEF ShowStandby, Goto, TypeOK, Places
<1>9. CASE RecordResult(p)
  <2>1. result[p] \in Statuses
    BY DEF TypeOK, Statuses
  <2>2. /\ pc' \in [Procs -> Places]
        /\ write' \in [Procs -> Statuses]
    BY <1>9, <2>1, ReadLifeType DEF RecordResult, Places
  <2> QED BY <1>9, <2>2 DEF RecordResult, TypeOK
<1>10. CASE WriteLife(p)
  BY <1>0, <1>10 DEF WriteLife, TypeOK, Statuses
<1> QED BY <1>1, <1>2, <1>3, <1>4, <1>5, <1>6, <1>7, <1>8, <1>9, <1>10
        DEF ExecuteStep

(* The endpoints keep the types (confirm_action, cancel_action).           *)
LEMMA RequestType ==
    ASSUME TypeOK, NEW r \in Requests,
           RequestStep(r) \/ Confirm(r) \/ Cancel(r)
    PROVE  TypeOK'
<1> USE DEF Procs
<1>0. target[r] \in Actions
  BY DEF TypeOK
<1>1. CASE RecordApproved(r)
  <2>1. /\ pc' \in [Procs -> Places]
        /\ write' \in [Procs -> Statuses]
    BY <1>1, ReadLifeType DEF RecordApproved, Places, Statuses
  <2> QED BY <1>1, <2>1 DEF RecordApproved, TypeOK
<1>2. CASE Mark(r)
  BY <1>0, <1>2 DEF Mark, Goto, TypeOK, Places, QueueStatuses
<1>3. CASE RecordCancelled(r)
  <2>1. /\ pc' \in [Procs -> Places]
        /\ write' \in [Procs -> Statuses]
    BY <1>3, ReadLifeType DEF RecordCancelled, Places, Statuses
  <2> QED BY <1>3, <2>1 DEF RecordCancelled, TypeOK
<1>4. CASE ShowCancelled(r)
  <2>1. rt' \in RuntimeStates
    BY <1>4, TryTransitionType
       DEF ShowCancelled, TryRuntime, TypeOK, RuntimeStates
  <2> QED BY <1>4, <2>1 DEF ShowCancelled, Goto, TypeOK, Places
<1>5. CASE LookUp(r)
  BY <1>0, <1>5 DEF LookUp, Goto, TypeOK, Places, QueueStatuses
<1>6. CASE RecordExpired(r)
  <2>1. /\ pc' \in [Procs -> Places]
        /\ write' \in [Procs -> Statuses]
    BY <1>6, ReadLifeType DEF RecordExpired, Places, Statuses
  <2> QED BY <1>6, <2>1 DEF RecordExpired, TypeOK
<1>7. CASE Confirm(r)
  BY <1>0, <1>7 DEF Confirm, Goto, TypeOK, Places, QueueStatuses
<1>8. CASE Cancel(r)
  BY <1>0, <1>8 DEF Cancel, Goto, TypeOK, Places, QueueStatuses
<1> QED BY <1>1, <1>2, <1>3, <1>4, <1>5, <1>6, <1>7, <1>8 DEF RequestStep

(* Closing any set of entries keeps the types (_expire_if_needed).         *)
LEMMA ExpireType ==
    ASSUME TypeOK, NEW S \in SUBSET Actions, Expire(S)
    PROVE  TypeOK'
BY DEF Expire, TypeOK, QueueStatuses

(* Clocks, listings, the pool and restarts keep the types.                 *)
LEMMA EnvironmentType ==
    ASSUME TypeOK, Environment
    PROVE  TypeOK'
<1>1. CASE \E r \in Requests : Confirm(r) \/ Cancel(r)
  BY <1>1, RequestType
<1>2. ASSUME NEW a \in Actions, Deadline(a)
      PROVE  TypeOK'
  BY <1>2 DEF Deadline, TypeOK
<1>3. ASSUME NEW a \in Actions, GetAction(a)
      PROVE  TypeOK'
  BY <1>3, ExpireType DEF GetAction
<1>4. ASSUME NEW a \in Actions, HandlerStart(a)
      PROVE  TypeOK'
  BY <1>4 DEF HandlerStart, TypeOK, HandlerStates
<1>5. ASSUME NEW a \in Actions, HandlerEnd(a)
      PROVE  TypeOK'
  BY <1>5 DEF HandlerEnd, TypeOK, HandlerStates
<1>6. CASE ListPending
  BY <1>6, ExpireType DEF ListPending
<1>7. CASE Restart
  <2>1. /\ store' \in [Actions -> QueueStatuses]
        /\ params' \in [Actions -> {"original", "scrubbed"}]
        /\ late' \in [Actions -> BOOLEAN]
        /\ write' \in [Procs -> Statuses]
        /\ result' \in [Procs -> {"none", "succeeded", "failed"}]
        /\ rt' \in RuntimeStates
    BY <1>7 DEF Restart, QueueStatuses, Statuses, RuntimeStates
  <2>2. pc' \in [Procs -> Places]
    BY <1>7 DEF Restart, TypeOK, Places
  <2>3. handler' \in [Actions -> HandlerStates]
    BY <1>7 DEF Restart, TypeOK, HandlerStates
  <2>4. restarts' \in 0..MaxRestarts
    BY <1>7, BoundsAssumption DEF Restart, TypeOK
  <2> QED BY <1>7, <2>1, <2>2, <2>3, <2>4 DEF Restart, TypeOK
<1> QED BY <1>1, <1>2, <1>3, <1>4, <1>5, <1>6, <1>7 DEF Environment

(* A step that changes nothing keeps the types.                            *)
LEMMA StutterType == TypeOK /\ UNCHANGED vars => TypeOK'
BY DEF vars, TypeOK

(* Every step of the pipeline keeps every variable in its type.            *)
LEMMA TypeStep == TypeOK /\ [Next]_vars => TypeOK'
BY DispatchType, ExecuteType, RequestType, EnvironmentType, StutterType
   DEF Next

(* TypeOK holds of every run: no interleaving of dispatches, requests,     *)
(* handlers and restarts leaves a variable outside the code's values.      *)
THEOREM TypeCorrect == Spec => []TypeOK
BY TypeInit, TypeStep, PTL DEF Spec

-----------------------------------------------------------------------------
(* The inductive invariant                                                 *)
(*                                                                         *)
(* GateSpec and RunsAsApproved speak of what has started; to carry them    *)
(* through every step one must know who may still start something.  Each   *)
(* part below is a fact the code relies on between two of its locks.       *)

(* Where a process holds the right to execute its action and has not yet   *)
(* submitted the handler; where a process executes at all.                 *)
BeforeSubmit == {"life_approved", "rt_exec", "life_exec", "submit"}
Executing == BeforeSubmit \cup {"waiting", "give_up", "rt_standby", "mark"}

(* Only an action that policy holds back, and whose dispatch has got so    *)
(* far, is ever in the queue.                                              *)
QueueInv ==
    \A a \in Actions :
        store[a] # "absent" => /\ pc[a] \notin {"idle", "deny", "create"}
                               /\ Policy(tool[a]) = "require_approval"

(* The dispatch follows the branch the policy chose.                       *)
BranchInv ==
    \A a \in Actions :
        /\ pc[a] = "create" => Policy(tool[a]) = "require_approval"
        /\ pc[a] \in BeforeSubmit => Policy(tool[a]) = "auto_execute"

(* A request past confirm() owns the entry it confirmed: it is still       *)
(* "confirmed", and no other request executes for it.                      *)
ClaimInv ==
    \A r \in Requests :
        pc[r] \in Executing =>
            /\ store[target[r]] = "confirmed"
            /\ \A q \in Requests :
                   pc[q] \in Executing /\ target[q] = target[r] => q = r

(* No handler exists before the dispatch, the approval or the submission.  *)
FreshInv ==
    /\ \A a \in Actions :
           pc[a] \in {"idle", "create"} \/ store[a] = "pending"
               => handler[a] = "none"
    /\ \A p \in Procs : pc[p] \in BeforeSubmit => handler[Subject(p)] = "none"

(* A handler in the pool's queue stands on an approval or an exemption.    *)
QueuedInv ==
    \A a \in Actions :
        handler[a] = "queued" => Decision[a] \in {"approved", "exempt"}

(* Parameters are scrubbed only of an entry that is finished.              *)
ParamsInv ==
    \A a \in Actions :
        store[a] \in {"absent", "pending", "confirmed"}
            => params[a] = "original"

IInv == /\ TypeOK
        /\ QueueInv
        /\ BranchInv
        /\ ClaimInv
        /\ FreshInv
        /\ QueuedInv
        /\ ParamsInv
        /\ RunsAsApproved

(* What a step must keep: the invariant, and the abstract gate's rules.    *)
GateStep == [Gate!Next]_(Gate!gateVars)

(* Nothing has been submitted yet.                                         *)
LEMMA InitInv == Init => IInv
<1> SUFFICES ASSUME Init PROVE IInv
  OBVIOUS
<1>1. TypeOK
  BY TypeInit
<1>2. QueueInv /\ BranchInv /\ ClaimInv /\ FreshInv /\ QueuedInv /\ ParamsInv
  BY DEF Init, QueueInv, BranchInv, ClaimInv, FreshInv, QueuedInv, ParamsInv,
     Executing, BeforeSubmit, Procs, Subject
<1>3. RunsAsApproved
  BY DEF Init, RunsAsApproved
<1> QED BY <1>1, <1>2, <1>3 DEF IInv

(* A step that touches no queue entry, no handler and no place keeps all   *)
(* (a lifecycle UPDATE, the clock, a stutter).                             *)
LEMMA StillStep ==
    ASSUME IInv, TypeOK',
           UNCHANGED <<tool, store, params, handler, given, pc, target>>
    PROVE  IInv' /\ GateStep
<1>1. Decision' = Decision /\ Ran' = Ran
  BY DEF Decision, Ran
<1>2. (QueueInv /\ BranchInv /\ ClaimInv /\ FreshInv /\ ParamsInv)'
  BY DEF IInv, QueueInv, BranchInv, ClaimInv, FreshInv, ParamsInv, Subject
<1>3. QueuedInv' /\ RunsAsApproved'
  BY <1>1 DEF IInv, QueuedInv, RunsAsApproved
<1> QED BY <1>1, <1>2, <1>3 DEF IInv, GateStep, Gate!gateVars

(* A step that only moves a process on, never into a right to execute it   *)
(* did not have, keeps all (the runtime indicator, an audit read, a wait). *)
LEMMA QuietStep ==
    ASSUME IInv, TypeOK', NEW p \in Procs, NEW place,
           UNCHANGED <<tool, store, params, handler, given, target>>,
           pc' = [pc EXCEPT ![p] = place],
           pc[p] \notin {"idle", "create", "killed"},
           place \notin {"idle", "deny", "create", "killed"},
           place \in Executing => pc[p] \in Executing,
           place \in BeforeSubmit => pc[p] \in BeforeSubmit
    PROVE  IInv' /\ GateStep
<1> USE DEF Procs
<1>0. pc \in [Procs -> Places]
  BY DEF IInv, TypeOK
<1>1. Decision' = Decision
  BY <1>0 DEF Decision
<1>2. Ran' = Ran
  BY DEF Ran
<1>3. QueueInv'
  BY <1>0 DEF IInv, QueueInv
<1>4. BranchInv'
  BY <1>0 DEF IInv, BranchInv
<1>5. ClaimInv'
  BY <1>0 DEF IInv, ClaimInv
<1>6. FreshInv'
  BY <1>0 DEF IInv, FreshInv, Subject
<1>7. QueuedInv' /\ ParamsInv' /\ RunsAsApproved'
  BY <1>1 DEF IInv, QueuedInv, ParamsInv, RunsAsApproved
<1> QED BY <1>1, <1>2, <1>3, <1>4, <1>5, <1>6, <1>7
        DEF IInv, GateStep, Gate!gateVars

-----------------------------------------------------------------------------
(* The steps that decide, one lemma each *)

(* The gate's decision is a function of the action (QueueDecision).        *)
LEMMA DecisionIsFunction ==
    /\ Decision = [b \in Actions |-> Decision[b]]
    /\ Decision' = [b \in Actions |-> Decision'[b]]
BY DEF Decision

(* Dispatch asks, exempts or denies, and nothing of a fresh action has     *)
(* started (Router._dispatch).                                             *)
LEMMA DispatchInv ==
    ASSUME IInv, TypeOK', NEW a \in Actions, Dispatch(a)
    PROVE  IInv' /\ GateStep
<1> USE DEF Procs
<1>0. /\ pc \in [Procs -> Places]
      /\ tool \in [Actions -> Tools \cup {NoTool}]
      /\ store[a] = "absent"
      /\ handler[a] = "none"
  BY DEF IInv, TypeOK, QueueInv, FreshInv, Dispatch, At
<1>1. PICK t \in Match[a] :
         /\ tool' = [tool EXCEPT ![a] = t]
         /\ pc' = [pc EXCEPT ![a] = CASE Policy(t) = "deny" -> "deny"
                        [] Policy(t) = "require_approval" -> "create"
                        [] OTHER -> "rt_exec"]
  BY DEF Dispatch, Goto
<1>2. Policy(t) \in {"deny", "require_approval", "auto_execute"}
  BY DEF Policy, Evaluate
<1>3. UNCHANGED <<store, params, handler, given, target>> /\ pc[a] = "idle"
  BY DEF Dispatch, At
<1>4. \A b \in Actions : b # a => Decision'[b] = Decision[b]
  BY <1>0, <1>1, <1>3 DEF Decision
<1>5. /\ Decision[a] = "none"
      /\ Decision'[a] \in {"none", "exempt", "closed"}
  BY <1>0, <1>1, <1>2, <1>3 DEF Decision
<1>6. Ran' = Ran
  BY <1>3 DEF Ran
<1>7. GateStep
  <2>1. Decision' = [Decision EXCEPT ![a] = Decision'[a]]
    BY <1>4, DecisionIsFunction
  <2>2. CASE Decision'[a] = "none"
    <3>1. Decision' = Decision
      BY <1>4, <1>5, <2>2, DecisionIsFunction
    <3> QED BY <1>6, <3>1 DEF GateStep, Gate!gateVars
  <2>3. CASE Decision'[a] = "exempt"
    BY <1>5, <1>6, <2>1, <2>3
       DEF GateStep, Gate!Next, Gate!Exempt, Gate!Decide
  <2>4. CASE Decision'[a] = "closed"
    BY <1>5, <1>6, <2>1, <2>4 DEF GateStep, Gate!Next, Gate!Deny, Gate!Decide
  <2> QED BY <1>5, <2>2, <2>3, <2>4
<1>8. QueueInv' /\ ParamsInv' /\ RunsAsApproved'
  BY <1>0, <1>1, <1>3 DEF IInv, QueueInv, ParamsInv, RunsAsApproved
<1>9. BranchInv'
  BY <1>0, <1>1, <1>2 DEF IInv, BranchInv, BeforeSubmit
<1>10. ClaimInv'
  BY <1>0, <1>1, <1>3, ProcessesAssumption DEF IInv, ClaimInv
<1>11. FreshInv'
  BY <1>0, <1>1, <1>3, ProcessesAssumption DEF IInv, FreshInv, Subject
<1>12. QueuedInv'
  BY <1>0, <1>3, <1>4 DEF IInv, QueuedInv
<1> QED BY <1>7, <1>8, <1>9, <1>10, <1>11, <1>12 DEF IInv

(* create() puts the action before its user (PendingActionStore.create).   *)
LEMMA CreateInv ==
    ASSUME IInv, TypeOK', NEW a \in Actions, CreatePending(a)
    PROVE  IInv' /\ GateStep
<1> USE DEF Procs
<1>0. /\ pc \in [Procs -> Places]
      /\ store \in [Actions -> QueueStatuses]
      /\ pc[a] = "create"
      /\ Policy(tool[a]) = "require_approval"
      /\ store[a] = "absent"
      /\ handler[a] = "none"
  BY DEF IInv, TypeOK, BranchInv, QueueInv, FreshInv, CreatePending, At
<1>1. /\ store' = [store EXCEPT ![a] = "pending"]
      /\ pc' = [pc EXCEPT ![a] = "rt_await"]
      /\ UNCHANGED <<tool, params, handler, given, target>>
  BY DEF CreatePending, Goto
<1>2. \A b \in Actions : b # a => Decision'[b] = Decision[b]
  BY <1>0, <1>1 DEF Decision
<1>3. Decision[a] = "none" /\ Decision'[a] = "waiting"
  BY <1>0, <1>1 DEF Decision, QueueDecision
<1>4. GateStep
  <2>1. Decision' = [Decision EXCEPT ![a] = "waiting"]
    BY <1>2, <1>3, DecisionIsFunction
  <2>2. Ran' = Ran
    BY <1>1 DEF Ran
  <2> QED BY <1>3, <2>1, <2>2 DEF GateStep, Gate!Next, Gate!Ask, Gate!Decide
<1>5. QueueInv' /\ ParamsInv' /\ RunsAsApproved'
  BY <1>0, <1>1 DEF IInv, QueueInv, ParamsInv, RunsAsApproved
<1>6. BranchInv'
  BY <1>0, <1>1 DEF IInv, BranchInv, BeforeSubmit
<1>7. ClaimInv'
  BY <1>0, <1>1, ProcessesAssumption DEF IInv, ClaimInv
<1>8. FreshInv'
  BY <1>0, <1>1, ProcessesAssumption DEF IInv, FreshInv, Subject, BeforeSubmit
<1>9. QueuedInv'
  BY <1>0, <1>1, <1>2 DEF IInv, QueuedInv
<1> QED BY <1>4, <1>5, <1>6, <1>7, <1>8, <1>9 DEF IInv

(* Taking pending entries out of the queue, as the losing confirm, cancel, *)
(* the look-up and the listings do, closes them and nothing else.          *)
LEMMA CloseStep ==
    ASSUME IInv, TypeOK', NEW S \in SUBSET Actions,
           UNCHANGED <<tool, handler, given, target>>,
           \A a \in S : store[a] = "pending" /\ store'[a] \in {"expired", "cancelled"},
           \A a \in Actions \ S : store'[a] = store[a],
           \A a \in Actions : store'[a] \in {"absent", "pending", "confirmed"}
                                  => params'[a] = params[a],
           \A a \in Actions : pc'[a] = pc[a],
           \A r \in Requests : /\ pc'[r] \in Executing => pc[r] \in Executing
                               /\ pc'[r] \in BeforeSubmit => pc[r] \in BeforeSubmit
    PROVE  IInv' /\ GateStep
<1> USE DEF Procs
<1>1. \A a \in Actions : Decision'[a] \in {Decision[a], "closed"}
  BY DEF Decision, QueueDecision
<1>2. Ran' = Ran
  BY DEF Ran
<1>3. GateStep
  BY <1>1, <1>2, DecisionIsFunction DEF GateStep, Gate!Next, Gate!Close
<1>4. QueueInv' /\ BranchInv' /\ ParamsInv' /\ RunsAsApproved'
  BY DEF IInv, QueueInv, BranchInv, ParamsInv, RunsAsApproved
<1>5. ClaimInv'
  BY DEF IInv, TypeOK, ClaimInv
<1>6. FreshInv'
  <2>1. \A a \in Actions :
            pc'[a] \in {"idle", "create"} \/ store'[a] = "pending"
                => handler'[a] = "none"
    BY DEF IInv, FreshInv
  <2>2. \A p \in Procs : pc'[p] \in BeforeSubmit => handler'[Subject(p)'] = "none"
    BY DEF IInv, FreshInv, Subject
  <2> QED BY <2>1, <2>2 DEF FreshInv
<1>7. QueuedInv'
  <2> SUFFICES ASSUME NEW a \in Actions, handler[a] = "queued"
               PROVE  Decision'[a] \in {"approved", "exempt"}
    BY DEF QueuedInv
  <2>1. Decision[a] \in {"approved", "exempt"}
    BY DEF IInv, QueuedInv
  <2>2. store[a] # "pending"
    BY DEF IInv, FreshInv
  <2>3. store'[a] = store[a] /\ a \notin S
    BY <2>2
  <2>4. Decision'[a] = Decision[a]
    BY <2>3 DEF Decision
  <2> QED BY <2>1, <2>4
<1> QED BY <1>3, <1>4, <1>5, <1>6, <1>7 DEF IInv

(* confirm() either approves the one pending entry, claimed by nobody      *)
(* else, or closes an overdue one (PendingActionStore.confirm).            *)
LEMMA ConfirmInv ==
    ASSUME IInv, TypeOK', NEW r \in Requests, Confirm(r)
    PROVE  IInv' /\ GateStep
<1> USE DEF Procs
<1>a. PICK a \in Actions : a = target[r]
  BY DEF IInv, TypeOK
<1>0. /\ pc \in [Procs -> Places]
      /\ store \in [Actions -> QueueStatuses]
      /\ params \in [Actions -> {"original", "scrubbed"}]
      /\ pc[r] = "idle"
      /\ UNCHANGED <<tool, handler, given, target>>
  BY DEF IInv, TypeOK, Confirm, At
<1>1. CASE Overdue(a)
  <2>1. /\ store' = [store EXCEPT ![a] = "expired"]
        /\ params' = [params EXCEPT ![a] = "scrubbed"]
        /\ pc' = [pc EXCEPT ![r] = "lookup"]
        /\ store[a] = "pending"
    BY <1>a, <1>1 DEF Confirm, Goto, Overdue
  <2>2. \A b \in Actions : pc'[b] = pc[b]
    BY <1>0, <2>1, ProcessesAssumption
  <2>3. \A q \in Requests : /\ pc'[q] \in Executing => pc[q] \in Executing
                            /\ pc'[q] \in BeforeSubmit => pc[q] \in BeforeSubmit
    BY <1>0, <2>1 DEF Executing, BeforeSubmit
  <2>4. /\ \A b \in {a} : store[b] = "pending" /\ store'[b] \in {"expired", "cancelled"}
        /\ \A b \in Actions \ {a} : store'[b] = store[b]
        /\ \A b \in Actions : store'[b] \in {"absent", "pending", "confirmed"}
                                  => params'[b] = params[b]
        /\ {a} \in SUBSET Actions
    BY <1>0, <2>1
  <2> QED BY <1>0, <2>2, <2>3, <2>4, CloseStep
<1>2. CASE ~ Overdue(a) /\ store[a] = "pending"
  <2>1. /\ store' = [store EXCEPT ![a] = "confirmed"]
        /\ pc' = [pc EXCEPT ![r] = "life_approved"]
        /\ params' = params
    BY <1>a, <1>2 DEF Confirm, Goto
  <2>2. /\ pc[a] \notin {"idle", "deny", "create"}
        /\ Policy(tool[a]) = "require_approval"
        /\ handler[a] = "none"
    BY <1>0, <1>2 DEF IInv, QueueInv, FreshInv
  <2>3. \A b \in Actions : pc'[b] = pc[b]
    BY <1>0, <2>1, ProcessesAssumption
  <2>4. \A b \in Actions : b # a => Decision'[b] = Decision[b]
    BY <1>0, <2>1, <2>3 DEF Decision
  <2>5. Decision[a] = "waiting" /\ Decision'[a] = "approved"
    BY <1>0, <1>2, <2>1, <2>2, <2>3 DEF Decision, QueueDecision
  <2>6. GateStep
    <3>1. Decision' = [Decision EXCEPT ![a] = "approved"]
      BY <2>4, <2>5, DecisionIsFunction
    <3>2. Ran' = Ran
      BY <1>0 DEF Ran
    <3> QED BY <1>0, <2>5, <3>1, <3>2
            DEF GateStep, Gate!Next, Gate!Approve, Gate!Decide
  <2>7. QueueInv' /\ BranchInv' /\ ParamsInv' /\ RunsAsApproved'
    BY <1>0, <1>2, <2>1, <2>2, <2>3
       DEF IInv, QueueInv, BranchInv, ParamsInv, RunsAsApproved
  <2>8. ClaimInv'
    <3>1. \A q \in Requests : pc[q] \in Executing => target[q] # a
      BY <1>2 DEF IInv, ClaimInv
    <3> QED BY <1>a, <1>0, <2>1, <3>1 DEF IInv, ClaimInv
  <2>9. FreshInv'
    BY <1>a, <1>0, <2>1, <2>2, <2>3, ProcessesAssumption
       DEF IInv, FreshInv, Subject
  <2>10. QueuedInv'
    BY <1>0, <2>2, <2>4 DEF IInv, QueuedInv
  <2> QED BY <2>6, <2>7, <2>8, <2>9, <2>10 DEF IInv
<1>3. CASE ~ Overdue(a) /\ store[a] # "pending"
  <2>1. UNCHANGED <<store, params>> /\ pc' = [pc EXCEPT ![r] = "lookup"]
    BY <1>a, <1>3 DEF Confirm, Goto
  <2>2. \A b \in Actions : pc'[b] = pc[b]
    BY <1>0, <2>1, ProcessesAssumption
  <2>3. \A q \in Requests : /\ pc'[q] \in Executing => pc[q] \in Executing
                            /\ pc'[q] \in BeforeSubmit => pc[q] \in BeforeSubmit
    BY <1>0, <2>1 DEF Executing, BeforeSubmit
  <2>4. /\ \A b \in {} : store[b] = "pending" /\ store'[b] \in {"expired", "cancelled"}
        /\ \A b \in Actions \ {} : store'[b] = store[b]
        /\ \A b \in Actions : store'[b] \in {"absent", "pending", "confirmed"}
                                  => params'[b] = params[b]
        /\ {} \in SUBSET Actions
    BY <2>1
  <2> QED BY <1>0, <2>2, <2>3, <2>4, CloseStep
<1> QED BY <1>1, <1>2, <1>3

(* cancel() and the loser's second look close what they find pending and   *)
(* touch nothing else (PendingActionStore.cancel, get).                    *)
LEMMA CancelInv ==
    ASSUME IInv, TypeOK', NEW r \in Requests, Cancel(r) \/ LookUp(r)
    PROVE  IInv' /\ GateStep
<1> USE DEF Procs
<1>a. PICK a \in Actions : a = target[r]
  BY DEF IInv, TypeOK
<1>0. /\ pc \in [Procs -> Places]
      /\ store \in [Actions -> QueueStatuses]
      /\ params \in [Actions -> {"original", "scrubbed"}]
      /\ UNCHANGED <<tool, handler, given, target>>
  BY DEF IInv, TypeOK, Cancel, LookUp
<1>1. PICK place \in {"life_cancel", "lookup", "life_expired", "done"} :
         pc' = [pc EXCEPT ![r] = place]
  BY DEF Cancel, LookUp, Goto
<1>2. \A b \in Actions : pc'[b] = pc[b]
  BY <1>0, <1>1, ProcessesAssumption
<1>3. \A q \in Requests : /\ pc'[q] \in Executing => pc[q] \in Executing
                          /\ pc'[q] \in BeforeSubmit => pc[q] \in BeforeSubmit
  BY <1>0, <1>1 DEF Executing, BeforeSubmit
<1>4. CASE store[a] = "pending" /\ store'[a] # "pending"
  <2>1. /\ \A b \in {a} : store[b] = "pending" /\ store'[b] \in {"expired", "cancelled"}
        /\ \A b \in Actions \ {a} : store'[b] = store[b]
        /\ \A b \in Actions : store'[b] \in {"absent", "pending", "confirmed"}
                                  => params'[b] = params[b]
        /\ {a} \in SUBSET Actions
    BY <1>a, <1>0, <1>4 DEF Cancel, LookUp
  <2> QED BY <1>0, <1>2, <1>3, <2>1, CloseStep
<1>5. CASE ~ (store[a] = "pending" /\ store'[a] # "pending")
  <2>1. /\ \A b \in {} : store[b] = "pending" /\ store'[b] \in {"expired", "cancelled"}
        /\ \A b \in Actions \ {} : store'[b] = store[b]
        /\ \A b \in Actions : store'[b] \in {"absent", "pending", "confirmed"}
                                  => params'[b] = params[b]
        /\ {} \in SUBSET Actions
    BY <1>a, <1>0, <1>5 DEF Cancel, LookUp, Overdue
  <2> QED BY <1>0, <1>2, <1>3, <2>1, CloseStep
<1> QED BY <1>4, <1>5

(* Reading the queue closes what is overdue (_expire_if_needed).           *)
LEMMA ExpireInv ==
    ASSUME IInv, TypeOK', NEW S \in SUBSET Actions, Expire(S),
           \A a \in S : Overdue(a)
    PROVE  IInv' /\ GateStep
<1>1. /\ \A b \in S : store[b] = "pending" /\ store'[b] \in {"expired", "cancelled"}
      /\ \A b \in Actions \ S : store'[b] = store[b]
      /\ \A b \in Actions : store'[b] \in {"absent", "pending", "confirmed"}
                                => params'[b] = params[b]
      /\ UNCHANGED <<tool, handler, given, target, pc>>
  BY DEF Expire, Overdue
<1> QED BY <1>1, CloseStep

(* Submitting uses up the right to execute: nobody else holds it, so no    *)
(* handler of the action exists yet (execute, execute_approved).           *)
LEMMA SubmitInv ==
    ASSUME IInv, TypeOK', NEW p \in Procs, Submit(p)
    PROVE  IInv' /\ GateStep
<1> USE DEF Procs
<1>a. PICK a \in Actions : a = Subject(p)
  BY SubjectType DEF IInv
<1>0. /\ pc \in [Procs -> Places]
      /\ handler \in [Actions -> HandlerStates]
      /\ given \in [Actions -> {"none", "original", "scrubbed"}]
      /\ pc[p] = "submit"
      /\ handler[a] = "none"
      /\ UNCHANGED <<tool, store, params, target>>
      /\ pc' = [pc EXCEPT ![p] = "waiting"]
      /\ handler' = [handler EXCEPT ![a] = "queued"]
      /\ given' = [given EXCEPT ![a] = IF p \in Actions THEN "original" ELSE params[a]]
  BY <1>a DEF IInv, TypeOK, FreshInv, BeforeSubmit, Submit, Goto, At
<1>1. /\ Policy(tool[a]) \in {"auto_execute", "require_approval"}
      /\ p \in Actions => /\ p = a
                          /\ Policy(tool[a]) = "auto_execute"
                          /\ PermissionOf(tool[a]) = "safe"
      /\ p \in Requests => store[a] = "confirmed" /\ params[a] = "original"
  BY <1>a, <1>0, ProcessesAssumption
     DEF IInv, BranchInv, ClaimInv, QueueInv, ParamsInv, BeforeSubmit,
         Executing, Submit, MayStart, Subject
<1>2. /\ store[a] # "pending"
      /\ pc[a] \notin {"idle", "create"}
  BY <1>0, <1>1 DEF IInv, QueueInv
<1>3. Decision' = Decision
  BY <1>0 DEF Decision
<1>4. Ran' = Ran
  BY <1>0 DEF Ran
<1>5. Decision[a] \in {"approved", "exempt"}
  <2>1. CASE p \in Actions
    BY <1>0, <1>1, <2>1 DEF Decision
  <2>2. CASE p \in Requests
    BY <1>1, <1>2, <2>2 DEF Decision, QueueDecision, IInv, QueueInv
  <2> QED BY <2>1, <2>2
<1>6. QueueInv' /\ BranchInv' /\ ParamsInv'
  BY <1>0 DEF IInv, QueueInv, BranchInv, ParamsInv, BeforeSubmit
<1>7. ClaimInv'
  BY <1>0 DEF IInv, ClaimInv, Executing, BeforeSubmit
<1>8. FreshInv'
  <2>1. \A b \in Actions :
            pc'[b] \in {"idle", "create"} \/ store'[b] = "pending"
                => handler'[b] = "none"
    BY <1>0, <1>2 DEF IInv, FreshInv
  <2>2. \A q \in Procs : pc'[q] \in BeforeSubmit => Subject(q) # a
    BY <1>a, <1>0, <1>1, ProcessesAssumption
       DEF IInv, QueueInv, BranchInv, ClaimInv, Subject, Executing, BeforeSubmit
  <2>3. \A q \in Procs : pc'[q] \in BeforeSubmit => handler'[Subject(q)'] = "none"
    BY <1>0, <2>2 DEF IInv, FreshInv, Subject, BeforeSubmit
  <2> QED BY <2>1, <2>3 DEF FreshInv
<1>9. QueuedInv'
  BY <1>0, <1>3, <1>5 DEF IInv, QueuedInv
<1>10. RunsAsApproved'
  BY <1>0, <1>1 DEF IInv, RunsAsApproved
<1> QED BY <1>3, <1>4, <1>6, <1>7, <1>8, <1>9, <1>10
        DEF IInv, GateStep, Gate!gateVars

(* Giving up drops a call that has not started (_run_with_timeout).        *)
LEMMA GiveUpInv ==
    ASSUME IInv, TypeOK', NEW p \in Procs, GiveUp(p)
    PROVE  IInv' /\ GateStep
<1> USE DEF Procs
<1>a. PICK a \in Actions : a = Subject(p)
  BY SubjectType DEF IInv
<1>0. /\ pc \in [Procs -> Places]
      /\ handler \in [Actions -> HandlerStates]
      /\ pc[p] = "give_up"
      /\ UNCHANGED <<tool, store, params, target, given>>
      /\ pc' = [pc EXCEPT ![p] = "rt_standby"]
      /\ handler' = [handler EXCEPT ![a] = IF @ = "queued" THEN "dropped" ELSE @]
  BY <1>a DEF IInv, TypeOK, GiveUp, Goto, At
<1>1. Decision' = Decision
  BY <1>0 DEF Decision
<1>2. Ran' = Ran
  BY <1>0 DEF Ran
<1>3. QueueInv' /\ BranchInv' /\ ParamsInv' /\ RunsAsApproved'
  BY <1>0 DEF IInv, QueueInv, BranchInv, ParamsInv, BeforeSubmit, RunsAsApproved
<1>4. ClaimInv'
  BY <1>0 DEF IInv, ClaimInv, Executing, BeforeSubmit
<1>5. FreshInv'
  BY <1>0 DEF IInv, FreshInv, Subject, BeforeSubmit
<1>6. QueuedInv'
  BY <1>0, <1>1 DEF IInv, QueuedInv
<1> QED BY <1>1, <1>2, <1>3, <1>4, <1>5, <1>6 DEF IInv, GateStep, Gate!gateVars

(* mark_executed and mark_failed overwrite whatever status they find: what *)
(* they find is "confirmed", because the caller owns the entry.            *)
LEMMA MarkInv ==
    ASSUME IInv, TypeOK', NEW r \in Requests, Mark(r)
    PROVE  IInv' /\ GateStep
<1> USE DEF Procs
<1>a. PICK a \in Actions : a = target[r]
  BY DEF IInv, TypeOK
<1>0. /\ pc \in [Procs -> Places]
      /\ store \in [Actions -> QueueStatuses]
      /\ params \in [Actions -> {"original", "scrubbed"}]
      /\ pc[r] = "mark"
      /\ store[a] = "confirmed"
  BY <1>a DEF IInv, TypeOK, ClaimInv, Mark, At, Executing
<1>1. /\ pc' = [pc EXCEPT ![r] = "life_result"]
      /\ params' = [params EXCEPT ![a] = "scrubbed"]
      /\ UNCHANGED <<tool, handler, given, target>>
  BY <1>a, <1>0 DEF Mark, Goto
<1>2. PICK status \in {"executed", "failed"} : store' = [store EXCEPT ![a] = status]
  BY <1>a, <1>0 DEF Mark
<1>3. \A b \in Actions : pc'[b] = pc[b]
  BY <1>0, <1>1, ProcessesAssumption
<1>4. Decision' = Decision
  <2>1. \A b \in Actions : Decision'[b] = Decision[b]
    BY <1>0, <1>1, <1>2, <1>3 DEF Decision, QueueDecision
  <2> QED BY <2>1, DecisionIsFunction
<1>5. Ran' = Ran
  BY <1>1 DEF Ran
<1>6. QueueInv' /\ BranchInv' /\ ParamsInv' /\ RunsAsApproved'
  BY <1>0, <1>1, <1>2, <1>3
     DEF IInv, QueueInv, BranchInv, ParamsInv, RunsAsApproved
<1>7. ClaimInv'
  <2>1. \A q \in Requests : q # r /\ pc[q] \in Executing => target[q] # a
    BY <1>a, <1>0 DEF IInv, ClaimInv, Executing
  <2> QED BY <1>0, <1>1, <1>2, <2>1 DEF IInv, ClaimInv, Executing, BeforeSubmit
<1>8. FreshInv'
  BY <1>0, <1>1, <1>2, <1>3 DEF IInv, FreshInv, Subject, BeforeSubmit
<1>9. QueuedInv'
  BY <1>1, <1>4 DEF IInv, QueuedInv
<1> QED BY <1>4, <1>5, <1>6, <1>7, <1>8, <1>9 DEF IInv, GateStep, Gate!gateVars

(* A worker that takes a call runs it for the first time, on an approval   *)
(* or an exemption (the pool behind ToolRegistry).                         *)
LEMMA HandlerInv ==
    ASSUME IInv, TypeOK', NEW a \in Actions, HandlerStart(a) \/ HandlerEnd(a)
    PROVE  IInv' /\ GateStep
<1>0. /\ handler \in [Actions -> HandlerStates]
      /\ UNCHANGED <<tool, store, params, given, pc, target>>
      /\ handler[a] \in {"queued", "running"}
  BY DEF IInv, TypeOK, HandlerStart, HandlerEnd
<1>1. PICK state \in {"running", "ok", "error"} :
         /\ handler' = [handler EXCEPT ![a] = state]
         /\ handler[a] = "queued" => state = "running"
  BY DEF HandlerStart, HandlerEnd
<1>2. Decision' = Decision
  BY <1>0 DEF Decision
<1>3. GateStep
  <2>1. CASE handler[a] = "queued"
    <3>1. Decision[a] \in {"approved", "exempt"} /\ ~ Ran[a]
      BY <2>1 DEF IInv, QueuedInv, Ran
    <3>2. Ran' = [Ran EXCEPT ![a] = TRUE]
      BY <1>0, <1>1, <2>1 DEF Ran
    <3> QED BY <1>2, <3>1, <3>2 DEF GateStep, Gate!Next, Gate!Run
  <2>2. CASE handler[a] = "running"
    <3>1. Ran' = Ran
      BY <1>0, <1>1, <2>2 DEF Ran
    <3> QED BY <1>2, <3>1 DEF GateStep, Gate!gateVars
  <2> QED BY <1>0, <2>1, <2>2
<1>4. QueueInv' /\ BranchInv' /\ ParamsInv' /\ ClaimInv'
  BY <1>0 DEF IInv, QueueInv, BranchInv, ParamsInv, ClaimInv
<1>5. FreshInv'
  BY <1>0, <1>1 DEF IInv, FreshInv, Subject
<1>6. QueuedInv' /\ RunsAsApproved'
  BY <1>0, <1>1, <1>2 DEF IInv, QueuedInv, RunsAsApproved
<1> QED BY <1>3, <1>4, <1>5, <1>6 DEF IInv

(* A restart takes every claim and every queued call with it, and closes   *)
(* what it interrupts.                                                     *)
LEMMA RestartInv ==
    ASSUME IInv, TypeOK', Restart
    PROVE  IInv' /\ GateStep
<1> USE DEF Procs
<1>0. /\ pc' = [p \in Procs |-> IF pc[p] \in Finished THEN pc[p] ELSE "killed"]
      /\ store' = [a \in Actions |-> "absent"]
      /\ params' = [a \in Actions |-> "original"]
      /\ handler' = [a \in Actions |->
                      CASE handler[a] = "queued"  -> "dropped"
                        [] handler[a] = "running" -> "killed"
                        [] OTHER                  -> handler[a]]
      /\ UNCHANGED <<tool, given, target>>
  BY DEF Restart
<1>1. \A p \in Procs : pc'[p] \notin Executing /\ pc'[p] # "create"
  BY <1>0 DEF Finished, Executing, BeforeSubmit
<1>2. \A a \in Actions : Decision'[a] \in {Decision[a], "closed"}
  <2> SUFFICES ASSUME NEW a \in Actions
               PROVE  Decision'[a] \in {Decision[a], "closed"}
    OBVIOUS
  <2>1. CASE pc[a] \in Finished
    BY <1>0, <2>1 DEF Decision, QueueDecision, Finished
  <2>2. CASE pc[a] \notin Finished
    <3>1. pc'[a] = "killed"
      BY <1>0, <2>2
    <3> QED BY <1>0, <3>1 DEF Decision, QueueDecision
  <2> QED BY <2>1, <2>2
<1>3. Ran' = Ran
  BY <1>0 DEF Ran
<1>4. GateStep
  BY <1>2, <1>3, DecisionIsFunction DEF GateStep, Gate!Next, Gate!Close
<1>5. QueueInv' /\ BranchInv' /\ ClaimInv' /\ ParamsInv'
  BY <1>0, <1>1 DEF QueueInv, BranchInv, ClaimInv, ParamsInv, Executing, IInv, TypeOK
<1>6. FreshInv'
  BY <1>0, <1>1 DEF IInv, FreshInv, Finished, Executing
<1>7. QueuedInv'
  BY <1>0 DEF QueuedInv
<1>8. RunsAsApproved'
  BY <1>0 DEF IInv, RunsAsApproved
<1> QED BY <1>4, <1>5, <1>6, <1>7, <1>8 DEF IInv

-----------------------------------------------------------------------------
(* All steps together *)

(* Each of the dispatch's steps keeps the invariant and the gate.          *)
LEMMA DispatchStepInv ==
    ASSUME IInv, TypeOK', NEW a \in Actions, DispatchStep(a)
    PROVE  IInv' /\ GateStep
<1> USE DEF Procs
<1>1. CASE Dispatch(a)
  BY <1>1, DispatchInv
<1>2. CASE CreatePending(a)
  BY <1>2, CreateInv
<1>3. ASSUME Denied(a) \/ AwaitApproval(a) \/ RecordPending(a)
      PROVE  IInv' /\ GateStep
  <2>1. PICK place \in {"done", "raised", "life_await"} : pc' = [pc EXCEPT ![a] = place]
    BY <1>3 DEF Denied, AwaitApproval, RecordPending, ReadLife, Goto
  <2>2. /\ pc[a] \notin {"idle", "create", "killed"}
        /\ UNCHANGED <<tool, store, params, handler, given, target>>
    BY <1>3 DEF Denied, AwaitApproval, RecordPending, At
  <2> QED BY <2>1, <2>2, QuietStep DEF Executing, BeforeSubmit
<1> QED BY <1>1, <1>2, <1>3 DEF DispatchStep

(* So does each step of an execution.                                      *)
LEMMA ExecuteStepInv ==
    ASSUME IInv, TypeOK', NEW p \in Procs, ExecuteStep(p)
    PROVE  IInv' /\ GateStep
<1>1. CASE Submit(p)
  BY <1>1, SubmitInv
<1>2. CASE GiveUp(p)
  BY <1>2, GiveUpInv
<1>3. CASE WriteLife(p)
  BY <1>3, StillStep DEF WriteLife
<1>4. CASE ShowExecuting(p)
  BY <1>4, QuietStep DEF ShowExecuting, Goto, At, Executing, BeforeSubmit
<1>5. CASE RecordExecuting(p)
  <2>1. PICK place \in {"submit", "raised"} : pc' = [pc EXCEPT ![p] = place]
    BY <1>5 DEF RecordExecuting, ReadLife, Goto
  <2> QED BY <1>5, <2>1, QuietStep DEF RecordExecuting, At, Executing, BeforeSubmit
<1>6. CASE Refuse(p)
  BY <1>6, QuietStep DEF Refuse, Goto, At, Executing, BeforeSubmit
<1>7. CASE HandlerAnswered(p)
  BY <1>7, QuietStep DEF HandlerAnswered, Goto, At, Executing, BeforeSubmit
<1>8. CASE TimeOut(p)
  BY <1>8, QuietStep DEF TimeOut, Goto, At, Executing, BeforeSubmit
<1>9. CASE ShowStandby(p)
  <2>1. PICK place \in {"life_result", "mark"} : pc' = [pc EXCEPT ![p] = place]
    BY <1>9 DEF ShowStandby, Goto
  <2> QED BY <1>9, <2>1, QuietStep DEF ShowStandby, At, Executing, BeforeSubmit
<1>10. CASE RecordResult(p)
  <2>1. PICK place \in {"done", "raised"} : pc' = [pc EXCEPT ![p] = place]
    BY <1>10 DEF RecordResult, ReadLife, Goto
  <2> QED BY <1>10, <2>1, QuietStep DEF RecordResult, At, Executing, BeforeSubmit
<1> QED BY <1>1, <1>2, <1>3, <1>4, <1>5, <1>6, <1>7, <1>8, <1>9, <1>10
        DEF ExecuteStep

(* And each step of a request.                                             *)
LEMMA RequestStepInv ==
    ASSUME IInv, TypeOK', NEW r \in Requests, RequestStep(r)
    PROVE  IInv' /\ GateStep
<1> USE DEF Procs
<1>1. CASE Mark(r)
  BY <1>1, MarkInv
<1>2. CASE LookUp(r)
  BY <1>2, CancelInv
<1>3. CASE RecordApproved(r)
  <2>1. PICK place \in {"rt_exec"} : pc' = [pc EXCEPT ![r] = place]
    BY <1>3, ProcessesAssumption DEF RecordApproved, ReadLife, Goto
  <2> QED BY <1>3, <2>1, QuietStep DEF RecordApproved, At, Executing, BeforeSubmit
<1>4. ASSUME RecordCancelled(r) \/ ShowCancelled(r) \/ RecordExpired(r)
      PROVE  IInv' /\ GateStep
  <2>1. PICK place \in {"rt_cancel", "done", "raised"} : pc' = [pc EXCEPT ![r] = place]
    BY <1>4 DEF RecordCancelled, ShowCancelled, RecordExpired, ReadLife, Goto
  <2>2. /\ pc[r] \notin {"idle", "create", "killed"}
        /\ UNCHANGED <<tool, store, params, handler, given, target>>
    BY <1>4 DEF RecordCancelled, ShowCancelled, RecordExpired, At
  <2> QED BY <2>1, <2>2, QuietStep DEF Executing, BeforeSubmit
<1> QED BY <1>1, <1>2, <1>3, <1>4 DEF RequestStep

(* And every step of the world around them.                                *)
LEMMA EnvironmentInv ==
    ASSUME IInv, TypeOK', Environment
    PROVE  IInv' /\ GateStep
<1>1. CASE \E r \in Requests : Confirm(r) \/ Cancel(r)
  BY <1>1, ConfirmInv, CancelInv
<1>2. ASSUME NEW a \in Actions, Deadline(a) PROVE IInv' /\ GateStep
  BY <1>2, StillStep DEF Deadline
<1>3. ASSUME NEW a \in Actions, GetAction(a) PROVE IInv' /\ GateStep
  BY <1>3, ExpireInv DEF GetAction
<1>4. CASE \E a \in Actions : HandlerStart(a) \/ HandlerEnd(a)
  BY <1>4, HandlerInv
<1>5. CASE ListPending
  BY <1>5, ExpireInv DEF ListPending
<1>6. CASE Restart
  BY <1>6, RestartInv
<1> QED BY <1>1, <1>2, <1>3, <1>4, <1>5, <1>6 DEF Environment

(* The invariant is inductive, and every step is a step or a stutter of    *)
(* the abstract gate.                                                      *)
LEMMA InvStep == IInv /\ [Next]_vars => IInv' /\ GateStep
<1> SUFFICES ASSUME IInv, [Next]_vars PROVE IInv' /\ GateStep
  OBVIOUS
<1>1. TypeOK'
  BY TypeStep DEF IInv
<1>2. CASE Next
  BY <1>1, <1>2, DispatchStepInv, ExecuteStepInv, RequestStepInv, EnvironmentInv
     DEF Next
<1>3. CASE UNCHANGED vars
  BY <1>1, <1>3, StillStep DEF vars
<1> QED BY <1>2, <1>3

(* The inductive invariant holds throughout: in particular a confirmed     *)
(* entry belongs to one request, and only a decided action has a handler.  *)
THEOREM Invariance == Spec => []IInv
BY InitInv, InvStep, PTL DEF Spec

(* Every handler gets the parameters its user approved, whatever requests  *)
(* overlap and however often the queue is scrubbed (RunsAsApproved).       *)
THEOREM ApprovedParameters == Spec => []RunsAsApproved
<1>1. IInv => RunsAsApproved
  BY DEF IInv
<1> QED BY <1>1, Invariance, PTL

(* A fresh process has decided nothing and run nothing.                    *)
LEMMA GateInit == Init => Gate!Init
<1> SUFFICES ASSUME Init PROVE Gate!Init
  OBVIOUS
<1>1. Decision = [a \in Actions |-> "none"]
  BY DEF Init, Decision, Procs
<1>2. Ran = [a \in Actions |-> FALSE]
  <2>1. \A a \in Actions :
            (handler[a] \in {"running", "ok", "error", "killed"}) = FALSE
    BY DEF Init
  <2> QED BY <2>1, Zenon DEF Ran
<1> QED BY <1>1, <1>2 DEF Gate!Init

(* The pipeline implements the abstract gate: a handler starts at most     *)
(* once, only on a winning confirmation or an exemption, and never after   *)
(* its action was closed (GateSpec).                                       *)
THEOREM ImplementsGate == Spec => GateSpec
<1>1. IInv /\ [Next]_vars => [Gate!Next]_(Gate!gateVars)
  BY InvStep DEF GateStep
<1> QED BY <1>1, GateInit, Invariance, PTL DEF Spec, GateSpec, Gate!Spec

-----------------------------------------------------------------------------
(* The records                                                             *)
(*                                                                         *)
(* What the audit trail says of an action was read from the queue or from  *)
(* a result some steps earlier, and is written with no lock.  It is so     *)
(* because by then nothing can happen to the action any more: each part    *)
(* below says what is over once somebody is on the way to writing it down. *)

Denials == {"cancelled", "expired", "blocked"}

(* Nothing of the action has started and nobody can start it any more.     *)
Closed(a) ==
    /\ handler[a] = "none"
    /\ pc[a] \notin BeforeSubmit \cup {"idle", "create"}
    /\ store[a] \in {"absent", "cancelled", "expired"}

(* An action that the queue, the audit record or the thread about to write *)
(* it calls denied is closed.                                              *)
DenialInv ==
    /\ \A a \in Actions :
          store[a] \in {"cancelled", "expired"} \/ pc[a] = "deny" \/ life[a] \in Denials
              => Closed(a)
    /\ \A p \in Procs :
          pc[p] \in {"life_expired", "life_cancel"} \/ write[p] \in Denials
              => Closed(Subject(p))

(* Success is the answer of a handler that ended well, and such a handler  *)
(* is not run again.                                                       *)
SuccessInv ==
    /\ \A a \in Actions : life[a] = "succeeded" => handler[a] = "ok"
    /\ \A p \in Procs :
          "succeeded" \in {result[p], write[p]} => handler[Subject(p)] = "ok"

(* No call of the action waits in the pool, and nobody can queue another.  *)
Over(a) ==
    /\ handler[a] # "queued"
    /\ pc[a] \notin BeforeSubmit \cup {"idle", "create"}
    /\ store[a] # "pending"
    /\ \A r \in Requests : target[r] = a => pc[r] \notin BeforeSubmit

(* An action that is called failed is over.                                *)
FailureInv ==
    /\ \A a \in Actions : life[a] = "failed" => Over(a)
    /\ \A p \in Procs : "failed" \in {result[p], write[p]} => Over(Subject(p))

(* A dispatch that executes was exempt from approval to the end.           *)
AutoInv ==
    \A a \in Actions :
        pc[a] \in {"waiting", "give_up", "rt_standby"}
            => Policy(tool[a]) = "auto_execute"

RInv == DenialInv /\ SuccessInv /\ FailureInv /\ AutoInv

(* Who put "executing" on the dashboard and has not yet taken it off.      *)
Showing == {"life_exec", "submit", "waiting", "give_up", "rt_standby"}

(* No action has been recorded yet.                                        *)
LEMMA InitRecords == Init => RInv /\ NoPhantomExecuting
<1> SUFFICES ASSUME Init PROVE RInv /\ NoPhantomExecuting
  OBVIOUS
<1>1. /\ \A p \in Procs : pc[p] = "idle" /\ write[p] = "none" /\ result[p] = "none"
      /\ \A a \in Actions : store[a] = "absent" /\ life[a] = "none"
      /\ rt = "standby"
  BY DEF Init
<1>2. DenialInv
  BY <1>1 DEF DenialInv, Denials, Procs
<1>3. SuccessInv /\ FailureInv
  BY <1>1 DEF SuccessInv, FailureInv
<1>4. AutoInv
  BY <1>1 DEF AutoInv, Procs
<1>5. NoPhantomExecuting
  BY <1>1 DEF NoPhantomExecuting
<1> QED BY <1>2, <1>3, <1>4, <1>5 DEF RInv

(* An action on which a terminal status is written or being written is     *)
(* past the point where its dispatch could still execute it.               *)
LEMMA TerminalIsPast ==
    ASSUME IInv, RInv, NEW a \in Actions, life[a] \in Terminal
    PROVE  pc[a] \notin BeforeSubmit
<1>1. CASE life[a] \in Denials
  BY <1>1 DEF RInv, DenialInv, Closed
<1>2. CASE life[a] = "failed"
  BY <1>2 DEF RInv, FailureInv, Over
<1>3. CASE life[a] = "succeeded"
  <2>1. handler[a] = "ok"
    BY <1>3 DEF RInv, SuccessInv
  <2> QED BY <2>1 DEF IInv, FreshInv, Procs, Subject
<1> QED BY <1>1, <1>2, <1>3 DEF Terminal, Denials

(* A step that moves one process on, perhaps with a status to write that   *)
(* it may write, keeps the record invariant (the lifecycle reads, the      *)
(* indicator, the waits).                                                  *)
LEMMA MoveRecords ==
    ASSUME IInv, RInv, NEW p \in Procs, NEW place, NEW status \in Statuses,
           UNCHANGED <<tool, life, store, handler, target, result>>,
           pc' = [pc EXCEPT ![p] = place],
           write' = [write EXCEPT ![p] = status],
           pc[p] \notin {"idle", "create"},
           place \notin {"idle", "create", "deny", "life_expired", "life_cancel"},
           place \in BeforeSubmit => pc[p] \in BeforeSubmit,
           place \in {"waiting", "give_up", "rt_standby"} => pc[p] \in Showing,
           status \in Denials => Closed(Subject(p)),
           status = "succeeded" => handler[Subject(p)] = "ok",
           status = "failed" => result[p] = "failed" \/ write[p] = "failed"
    PROVE  RInv'
<1>0. /\ pc \in [Procs -> Places]
      /\ write \in [Procs -> Statuses]
      /\ target \in [Requests -> Actions]
      /\ Subject(p) \in Actions
      /\ \A q \in Procs : Subject(q)' = Subject(q)
  BY SubjectType DEF IInv, TypeOK, Subject
<1>1. \A a \in Actions : Closed(a) => Closed(a)'
  BY <1>0 DEF Closed, Procs
<1>2. \A a \in Actions : Over(a) => Over(a)'
  BY <1>0 DEF Over, Procs
<1>3. DenialInv'
  <2>1. ASSUME NEW a \in Actions,
               \/ store[a] \in {"cancelled", "expired"}
               \/ pc'[a] = "deny"
               \/ life[a] \in Denials
        PROVE  Closed(a)'
    <3>1. pc'[a] = "deny" => pc[a] = "deny"
      BY <1>0 DEF Procs
    <3>2. Closed(a)
      BY <2>1, <3>1 DEF RInv, DenialInv
    <3> QED BY <1>1, <3>2 DEF Closed
  <2>2. ASSUME NEW q \in Procs,
               \/ pc'[q] \in {"life_expired", "life_cancel"}
               \/ write'[q] \in Denials
        PROVE  Closed(Subject(q))'
    <3>1. Subject(q) \in Actions
      BY SubjectType DEF IInv
    <3>2. Closed(Subject(q))
      BY <1>0, <2>2 DEF RInv, DenialInv
    <3> QED BY <1>0, <1>1, <3>1, <3>2 DEF Closed
  <2> QED BY <2>1, <2>2 DEF DenialInv
<1>4. SuccessInv'
  <2>1. ASSUME NEW q \in Procs, "succeeded" \in {result[q], write'[q]}
        PROVE  handler[Subject(q)] = "ok"
    BY <1>0, <2>1 DEF RInv, SuccessInv
  <2> QED BY <1>0, <2>1 DEF RInv, SuccessInv
<1>5. FailureInv'
  <2>1. ASSUME NEW q \in Procs, "failed" \in {result[q], write'[q]}
        PROVE  Over(Subject(q))'
    <3>1. Subject(q) \in Actions
      BY SubjectType DEF IInv
    <3>2. Over(Subject(q))
      BY <1>0, <2>1 DEF RInv, FailureInv
    <3> QED BY <1>0, <1>2, <3>1, <3>2 DEF Over
  <2> QED BY <1>2, <2>1 DEF RInv, FailureInv
<1>6. AutoInv'
  BY <1>0 DEF RInv, AutoInv, IInv, BranchInv, BeforeSubmit, Showing, Procs
<1> QED BY <1>3, <1>4, <1>5, <1>6 DEF RInv

(* A step that touches none of what the records speak of keeps them        *)
(* (the clock, a stutter).                                                 *)
LEMMA StillRecords ==
    ASSUME RInv,
           UNCHANGED <<tool, life, store, handler, pc, target, result, write>>
    PROVE  RInv'
<1>1. \A a \in Actions : (Closed(a)' <=> Closed(a)) /\ (Over(a)' <=> Over(a))
  BY DEF Closed, Over
<1>2. DenialInv'
  BY DEF RInv, DenialInv, Closed, Subject
<1>3. SuccessInv' /\ AutoInv'
  BY DEF RInv, SuccessInv, AutoInv, Subject
<1>4. FailureInv'
  BY DEF RInv, FailureInv, Over, Subject
<1> QED BY <1>2, <1>3, <1>4 DEF RInv

(* The UPDATE of a lifecycle transition writes what its reader was allowed *)
(* to (Database.update_action_lifecycle_record).                           *)
LEMMA WriteLifeRecords ==
    ASSUME IInv, RInv, NEW p \in Procs, WriteLife(p)
    PROVE  RInv'
<1>0. /\ life \in [Actions -> Statuses]
      /\ write \in [Procs -> Statuses]
      /\ Subject(p) \in Actions
      /\ \A q \in Procs : Subject(q)' = Subject(q)
      /\ life' = [life EXCEPT ![Subject(p)] = write[p]]
      /\ write' = [write EXCEPT ![p] = "none"]
      /\ UNCHANGED <<tool, store, handler, pc, target, result>>
  BY SubjectType DEF IInv, TypeOK, WriteLife, Subject
<1>1. DenialInv'
  BY <1>0 DEF RInv, DenialInv, Closed, Denials
<1>2. SuccessInv' /\ AutoInv'
  BY <1>0 DEF RInv, SuccessInv, AutoInv
<1>3. FailureInv'
  <2>1. \A a \in Actions : life'[a] = "failed" => Over(a)
    BY <1>0 DEF RInv, FailureInv
  <2>2. \A q \in Procs : "failed" \in {result[q], write'[q]} => Over(Subject(q))
    BY <1>0 DEF RInv, FailureInv
  <2> QED BY <1>0, <2>1, <2>2 DEF FailureInv, Over
<1> QED BY <1>1, <1>2, <1>3 DEF RInv

(* Whoever executes an action and has an answer, or gives up waiting for   *)
(* one, leaves no call of it to start (future.result, future.cancel).      *)
LEMMA AnswerRecords ==
    ASSUME IInv, RInv, NEW p \in Procs,
           Refuse(p) \/ HandlerAnswered(p) \/ GiveUp(p)
    PROVE  RInv'
<1>a. PICK a \in Actions : a = Subject(p)
  BY SubjectType DEF IInv
<1>0. /\ pc \in [Procs -> Places]
      /\ handler \in [Actions -> HandlerStates]
      /\ result \in [Procs -> {"none", "succeeded", "failed"}]
      /\ pc[p] \in {"submit", "waiting", "give_up"}
      /\ pc' = [pc EXCEPT ![p] = "rt_standby"]
      /\ UNCHANGED <<tool, life, store, target, write>>
      /\ \A q \in Procs : Subject(q)' = Subject(q) /\ Subject(q) \in Actions
  BY SubjectType
     DEF IInv, TypeOK, Refuse, HandlerAnswered, GiveUp, Goto, At, Subject
<1>1. PICK end \in {"succeeded", "failed"} :
         /\ result' = [result EXCEPT ![p] = end]
         /\ end = "succeeded" => handler[a] = "ok"
  BY <1>a DEF Refuse, HandlerAnswered, GiveUp
<1>2. /\ \A b \in Actions : b # a => handler'[b] = handler[b]
      /\ handler'[a] # "queued"
      /\ handler[a] \in {"none", "ok"} => handler'[a] = handler[a]
  <2>1. CASE Refuse(p)
    <3>1. handler[a] = "none"
      BY <1>a, <2>1 DEF IInv, FreshInv, Refuse, At, BeforeSubmit
    <3> QED BY <2>1, <3>1 DEF Refuse
  <2>2. CASE HandlerAnswered(p)
    BY <1>a, <2>2 DEF HandlerAnswered
  <2>3. CASE GiveUp(p)
    BY <1>a, <1>0, <2>3 DEF GiveUp
  <2> QED BY <2>1, <2>2, <2>3
<1>3. /\ pc'[a] \notin BeforeSubmit \cup {"idle", "create"}
      /\ store[a] # "pending"
      /\ \A r \in Requests : target[r] = a => pc'[r] \notin BeforeSubmit
  <2>1. CASE p \in Actions
    <3>1. p = a /\ Policy(tool[a]) = "auto_execute"
      BY <1>a, <1>0, <2>1
         DEF RInv, AutoInv, IInv, BranchInv, BeforeSubmit, Subject
    <3>2. store[a] = "absent"
      BY <3>1 DEF IInv, QueueInv
    <3>3. \A r \in Requests : target[r] = a => pc[r] \notin Executing
      BY <3>2 DEF IInv, ClaimInv
    <3> QED BY <1>0, <3>1, <3>2, <3>3, ProcessesAssumption
            DEF Executing, BeforeSubmit, Procs
  <2>2. CASE p \in Requests
    <3>1. target[p] = a /\ p \notin Actions
      BY <1>a, <2>2, ProcessesAssumption DEF Subject
    <3>2. store[a] = "confirmed"
      BY <1>0, <2>2, <3>1 DEF IInv, ClaimInv, Executing, BeforeSubmit
    <3>3. pc[a] \notin BeforeSubmit \cup {"idle", "create"}
      BY <3>2 DEF IInv, QueueInv, BranchInv
    <3>4. \A r \in Requests : r # p /\ target[r] = a => pc[r] \notin BeforeSubmit
      BY <1>0, <2>2, <3>1 DEF IInv, ClaimInv, Executing, BeforeSubmit
    <3> QED BY <1>0, <2>2, <3>1, <3>2, <3>3, <3>4 DEF BeforeSubmit, Procs
  <2> QED BY <2>1, <2>2 DEF Procs
<1>4. Over(a)'
  BY <1>0, <1>2, <1>3 DEF Over
<1>5. \A b \in Actions : Over(b) => Over(b)'
  BY <1>0, <1>2, <1>4 DEF Over, BeforeSubmit, Procs
<1>6. DenialInv'
  <2>1. \A b \in Actions : Closed(b) => Closed(b)'
    BY <1>0, <1>2 DEF Closed, BeforeSubmit, Procs
  <2>2. ASSUME NEW b \in Actions,
               store[b] \in {"cancelled", "expired"} \/ pc'[b] = "deny" \/ life[b] \in Denials
        PROVE  Closed(b)'
    <3>1. Closed(b)
      BY <1>0, <2>2 DEF RInv, DenialInv, Procs
    <3> QED BY <2>1, <3>1 DEF Closed
  <2>3. ASSUME NEW q \in Procs,
               pc'[q] \in {"life_expired", "life_cancel"} \/ write[q] \in Denials
        PROVE  Closed(Subject(q))'
    <3>1. Closed(Subject(q))
      BY <1>0, <2>3 DEF RInv, DenialInv
    <3> QED BY <1>0, <2>1, <3>1 DEF Closed
  <2> QED BY <1>0, <2>2, <2>3 DEF DenialInv
<1>7. SuccessInv'
  <2>1. \A b \in Actions : handler[b] = "ok" => handler'[b] = "ok"
    BY <1>2
  <2> QED BY <1>a, <1>0, <1>1, <2>1 DEF RInv, SuccessInv
<1>8. FailureInv'
  <2>1. ASSUME NEW q \in Procs, "failed" \in {result'[q], write[q]}
        PROVE  Over(Subject(q))'
    <3>1. CASE q = p
      BY <1>a, <1>0, <1>4, <3>1 DEF Over
    <3>2. CASE q # p
      <4>1. Over(Subject(q))
        BY <1>0, <1>1, <2>1, <3>2 DEF RInv, FailureInv
      <4> QED BY <1>0, <1>5, <4>1 DEF Over
    <3> QED BY <3>1, <3>2
  <2> QED BY <1>0, <1>5, <2>1 DEF RInv, FailureInv
<1>9. AutoInv'
  BY <1>0 DEF RInv, AutoInv, IInv, BranchInv, BeforeSubmit, Procs
<1> QED BY <1>6, <1>7, <1>8, <1>9 DEF RInv

(* What a step must respect when it is not itself about the records: what  *)
(* is closed or over stays so, a good end stays good, and whoever comes to *)
(* deny an action finds it closed.                                         *)
LEMMA KeepRecords ==
    ASSUME IInv, RInv, UNCHANGED target,
           \A q \in Procs : write'[q] \in {write[q], "none"},
           \A q \in Procs : result'[q] \in {result[q], "none"},
           \A b \in Actions : life'[b] = life[b] \/ life'[b] \notin Terminal,
           \A b \in Actions : Closed(b) => Closed(b)',
           \A b \in Actions : Over(b) => Over(b)',
           \A b \in Actions : handler[b] = "ok" => handler'[b] = "ok",
           \A b \in Actions :
               store'[b] \in {"cancelled", "expired"} \/ pc'[b] = "deny"
                   => Closed(b) \/ Closed(b)',
           \A q \in Procs :
               pc'[q] \in {"life_expired", "life_cancel"}
                   => Closed(Subject(q)) \/ Closed(Subject(q))',
           AutoInv'
    PROVE  RInv'
<1>0. \A q \in Procs : Subject(q)' = Subject(q) /\ Subject(q) \in Actions
  BY SubjectType DEF IInv, Subject
<1>1. DenialInv'
  <2>1. ASSUME NEW b \in Actions,
               store'[b] \in {"cancelled", "expired"} \/ pc'[b] = "deny" \/ life'[b] \in Denials
        PROVE  Closed(b)'
    <3>1. life[b] \in Denials => Closed(b)
      BY DEF RInv, DenialInv
    <3>2. life'[b] \in Denials => life[b] \in Denials
      BY DEF Denials, Terminal
    <3> QED BY <2>1, <3>1, <3>2 DEF Closed
  <2>2. ASSUME NEW q \in Procs,
               pc'[q] \in {"life_expired", "life_cancel"} \/ write'[q] \in Denials
        PROVE  Closed(Subject(q))'
    <3>1. write'[q] \in Denials => Closed(Subject(q))
      BY DEF RInv, DenialInv, Denials
    <3> QED BY <1>0, <2>2, <3>1 DEF Closed
  <2> QED BY <2>1, <2>2 DEF DenialInv
<1>2. SuccessInv'
  BY <1>0 DEF RInv, SuccessInv, Terminal
<1>3. FailureInv'
  <2>1. \A b \in Actions : life'[b] = "failed" => Over(b)
    BY DEF RInv, FailureInv, Terminal
  <2>2. \A q \in Procs : "failed" \in {result'[q], write'[q]} => Over(Subject(q))
    BY DEF RInv, FailureInv
  <2> QED BY <1>0, <2>1, <2>2 DEF FailureInv, Over
<1> QED BY <1>1, <1>2, <1>3 DEF RInv

(* A new command is nobody's record yet (Router._dispatch).                *)
LEMMA DispatchRecords ==
    ASSUME IInv, RInv, NEW a \in Actions, Dispatch(a)
    PROVE  RInv'
<1>0. /\ pc \in [Procs -> Places]
      /\ life \in [Actions -> Statuses]
      /\ pc[a] = "idle" /\ store[a] = "absent" /\ handler[a] = "none"
      /\ life' = [life EXCEPT ![a] = "proposed"]
      /\ UNCHANGED <<store, handler, target, result, write>>
  BY DEF IInv, TypeOK, QueueInv, FreshInv, Dispatch, At
<1>1. PICK t \in Match[a] :
         /\ tool' = [tool EXCEPT ![a] = t]
         /\ pc' = [pc EXCEPT ![a] = CASE Policy(t) = "deny" -> "deny"
                        [] Policy(t) = "require_approval" -> "create"
                        [] OTHER -> "rt_exec"]
  BY DEF Dispatch, Goto
<1>2. /\ \A p \in Procs : p # a => pc'[p] = pc[p]
      /\ pc'[a] \in {"deny", "create", "rt_exec"}
  BY <1>0, <1>1 DEF Procs
<1>3. ~ Closed(a) /\ ~ Over(a)
  BY <1>0 DEF Closed, Over
<1>4. \A b \in Actions : Closed(b) => Closed(b)'
  BY <1>0, <1>2, <1>3 DEF Closed, Procs
<1>5. \A b \in Actions : Over(b) => Over(b)'
  BY <1>0, <1>2, <1>3, ProcessesAssumption DEF Over, Procs
<1>6. \A b \in Actions :
         store'[b] \in {"cancelled", "expired"} \/ pc'[b] = "deny"
             => Closed(b) \/ Closed(b)'
  <2>1. pc'[a] = "deny" => Closed(a)'
    BY <1>0 DEF Closed, BeforeSubmit
  <2> QED BY <1>0, <1>2, <2>1 DEF RInv, DenialInv, Procs
<1>7. \A q \in Procs :
         pc'[q] \in {"life_expired", "life_cancel"} => Closed(Subject(q))
  BY <1>2 DEF RInv, DenialInv
<1>8. AutoInv'
  BY <1>0, <1>1, <1>2, ProcessesAssumption
     DEF RInv, AutoInv, IInv, TypeOK, Procs
<1> QED BY <1>0, <1>4, <1>5, <1>6, <1>7, <1>8, KeepRecords DEF Terminal

(* Submitting a call needs a right to execute that no denied or finished   *)
(* action leaves anybody (execute, execute_approved).                      *)
LEMMA SubmitRecords ==
    ASSUME IInv, RInv, NEW p \in Procs, Submit(p)
    PROVE  RInv'
<1>a. PICK a \in Actions : a = Subject(p)
  BY SubjectType DEF IInv
<1>0. /\ pc \in [Procs -> Places]
      /\ pc[p] = "submit"
      /\ pc' = [pc EXCEPT ![p] = "waiting"]
      /\ handler \in [Actions -> HandlerStates]
      /\ handler[a] = "none"
      /\ handler' = [handler EXCEPT ![a] = "queued"]
      /\ UNCHANGED <<tool, life, store, target, result, write>>
  BY <1>a DEF IInv, TypeOK, FreshInv, Submit, Goto, At, BeforeSubmit
<1>1. ~ Closed(a) /\ ~ Over(a)
  <2>1. CASE p \in Actions
    BY <1>a, <1>0, <2>1 DEF Closed, Over, Subject, BeforeSubmit
  <2>2. CASE p \in Requests
    <3>1. target[p] = a
      BY <1>a, <2>2, ProcessesAssumption DEF Subject
    <3>2. store[a] = "confirmed"
      BY <1>0, <2>2, <3>1 DEF IInv, ClaimInv, Executing, BeforeSubmit
    <3> QED BY <1>0, <2>2, <3>1, <3>2 DEF Closed, Over, BeforeSubmit
  <2> QED BY <2>1, <2>2 DEF Procs
<1>2. \A b \in Actions : Closed(b) => Closed(b)'
  BY <1>0, <1>1 DEF Closed, BeforeSubmit, Procs
<1>3. \A b \in Actions : Over(b) => Over(b)'
  BY <1>0, <1>1 DEF Over, BeforeSubmit, Procs
<1>4. \A b \in Actions :
         store'[b] \in {"cancelled", "expired"} \/ pc'[b] = "deny" => Closed(b)
  BY <1>0 DEF RInv, DenialInv, Procs
<1>5. \A q \in Procs :
         pc'[q] \in {"life_expired", "life_cancel"} => Closed(Subject(q))
  BY <1>0 DEF RInv, DenialInv
<1>6. AutoInv'
  BY <1>0 DEF RInv, AutoInv, IInv, BranchInv, BeforeSubmit, Procs
<1> QED BY <1>0, <1>2, <1>3, <1>4, <1>5, <1>6, KeepRecords

(* Entering the queue and leaving it on an approval concern an action that *)
(* is neither closed nor over (create, confirm).                           *)
LEMMA QueueRecords ==
    ASSUME IInv, RInv, NEW p \in Procs, NEW a \in Actions, NEW place, NEW status,
           UNCHANGED <<tool, life, handler, target, result, write>>,
           store' = [store EXCEPT ![a] = status],
           pc' = [pc EXCEPT ![p] = place],
           Subject(p) = a,
           \/ /\ p \in Actions /\ pc[p] = "create"
              /\ status = "pending" /\ place = "rt_await"
           \/ /\ p \in Requests /\ store[a] = "pending"
              /\ status = "confirmed" /\ place = "life_approved"
    PROVE  RInv'
<1>0. /\ pc \in [Procs -> Places]
      /\ store \in [Actions -> QueueStatuses]
      /\ status \notin {"cancelled", "expired"}
      /\ place \in {"rt_await", "life_approved"}
  BY DEF IInv, TypeOK
<1>1. ~ Closed(a) /\ ~ Over(a)
  BY DEF Closed, Over, Subject
<1>2. p \in Actions => p = a
  BY DEF Subject
<1>3. \A b \in Actions : Closed(b) => Closed(b)'
  BY <1>0, <1>1, <1>2 DEF Closed, Procs
<1>4. \A b \in Actions : Over(b) => Over(b)'
  <2> SUFFICES ASSUME NEW b \in Actions, Over(b) PROVE Over(b)'
    OBVIOUS
  <2>1. b # a
    BY <1>1
  <2>2. \A r \in Requests : target[r] = b => r # p
    BY <2>1, ProcessesAssumption DEF Subject
  <2>3. \A r \in Requests : target[r] = b => pc'[r] = pc[r]
    BY <1>0, <2>2 DEF Procs
  <2> QED BY <1>0, <1>2, <2>1, <2>3 DEF Over, Procs
<1>5. \A b \in Actions :
         store'[b] \in {"cancelled", "expired"} \/ pc'[b] = "deny" => Closed(b)
  BY <1>0 DEF RInv, DenialInv, Procs
<1>6. \A q \in Procs :
         pc'[q] \in {"life_expired", "life_cancel"} => Closed(Subject(q))
  BY <1>0 DEF RInv, DenialInv
<1>7. AutoInv'
  BY <1>0 DEF RInv, AutoInv, Procs
<1> QED BY <1>3, <1>4, <1>5, <1>6, <1>7, KeepRecords

(* An entry taken out of the queue unapproved was never run, and whoever   *)
(* goes on to record that finds it so (get, cancel, the losing confirm).   *)
LEMMA CloseRecords ==
    ASSUME IInv, RInv,
           UNCHANGED <<tool, life, handler, target, result, write>>,
           \A b \in Actions :
               \/ store'[b] = store[b]
               \/ store[b] = "pending" /\ store'[b] \in {"cancelled", "expired"},
           \A b \in Actions : pc'[b] = pc[b],
           \A r \in Requests :
               \/ pc'[r] \in {pc[r], "lookup", "done"}
               \/ /\ pc'[r] \in {"life_expired", "life_cancel"}
                  /\ store'[target[r]] \in {"cancelled", "expired"}
    PROVE  RInv'
<1>1. \A b \in Actions : store[b] = "pending" =>
         /\ handler[b] = "none"
         /\ pc[b] \notin BeforeSubmit \cup {"idle", "create"}
  BY DEF IInv, FreshInv, QueueInv, BranchInv
<1>2. \A b \in Actions : Closed(b) => Closed(b)'
  BY DEF Closed
<1>3. \A b \in Actions : Over(b) => Over(b)'
  BY DEF Over, BeforeSubmit
<1>4. \A b \in Actions : store'[b] \in {"cancelled", "expired"} => Closed(b)'
  BY <1>1, <1>2 DEF RInv, DenialInv, Closed
<1>5. \A b \in Actions :
         store'[b] \in {"cancelled", "expired"} \/ pc'[b] = "deny"
             => Closed(b) \/ Closed(b)'
  BY <1>4 DEF RInv, DenialInv
<1>6. ASSUME NEW q \in Procs, pc'[q] \in {"life_expired", "life_cancel"}
      PROVE  Closed(Subject(q)) \/ Closed(Subject(q))'
  <2>1. CASE pc'[q] = pc[q]
    BY <1>6, <2>1 DEF RInv, DenialInv
  <2>2. CASE pc'[q] # pc[q]
    <3>1. q \in Requests /\ q \notin Actions /\ target[q] \in Actions
      BY <2>2 DEF Procs, IInv, TypeOK
    <3>2. store'[target[q]] \in {"cancelled", "expired"}
      BY <1>6, <2>2, <3>1
    <3> QED BY <1>4, <3>1, <3>2 DEF Subject, Closed
  <2> QED BY <2>1, <2>2
<1>7. AutoInv'
  BY DEF RInv, AutoInv
<1> QED BY <1>2, <1>3, <1>5, <1>6, <1>7, KeepRecords

(* mark_executed and mark_failed end an entry that was confirmed.          *)
LEMMA MarkRecords ==
    ASSUME IInv, RInv, NEW r \in Requests, Mark(r)
    PROVE  RInv'
<1>a. PICK a \in Actions : a = target[r]
  BY DEF IInv, TypeOK
<1>0. /\ pc \in [Procs -> Places]
      /\ store \in [Actions -> QueueStatuses]
      /\ r \in Procs
      /\ pc[r] = "mark" /\ store[a] = "confirmed"
      /\ pc' = [pc EXCEPT ![r] = "life_result"]
      /\ UNCHANGED <<tool, life, handler, target, result, write>>
  BY <1>a DEF IInv, TypeOK, ClaimInv, Mark, Goto, At, Executing, Procs
<1>1. PICK status \in {"executed", "failed"} : store' = [store EXCEPT ![a] = status]
  BY <1>a, <1>0 DEF Mark
<1>2. \A b \in Actions : pc'[b] = pc[b]
  BY <1>0, ProcessesAssumption DEF Procs
<1>3. \A b \in Actions : Closed(b) => Closed(b)'
  BY <1>0, <1>1, <1>2 DEF Closed
<1>4. \A b \in Actions : Over(b) => Over(b)'
  BY <1>0, <1>1, <1>2 DEF Over, BeforeSubmit, Procs
<1>5. \A b \in Actions :
         store'[b] \in {"cancelled", "expired"} \/ pc'[b] = "deny" => Closed(b)
  BY <1>0, <1>1, <1>2 DEF RInv, DenialInv
<1>6. \A q \in Procs :
         pc'[q] \in {"life_expired", "life_cancel"} => Closed(Subject(q))
  BY <1>0 DEF RInv, DenialInv
<1>7. AutoInv'
  BY <1>0, <1>2 DEF RInv, AutoInv
<1> QED BY <1>0, <1>3, <1>4, <1>5, <1>6, <1>7, KeepRecords

(* The pool touches only calls that were queued.                           *)
LEMMA HandlerRecords ==
    ASSUME IInv, RInv, NEW a \in Actions, HandlerStart(a) \/ HandlerEnd(a)
    PROVE  RInv'
<1>0. /\ handler \in [Actions -> HandlerStates]
      /\ handler[a] \in {"queued", "running"}
      /\ UNCHANGED <<tool, life, store, pc, target, result, write>>
  BY DEF IInv, TypeOK, HandlerStart, HandlerEnd
<1>1. PICK state \in {"running", "ok", "error"} : handler' = [handler EXCEPT ![a] = state]
  BY DEF HandlerStart, HandlerEnd
<1>2. \A b \in Actions : Closed(b) => Closed(b)'
  BY <1>0, <1>1 DEF Closed
<1>3. \A b \in Actions : Over(b) => Over(b)'
  BY <1>0, <1>1 DEF Over
<1>4. \A b \in Actions :
         store'[b] \in {"cancelled", "expired"} \/ pc'[b] = "deny" => Closed(b)
  BY <1>0 DEF RInv, DenialInv
<1>5. \A q \in Procs :
         pc'[q] \in {"life_expired", "life_cancel"} => Closed(Subject(q))
  BY <1>0 DEF RInv, DenialInv
<1>6. AutoInv'
  BY <1>0 DEF RInv, AutoInv
<1> QED BY <1>0, <1>1, <1>2, <1>3, <1>4, <1>5, <1>6, KeepRecords

(* A restart ends every thread that could record anything and every call   *)
(* that had not started; the audit table stays as it was written.          *)
LEMMA RestartRecords ==
    ASSUME IInv, RInv, Restart
    PROVE  RInv'
<1>0. /\ pc' = [p \in Procs |-> IF pc[p] \in Finished THEN pc[p] ELSE "killed"]
      /\ write' = [p \in Procs |-> "none"]
      /\ result' = [p \in Procs |-> "none"]
      /\ store' = [a \in Actions |-> "absent"]
      /\ handler' = [a \in Actions |->
                      CASE handler[a] = "queued"  -> "dropped"
                        [] handler[a] = "running" -> "killed"
                        [] OTHER                  -> handler[a]]
      /\ UNCHANGED <<tool, life, target>>
  BY DEF Restart
<1>1. \A p \in Procs : pc'[p] \in {"idle", "done", "raised", "killed"}
                       /\ (pc'[p] = "idle" => pc[p] = "idle")
  BY <1>0 DEF Finished
<1>2. \A b \in Actions : Closed(b) => Closed(b)'
  BY <1>0, <1>1 DEF Closed, BeforeSubmit, Procs
<1>3. \A b \in Actions : Over(b) => Over(b)'
  BY <1>0, <1>1 DEF Over, BeforeSubmit, Procs
<1>4. \A b \in Actions : handler[b] = "ok" => handler'[b] = "ok"
  BY <1>0
<1>5. AutoInv'
  BY <1>1 DEF AutoInv, Procs
<1>6. \A b \in Actions : store'[b] \notin {"cancelled", "expired"} /\ pc'[b] # "deny"
  BY <1>0, <1>1 DEF Procs
<1> QED BY <1>0, <1>1, <1>2, <1>3, <1>4, <1>5, <1>6, KeepRecords

-----------------------------------------------------------------------------
(* All steps keep the records *)

(* A dispatch denies only what policy denied (Router._dispatch).           *)
LEMMA DispatchStepRecords ==
    ASSUME IInv, RInv, NEW a \in Actions, DispatchStep(a)
    PROVE  RInv'
<1> USE DEF Procs
<1>0. /\ pc \in [Procs -> Places] /\ write \in [Procs -> Statuses]
      /\ Subject(a) = a
  BY DEF IInv, TypeOK, Subject
<1>1. CASE Dispatch(a)
  BY <1>1, DispatchRecords
<1>2. CASE CreatePending(a)
  BY <1>0, <1>2, QueueRecords DEF CreatePending, Goto, At
<1>3. CASE Denied(a)
  <2>1. Closed(a)
    BY <1>3 DEF RInv, DenialInv, Denied, At
  <2>2. PICK place \in {"done", "raised"}, status \in {"none", "blocked"} :
           /\ pc' = [pc EXCEPT ![a] = place]
           /\ write' = [write EXCEPT ![a] = status]
    BY <1>0, <1>3 DEF Denied, ReadLife, Goto, At
  <2> QED BY <1>0, <1>3, <2>1, <2>2, MoveRecords
          DEF Denied, At, BeforeSubmit, Statuses, Denials
<1>4. CASE AwaitApproval(a)
  <2>1. write' = [write EXCEPT ![a] = "none"]
    BY <1>0, <1>4 DEF AwaitApproval, At
  <2> QED BY <1>4, <2>1, MoveRecords
          DEF AwaitApproval, Goto, At, BeforeSubmit, Statuses, Denials
<1>5. CASE RecordPending(a)
  <2>1. PICK place \in {"done", "raised"}, status \in {"none", "pending_approval"} :
           /\ pc' = [pc EXCEPT ![a] = place]
           /\ write' = [write EXCEPT ![a] = status]
    BY <1>0, <1>5 DEF RecordPending, ReadLife, Goto, At
  <2> QED BY <1>5, <2>1, MoveRecords
          DEF RecordPending, At, BeforeSubmit, Statuses, Denials
<1> QED BY <1>1, <1>2, <1>3, <1>4, <1>5 DEF DispatchStep

(* An execution records its own result and nothing else.                   *)
LEMMA ExecuteStepRecords ==
    ASSUME IInv, RInv, NEW p \in Procs, ExecuteStep(p)
    PROVE  RInv'
<1>0. /\ pc \in [Procs -> Places] /\ write \in [Procs -> Statuses]
      /\ result[p] \in {"none", "succeeded", "failed"}
  BY DEF IInv, TypeOK
<1>1. CASE Submit(p)
  BY <1>1, SubmitRecords
<1>2. CASE Refuse(p) \/ HandlerAnswered(p) \/ GiveUp(p)
  BY <1>2, AnswerRecords
<1>3. CASE WriteLife(p)
  BY <1>3, WriteLifeRecords
<1>4. CASE ShowExecuting(p)
  <2>1. write' = [write EXCEPT ![p] = "none"]
    BY <1>0, <1>4 DEF ShowExecuting, At
  <2> QED BY <1>4, <2>1, MoveRecords
          DEF ShowExecuting, Goto, At, BeforeSubmit, Statuses, Denials
<1>5. CASE RecordExecuting(p)
  <2>1. PICK place \in {"submit", "raised"}, status \in {"none", "executing"} :
           /\ pc' = [pc EXCEPT ![p] = place]
           /\ write' = [write EXCEPT ![p] = status]
    BY <1>0, <1>5 DEF RecordExecuting, ReadLife, Goto, At
  <2> QED BY <1>5, <2>1, MoveRecords
          DEF RecordExecuting, At, BeforeSubmit, Statuses, Denials
<1>6. CASE TimeOut(p)
  <2>1. write' = [write EXCEPT ![p] = "none"]
    BY <1>0, <1>6 DEF TimeOut, At
  <2> QED BY <1>6, <2>1, MoveRecords
          DEF TimeOut, Goto, At, BeforeSubmit, Showing, Statuses, Denials
<1>7. CASE ShowStandby(p)
  <2>1. PICK place \in {"life_result", "mark"} : pc' = [pc EXCEPT ![p] = place]
    BY <1>7 DEF ShowStandby, Goto
  <2>2. write' = [write EXCEPT ![p] = "none"]
    BY <1>0, <1>7 DEF ShowStandby, At
  <2> QED BY <1>7, <2>1, <2>2, MoveRecords
          DEF ShowStandby, At, BeforeSubmit, Statuses, Denials
<1>8. CASE RecordResult(p)
  <2>1. PICK place \in {"done", "raised"}, status \in {"none", result[p]} :
           /\ pc' = [pc EXCEPT ![p] = place]
           /\ write' = [write EXCEPT ![p] = status]
    BY <1>0, <1>8 DEF RecordResult, ReadLife, Goto, At
  <2>2. status = "succeeded" => handler[Subject(p)] = "ok"
    BY <2>1 DEF RInv, SuccessInv
  <2>3. status \in Statuses /\ status \notin Denials
    BY <1>0, <2>1 DEF Statuses, Denials
  <2> QED BY <1>8, <2>1, <2>2, <2>3, MoveRecords DEF RecordResult, At, BeforeSubmit
<1> QED BY <1>1, <1>2, <1>3, <1>4, <1>5, <1>6, <1>7, <1>8 DEF ExecuteStep

(* A request records a denial only of an entry it saw closed, and marks    *)
(* only what it owns (confirm_action, cancel_action, _sync_lifecycle).     *)
LEMMA RequestStepRecords ==
    ASSUME IInv, RInv, NEW r \in Requests,
           RequestStep(r) \/ Confirm(r) \/ Cancel(r)
    PROVE  RInv'
<1> USE DEF Procs
<1>0. /\ pc \in [Procs -> Places] /\ write \in [Procs -> Statuses]
      /\ store \in [Actions -> QueueStatuses]
      /\ target[r] \in Actions
      /\ r \notin Actions
      /\ Subject(r) = target[r]
  BY ProcessesAssumption DEF IInv, TypeOK, Subject
<1>1. CASE RecordApproved(r)
  <2>1. PICK status \in {"none", "approved"} :
           /\ pc' = [pc EXCEPT ![r] = "rt_exec"]
           /\ write' = [write EXCEPT ![r] = status]
    BY <1>0, <1>1 DEF RecordApproved, ReadLife, Goto, At
  <2> QED BY <1>1, <2>1, MoveRecords
          DEF RecordApproved, At, BeforeSubmit, Statuses, Denials
<1>2. CASE Mark(r)
  BY <1>2, MarkRecords
<1>3. ASSUME RecordCancelled(r) \/ RecordExpired(r)
      PROVE  RInv'
  <2>1. pc[r] \in {"life_cancel", "life_expired"}
    BY <1>3 DEF RecordCancelled, RecordExpired, At
  <2>2. Closed(Subject(r))
    BY <2>1 DEF RInv, DenialInv
  <2>3. PICK place \in {"rt_cancel", "done"}, status \in {"none", "cancelled", "expired"} :
           /\ pc' = [pc EXCEPT ![r] = place]
           /\ write' = [write EXCEPT ![r] = status]
    BY <1>0, <1>3 DEF RecordCancelled, RecordExpired, ReadLife, Goto, At
  <2>4. UNCHANGED <<tool, life, store, handler, target, result>>
    BY <1>3 DEF RecordCancelled, RecordExpired
  <2> QED BY <2>1, <2>2, <2>3, <2>4, MoveRecords DEF BeforeSubmit, Statuses
<1>4. CASE ShowCancelled(r)
  <2>1. write' = [write EXCEPT ![r] = "none"]
    BY <1>0, <1>4 DEF ShowCancelled, At
  <2> QED BY <1>4, <2>1, MoveRecords
          DEF ShowCancelled, Goto, At, BeforeSubmit, Statuses, Denials
<1>5. CASE LookUp(r)
  BY <1>0, <1>5, CloseRecords DEF LookUp, Goto, Overdue
<1>6. CASE Confirm(r)
  <2>1. CASE store[target[r]] = "pending" /\ ~ Overdue(target[r])
    BY <1>0, <1>6, <2>1, QueueRecords DEF Confirm, Goto
  <2>2. CASE store[target[r]] # "pending" \/ Overdue(target[r])
    BY <1>0, <1>6, <2>2, CloseRecords DEF Confirm, Goto, Overdue
  <2> QED BY <2>1, <2>2
<1>7. CASE Cancel(r)
  BY <1>0, <1>7, CloseRecords DEF Cancel, Goto
<1> QED BY <1>1, <1>2, <1>3, <1>4, <1>5, <1>6, <1>7 DEF RequestStep

(* The rest of the world writes no record.                                 *)
LEMMA EnvironmentRecords ==
    ASSUME IInv, RInv, Environment
    PROVE  RInv'
<1>1. CASE \E r \in Requests : Confirm(r) \/ Cancel(r)
  BY <1>1, RequestStepRecords
<1>2. ASSUME NEW a \in Actions, Deadline(a) PROVE RInv'
  BY <1>2, StillRecords DEF Deadline
<1>3. ASSUME NEW S \in SUBSET Actions, \A a \in S : Overdue(a), Expire(S)
      PROVE  RInv'
  BY <1>3, CloseRecords DEF Expire, Overdue
<1>4. CASE \E a \in Actions : HandlerStart(a) \/ HandlerEnd(a)
  BY <1>4, HandlerRecords
<1>5. CASE Restart
  BY <1>5, RestartRecords
<1>6. CASE ListPending
  <2>1. PICK S \in SUBSET Actions : (\A a \in S : Overdue(a)) /\ Expire(S)
    BY <1>6 DEF ListPending
  <2> QED BY <1>3, <2>1
<1>7. ASSUME NEW a \in Actions, GetAction(a) PROVE RInv'
  BY <1>3, <1>7 DEF GetAction
<1> QED BY <1>1, <1>2, <1>4, <1>5, <1>6, <1>7 DEF Environment

(* The record invariant is inductive, relative to IInv.                    *)
LEMMA RecordsStep == IInv /\ RInv /\ [Next]_vars => RInv'
<1> SUFFICES ASSUME IInv, RInv, [Next]_vars PROVE RInv'
  OBVIOUS
<1>1. CASE Next
  BY <1>1, DispatchStepRecords, ExecuteStepRecords, RequestStepRecords,
     EnvironmentRecords DEF Next
<1>2. CASE UNCHANGED vars
  BY <1>2, StillRecords DEF vars
<1> QED BY <1>1, <1>2

(* The indicator leaves "executing" only when someone says so, and enters  *)
(* it only with ShowExecuting (RuntimeStateMachine.try_transition).        *)
LEMMA TryTransitionShows ==
    ASSUME NEW s \in RuntimeStates, NEW t \in RuntimeStates
    PROVE  /\ TryTransition(s, "standby") # "executing"
           /\ t # "executing" /\ TryTransition(s, t) = "executing" => s = "executing"
BY DEF TryTransition, Legal, Successors, RuntimeStates

(* Somebody showing stays showing until they have put "standby" up         *)
(* themselves: no dispatch about to execute finds its record finished.     *)
LEMMA PhantomStep ==
    ASSUME IInv, RInv, NoPhantomExecuting, [Next]_vars
    PROVE  NoPhantomExecuting'
<1> SUFFICES ASSUME rt' = "executing"
             PROVE  \E p \in Procs : pc'[p] \in Showing
  BY DEF NoPhantomExecuting, Showing
<1>0. /\ pc \in [Procs -> Places]
      /\ rt \in RuntimeStates
      /\ target \in [Requests -> Actions]
  BY DEF IInv, TypeOK
<1>1. ASSUME NEW p \in Procs, ShowExecuting(p)
      PROVE  pc'[p] \in Showing
  BY <1>0, <1>1 DEF ShowExecuting, Goto, Showing
<1>2. ASSUME NEW p \in Procs, ShowStandby(p)
      PROVE  FALSE
  BY <1>0, <1>2, TryTransitionShows DEF ShowStandby, TryRuntime
<1>3. ASSUME rt = "executing",
             \A p \in Procs : pc[p] \in Showing => pc'[p] \in Showing
      PROVE  \E p \in Procs : pc'[p] \in Showing
  BY <1>3 DEF NoPhantomExecuting, Showing
<1>4. ASSUME NEW a \in Actions, DispatchStep(a)
      PROVE  \E p \in Procs : pc'[p] \in Showing
  <2>1. rt = "executing"
    BY <1>0, <1>4, TryTransitionShows
       DEF DispatchStep, Dispatch, Denied, CreatePending, AwaitApproval,
           RecordPending, TryRuntime, RuntimeStates
  <2>2. pc[a] \in {"idle", "deny", "create", "rt_await", "life_await"}
    BY <1>4 DEF DispatchStep, Dispatch, Denied, CreatePending, AwaitApproval,
                RecordPending, At
  <2>3. \A p \in Procs : p # a => pc'[p] = pc[p]
    BY <1>0, <1>4
       DEF DispatchStep, Dispatch, Denied, CreatePending, AwaitApproval,
           RecordPending, ReadLife, Goto
  <2> QED BY <1>3, <2>1, <2>2, <2>3 DEF Showing
<1>5. ASSUME NEW p \in Procs, ExecuteStep(p)
      PROVE  \E q \in Procs : pc'[q] \in Showing
  <2>1. CASE ShowExecuting(p)
    BY <1>1, <2>1
  <2>2. CASE ShowStandby(p)
    BY <1>2, <2>2
  <2>3. CASE RecordExecuting(p)
    <3>1. pc'[p] = "submit"
      <4>1. life[Subject(p)] \notin Terminal \/ p \notin Actions
        BY <2>3, TerminalIsPast DEF RecordExecuting, At, BeforeSubmit, Subject
      <4> QED BY <1>0, <2>3, <4>1 DEF RecordExecuting, ReadLife, Goto
    <3> QED BY <3>1 DEF Showing
  <2>4. CASE Refuse(p) \/ Submit(p) \/ HandlerAnswered(p) \/ TimeOut(p) \/ GiveUp(p)
    <3>1. pc'[p] \in {"rt_standby", "waiting", "give_up"}
      BY <1>0, <2>4 DEF Refuse, Submit, HandlerAnswered, TimeOut, GiveUp, Goto
    <3> QED BY <3>1 DEF Showing
  <2>5. CASE RecordResult(p)
    <3>1. pc[p] = "life_result" /\ rt = "executing"
      BY <2>5 DEF RecordResult, At
    <3>2. \A q \in Procs : q # p => pc'[q] = pc[q]
      BY <1>0, <2>5 DEF RecordResult, ReadLife, Goto
    <3> QED BY <1>3, <3>1, <3>2 DEF Showing
  <2>6. CASE WriteLife(p)
    BY <1>3, <2>6 DEF WriteLife
  <2> QED BY <1>5, <2>1, <2>2, <2>3, <2>4, <2>5, <2>6 DEF ExecuteStep
<1>6. ASSUME NEW r \in Requests, RequestStep(r) \/ Confirm(r) \/ Cancel(r)
      PROVE  \E q \in Procs : pc'[q] \in Showing
  <2>1. rt = "executing"
    BY <1>0, <1>6, TryTransitionShows
       DEF RequestStep, RecordApproved, Mark, RecordCancelled, ShowCancelled,
           LookUp, RecordExpired, Confirm, Cancel, TryRuntime, RuntimeStates
  <2>2. pc[r] \notin Showing
    BY <1>6
       DEF RequestStep, RecordApproved, Mark, RecordCancelled, ShowCancelled,
           LookUp, RecordExpired, Confirm, Cancel, At, Showing
  <2>3. \A q \in Procs : q # r => pc'[q] = pc[q]
    BY <1>0, <1>6
       DEF RequestStep, RecordApproved, Mark, RecordCancelled, ShowCancelled,
           LookUp, RecordExpired, Confirm, Cancel, ReadLife, Goto
  <2> QED BY <1>3, <2>1, <2>2, <2>3
<1>7. ASSUME Environment
      PROVE  \E q \in Procs : pc'[q] \in Showing
  <2>1. CASE \E r \in Requests : Confirm(r) \/ Cancel(r)
    BY <1>6, <2>1
  <2>2. CASE Restart
    BY <2>2 DEF Restart
  <2>3. CASE \/ \E a \in Actions : \/ Deadline(a) \/ GetAction(a)
                                   \/ HandlerStart(a) \/ HandlerEnd(a)
             \/ ListPending
    BY <1>3, <2>3
       DEF Deadline, GetAction, HandlerStart, HandlerEnd, ListPending, Expire
  <2> QED BY <1>7, <2>1, <2>2, <2>3 DEF Environment
<1>8. CASE UNCHANGED vars
  BY <1>3, <1>8 DEF vars
<1> QED BY <1>4, <1>5, <1>6, <1>7, <1>8 DEF Next

(* The audit trail never denies an action whose handler has started, calls *)
(* succeeded only what ended well and failed only what can no longer       *)
(* start, and the dashboard shows "executing" only while somebody          *)
(* executes - with no lock in common between queue, table and indicator    *)
(* (RecordsAreHonest).                                                     *)
THEOREM HonestRecords == Spec => []RecordsAreHonest
<1>1. IInv /\ RInv /\ NoPhantomExecuting => RecordsAreHonest
  BY DEF IInv, RInv, DenialInv, SuccessInv, FailureInv, Closed, Over, Denials,
         RecordsAreHonest, AuditNeverDenies, AuditIsHonest
<1>2. Init => RInv /\ NoPhantomExecuting
  BY InitRecords
<1>3. IInv /\ RInv /\ NoPhantomExecuting /\ [Next]_vars
          => RInv' /\ NoPhantomExecuting'
  BY RecordsStep, PhantomStep
<1> QED BY <1>1, <1>2, <1>3, Invariance, PTL DEF Spec
=============================================================================

---------------------------- MODULE ApprovalGate ----------------------------
(***************************************************************************)
(* What the action pipeline promises its user, with none of its machinery: *)
(* a tool's handler starts at most once, only while its action is approved *)
(* by a person or exempted by policy, and an action once closed -          *)
(* cancelled, expired, denied, or left behind by a restart - never starts  *)
(* again.                                                                  *)
(***************************************************************************)

CONSTANT Actions

VARIABLES
    decision,   \* what has been decided about each action
    ran         \* whether the action's handler has ever started

gateVars == <<decision, ran>>

Decisions == {"none", "waiting", "approved", "exempt", "closed"}

GateTypeOK ==
    /\ decision \in [Actions -> Decisions]
    /\ ran \in [Actions -> BOOLEAN]

Init ==
    /\ decision = [a \in Actions |-> "none"]
    /\ ran = [a \in Actions |-> FALSE]

Decide(a, from, to) ==
    /\ decision[a] = from
    /\ decision' = [decision EXCEPT ![a] = to]
    /\ UNCHANGED ran

(* Policy asks a person, lets the action run unasked, or denies it. *)
Ask(a)    == Decide(a, "none", "waiting")
Exempt(a) == Decide(a, "none", "exempt")
Deny(a)   == Decide(a, "none", "closed")

Approve(a) == Decide(a, "waiting", "approved")

(* Any number of actions close at once: a cancellation closes one, listing *)
(* the queue closes every one past its deadline, and a restart closes all  *)
(* that were under way.                                                    *)
Close ==
    /\ UNCHANGED ran
    /\ \A a \in Actions : decision'[a] \in {decision[a], "closed"}
    /\ decision' = [a \in Actions |-> decision'[a]]

Run(a) ==
    /\ decision[a] \in {"approved", "exempt"}
    /\ ~ ran[a]
    /\ ran' = [ran EXCEPT ![a] = TRUE]
    /\ UNCHANGED decision

Next ==
    \/ \E a \in Actions : Ask(a) \/ Exempt(a) \/ Deny(a) \/ Approve(a) \/ Run(a)
    \/ Close

Spec == Init /\ [][Next]_gateVars
=============================================================================

-------------------------- MODULE MCActionPipeline --------------------------
(***************************************************************************)
(* The instance of ActionPipeline that TLC checks: a command that needs    *)
(* approval, with two requests about it, beside a command that does not,   *)
(* so that a confirmed call can meet a full pool and an approval's         *)
(* indicator changes can meet another command's.  The tools are one of     *)
(* each kind the registry can hold: a legacy approval tool (clear_logs), a *)
(* legacy safe one (open_app), one whose declared risk asks for less than  *)
(* its permission level, and one declared destructive.                     *)
(***************************************************************************)
EXTENDS ActionPipeline, TLC

CONSTANTS a1, a2, r1, r2, clear_logs, open_app, underdeclared, destructive

MCTools == {clear_logs, open_app, underdeclared, destructive}

MCMatch == (a1 :> {clear_logs}) @@ (a2 :> MCTools \ {clear_logs})

MCAim == (r1 :> {a1}) @@ (r2 :> {a1})

MCPermission ==
    [t \in MCTools |-> IF t = open_app THEN "safe" ELSE "approval_required"]

MCDeclaredRisk ==
    [t \in MCTools |->
        CASE t = underdeclared -> "read_only"
          [] t = destructive   -> "destructive"
          [] OTHER             -> NoRisk]
=============================================================================

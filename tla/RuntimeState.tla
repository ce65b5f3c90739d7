---------------------------- MODULE RuntimeState ----------------------------
(***************************************************************************)
(* The table of app/core/runtime_state.py: the one state JARVIS as a whole *)
(* is in, and which state may follow which.  It is a constant module: the  *)
(* modules whose code calls runtime.try_transition() keep the variable and *)
(* take their next value from here.                                        *)
(***************************************************************************)

(* class RuntimeState: the ten states of the dashboard's indicator. *)
RuntimeStates ==
    {"booting", "standby", "listening", "transcribing", "thinking",
     "awaiting_approval", "executing", "speaking", "error", "offline"}

(* _TRANSITIONS: every legal successor.  ERROR and OFFLINE are reachable   *)
(* from every working state.                                               *)
Successors ==
    [s \in RuntimeStates |->
        CASE s = "booting"      -> {"standby", "error", "offline"}
          [] s = "standby"      -> RuntimeStates \ {"standby", "booting"}
          [] s = "listening"    -> {"transcribing", "standby", "error", "offline"}
          [] s = "transcribing" -> {"thinking", "standby", "error", "offline"}
          [] s = "thinking"     -> {"awaiting_approval", "executing", "speaking",
                                    "standby", "error", "offline"}
          [] s = "awaiting_approval" -> {"executing", "standby", "error", "offline"}
          [] s = "executing"    -> {"speaking", "standby", "error", "offline"}
          [] s = "speaking"     -> {"standby", "listening", "error", "offline"}
          [] s = "error"        -> {"standby", "offline"}
          [] OTHER              -> {"booting"}]

(* RuntimeStateMachine.transition: legal from here or InvalidTransitionError. *)
Legal(current, target) == target \in Successors[current]

(* RuntimeStateMachine.try_transition: an illegal transition is logged and *)
(* skipped, never raised at the caller.                                    *)
TryTransition(current, target) ==
    IF Legal(current, target) THEN target ELSE current
=============================================================================

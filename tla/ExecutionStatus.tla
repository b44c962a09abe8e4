--------------------------- MODULE ExecutionStatus ---------------------------
(***************************************************************************)
(* The status machine of a workflow execution: the `ExecutionStatus` enum  *)
(* and the legal-transition table of WorkflowExecutionState.  Every status *)
(* change of an execution goes through `transition`, which refuses what    *)
(* the table does not list and leaves the status alone.                    *)
(*                                                                         *)
(* `Stopped` is in the table but no operation of the modelled components   *)
(* targets it (stop() records Cancelled).                                  *)
(***************************************************************************)

Status == {"Created", "Running", "Paused", "Completed", "Failed",
           "Cancelled", "Stopped", "Timeout"}

\* ExecutionStatus::is_terminal
Terminal == {"Completed", "Failed", "Cancelled", "Stopped", "Timeout"}

\* A table in which a failure overrides any verdict.
TransitionAllowed_FailAlways(s, t) ==
    \/ t = "Failed"
    \/ s = "Created" /\ t \in {"Running", "Paused", "Cancelled", "Stopped"}
    \/ s = "Running" /\ t \in Status \ {"Created"}
    \/ s = "Paused"  /\ t \in {"Running", "Cancelled", "Stopped", "Timeout"}

\* A table in which a completed execution may be re-entered.
TransitionAllowed_Reentrant(s, t) ==
    \/ s = "Created" /\ t \in {"Running", "Paused", "Cancelled", "Stopped"}
    \/ s \in {"Running", "Completed"} /\ t \in Status \ {"Created"}
    \/ s = "Paused"  /\ t \in {"Running", "Failed", "Cancelled", "Stopped", "Timeout"}

\* WorkflowExecutionState::transition_allowed
TransitionAllowed(s, t) ==
    \/ s = "Created" /\ t \in {"Running", "Paused", "Cancelled", "Stopped"}
    \/ s = "Running" /\ t \in Status \ {"Created"}
    \/ s = "Paused"  /\ t \in {"Running", "Failed", "Cancelled", "Stopped", "Timeout"}

\* The status after transition(t) whose error the caller drops (`let _ =`).
AfterTransition(s, t) == IF TransitionAllowed(s, t) THEN t ELSE s

==============================================================================

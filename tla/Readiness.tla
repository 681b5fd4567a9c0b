----------------------------- MODULE Readiness ------------------------------
(***************************************************************************)
(* ReadinessTracker of src/src/lsp.rs: what a server has said of the work  *)
(* it is doing, the state Deixis makes of it, and what that state says of  *)
(* an empty result.  A progress token stands for itself; the report and    *)
(* the begin of one are the same to the tracker.                           *)
(***************************************************************************)

NoStatus == [health |-> "none", quiescent |-> FALSE]

NewTracker == [
  initialized |-> FALSE,
  progressSeen |-> FALSE,
  active |-> {},               \* active_progress
  status |-> NoStatus]         \* server_status

MarkInitialized(tracker) == [tracker EXCEPT !.initialized = TRUE]

StartProgress(tracker, token) ==
  [tracker EXCEPT !.progressSeen = TRUE, !.active = @ \cup {token}]

\* The end of a token that was never begun counts as progress seen.
FinishProgress(tracker, token) ==
  [tracker EXCEPT !.progressSeen = TRUE, !.active = @ \ {token}]

\* A health of another name is ignored.
RecordServerStatus(tracker, health, quiescent) ==
  IF health \in {"ok", "warning", "error"}
    THEN [tracker EXCEPT !.status = [health |-> health,
                                     quiescent |-> quiescent]]
    ELSE tracker

\* The first line that applies decides.
State(tracker) ==
  IF ~tracker.initialized THEN "Starting"
  ELSE IF tracker.status.health \in {"warning", "error"} THEN "Degraded"
  ELSE IF tracker.active # {} THEN "Busy"
  ELSE IF tracker.status # NoStatus
    THEN IF tracker.status.quiescent THEN "Ready" ELSE "Busy"
  ELSE IF tracker.progressSeen THEN "Ready"
  ELSE "Unknown"

ResultStability(state) ==
  CASE state = "Ready" -> "stable"
    [] state \in {"Starting", "Busy"} -> "transient"
    [] OTHER -> "indeterminate"
=============================================================================

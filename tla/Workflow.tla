------------------------------ MODULE Workflow ------------------------------
(***************************************************************************)
(* The status graph of an issue (internal/domain/enums.go) and the three   *)
(* pure tables every writer of a status consults: which moves the graph    *)
(* offers, which event a move emits, and when a git-driven move would be a  *)
(* no-op or a step back.  No state: the modules that move issues extend it. *)
(***************************************************************************)
EXTENDS Naturals

Status == {"open", "in_progress", "blocked", "ready_for_review",
           "resolved", "closed", "reopened"}

\* domain.ClosedStatuses and domain.OpenStatuses: finished, and still in flight.
ClosedStatuses == {"resolved", "closed"}
OpenStatuses == Status \ ClosedStatuses

validTransitions ==
  [from \in Status |->
    CASE from = "open"             -> {"in_progress", "blocked", "resolved", "closed"}
      [] from = "in_progress"      -> {"blocked", "ready_for_review", "resolved", "open"}
      [] from = "blocked"          -> {"in_progress", "open", "closed"}
      [] from = "ready_for_review" -> {"in_progress", "resolved", "closed"}
      [] from = "resolved"         -> {"closed", "reopened"}
      [] from = "closed"           -> {"reopened"}
      [] from = "reopened"         -> {"in_progress", "resolved", "closed", "blocked"}]

\* Asking for the status an issue already has is always allowed.
CanTransition(from, to) == from = to \/ to \in validTransitions[from]

StatusEvents == {"issue.resolved", "issue.closed", "issue.reopened", "issue.status_changed"}

\* The event a move into status s emits, on the worker's paths (statusEvent) and on
\* the service's (the switch in Issues.Transition).
statusEvent(s) ==
  CASE s = "resolved" -> "issue.resolved"
    [] s = "closed"   -> "issue.closed"
    [] s = "reopened" -> "issue.reopened"
    [] OTHER          -> "issue.status_changed"

\* The lifecycle stage git ingest compares: only the finished statuses rank.
stage(s) == CASE s = "resolved" -> 1 [] s = "closed" -> 2 [] OTHER -> 0

isAtOrPast(cur, target) == stage(target) > 0 /\ stage(cur) >= stage(target)
=============================================================================

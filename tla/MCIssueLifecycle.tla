-------------------------- MODULE MCIssueLifecycle --------------------------
(***************************************************************************)
(* Model values and symmetry for checking IssueLifecycle.                  *)
(***************************************************************************)
EXTENDS IssueLifecycle, TLC

CONSTANTS i1, p1, p2, g1, g2

\* Requests are interchangeable, and so are git references.  Used by the runs that
\* check no liveness.
Symmetry == Permutations(Movers) \cup Permutations(GitJobs)
=============================================================================

--------------------------- MODULE IssueLifecycle ---------------------------
(***************************************************************************)
(* One row of the issues table per member of Issues, and every writer of   *)
(* its lifecycle columns: people and automation rules moving it through    *)
(* the workflow, git ingest, the observability ingest, archive, snooze and *)
(* delete, and the worker's two periodic sweeps.  Handlers are split where *)
(* the code is: what they read in one query, they act on in a later        *)
(* transaction.                                                            *)
(*                                                                         *)
(* The outbox is kept as what a subscriber reading it in commit order      *)
(* would believe: per issue, the newest committed event of each family     *)
(* (status, shelf, snooze).                                                *)
(***************************************************************************)
EXTENDS Workflow, Integers

CONSTANTS
  Issues,       \* issue ids
  Movers,       \* concurrent requests and rule runs that move an issue
  GitJobs,      \* concurrent git_ingest references
  MaxTime,      \* bound of the model's clock
  ArchiveDays,  \* archive.auto_after_days; 0 turns the sweep off
  SnoozeTimes,  \* the times people snooze issues until
  NULL          \* SQL NULL; also a mover or git job with nothing in hand

Time == 0..MaxTime

ASSUME LifecycleAssumption ==
  /\ MaxTime \in Nat
  /\ ArchiveDays \in Nat
  /\ SnoozeTimes \subseteq Time
  /\ NULL \notin Int

Presence == {"absent", "live", "deleted"}
Shelf == {"no", "user", "sweep"}
MoveEvents == StatusEvents \cup {"none", "issue.created"}
ShelfEvents == {"none", "issue.archived", "issue.unarchived"}
SnoozeEvents == {"none", "issue.snoozed", "issue.woke"}

\* What a request carries from its read to its write: the issue, the status it saw, the
\* status it wants and when it read.  A git job carries no status it saw, and no status
\* at all when the commit is only to be linked.
Move == [issue : Issues, from : Status, to : Status, readAt : Time]
GitLink == [issue : Issues, newStatus : ClosedStatuses \cup {NULL}, readAt : Time]

VARIABLES
  row,           \* presence of the row: not inserted, live, or deleted_at set
  status,        \* issues.status
  resolvedAt,    \* issues.resolved_at
  closedAt,      \* issues.closed_at
  archived,      \* issues.archived_at, and who set it
  snoozedUntil,  \* issues.snoozed_until
  moveEvent,     \* newest status event (or issue.created) committed about the issue
  shelfEvent,    \* newest issue.archived / issue.unarchived committed about it
  snoozeEvent,   \* newest issue.snoozed / issue.woke committed about it
  moving,        \* the transition each mover has read for and not yet written
  linking,       \* the reference each git job has read for and not yet written
  now            \* the database clock

rowVars == <<row, status, resolvedAt, closedAt, archived, snoozedUntil>>
eventVars == <<moveEvent, shelfEvent, snoozeEvent>>
vars == <<row, status, resolvedAt, closedAt, archived, snoozedUntil,
          moveEvent, shelfEvent, snoozeEvent, moving, linking, now>>

-----------------------------------------------------------------------------
\* Every column, event and request in hand keeps its type.
TypeOK ==
  /\ row \in [Issues -> Presence]
  /\ status \in [Issues -> Status]
  /\ resolvedAt \in [Issues -> Time \cup {NULL}]
  /\ closedAt \in [Issues -> Time \cup {NULL}]
  /\ archived \in [Issues -> Shelf]
  /\ snoozedUntil \in [Issues -> SnoozeTimes \cup {NULL}]
  /\ moveEvent \in [Issues -> MoveEvents]
  /\ shelfEvent \in [Issues -> ShelfEvents]
  /\ snoozeEvent \in [Issues -> SnoozeEvents]
  /\ moving \in [Movers -> Move \cup {NULL}]
  /\ linking \in [GitJobs -> GitLink \cup {NULL}]
  /\ now \in Time

-----------------------------------------------------------------------------
Init ==
  /\ row = [i \in Issues |-> "absent"]
  /\ status = [i \in Issues |-> "open"]
  /\ resolvedAt = [i \in Issues |-> NULL]
  /\ closedAt = [i \in Issues |-> NULL]
  /\ archived = [i \in Issues |-> "no"]
  /\ snoozedUntil = [i \in Issues |-> NULL]
  /\ moveEvent = [i \in Issues |-> "none"]
  /\ shelfEvent = [i \in Issues |-> "none"]
  /\ snoozeEvent = [i \in Issues |-> "none"]
  /\ moving = [p \in Movers |-> NULL]
  /\ linking = [g \in GitJobs |-> NULL]
  /\ now = 0

\* Fault: the condition this statement once had, `resolved_at IS NULL': stamped once,
\* never again.
SetIssueStatus_StampOnce(i, to, at) ==
  /\ status' = [status EXCEPT ![i] = to]
  /\ resolvedAt' = [resolvedAt EXCEPT ![i] =
       IF to \in ClosedStatuses /\ resolvedAt[i] = NULL THEN at ELSE @]
  /\ closedAt' = [closedAt EXCEPT ![i] = IF to = "closed" THEN at ELSE @]

\* Fault: only the move to resolved counts as a resolution.
SetIssueStatus_ClosedIsNotResolved(i, to, at) ==
  /\ status' = [status EXCEPT ![i] = to]
  /\ resolvedAt' = [resolvedAt EXCEPT ![i] = IF to = "resolved" THEN at ELSE @]
  /\ closedAt' = [closedAt EXCEPT ![i] = IF to = "closed" THEN at ELSE @]

\* setIssueStatusSQL, for a row the WHERE clause matched.  Postgres's now() is when
\* the transaction began, so `at' may be older than the clock.
SetIssueStatus(i, to, at) ==
  /\ status' = [status EXCEPT ![i] = to]
  /\ resolvedAt' = [resolvedAt EXCEPT ![i] =
       IF to \in ClosedStatuses /\ status[i] \notin ClosedStatuses THEN at ELSE @]
  /\ closedAt' = [closedAt EXCEPT ![i] = IF to = "closed" THEN at ELSE @]

\* CreateIssue, and IngestObsAlert for a fingerprint nobody has filed yet.
CreateIssue(i) ==
  /\ row[i] = "absent"
  /\ row' = [row EXCEPT ![i] = "live"]
  /\ moveEvent' = [moveEvent EXCEPT ![i] = "issue.created"]
  /\ UNCHANGED <<status, resolvedAt, closedAt, archived, snoozedUntil,
                 shelfEvent, snoozeEvent, moving, linking, now>>

\* The reading half of a transition: the handler (one issue or a bulk edit) and the
\* rule action set_status load the issue and check the graph in Go.
ReadForMove(p, i, to) ==
  /\ moving[p] = NULL
  /\ row[i] = "live"
  /\ CanTransition(status[i], to)
  /\ moving' = [moving EXCEPT ![p] =
       [issue |-> i, from |-> status[i], to |-> to, readAt |-> now]]
  /\ UNCHANGED <<rowVars, eventVars, linking, now>>

\* Fault: no compare-and-set, the check made in Go is only advisory.
StillThere_NoCompareAndSet(m) == row[m.issue] = "live"

\* Fault: the statement forgets deleted_at.
StillThere_DeletedToo(m) == status[m.issue] = m.from

\* The row the compare-and-set of TransitionIssue matches.
StillThere(m) == row[m.issue] = "live" /\ status[m.issue] = m.from

\* TransitionIssue.  No matching row (ErrNoRows, ErrStaleStatus) rolls back.
TransitionIssue(p) ==
  LET m == moving[p] IN
  /\ m # NULL
  /\ moving' = [moving EXCEPT ![p] = NULL]
  /\ \/ /\ StillThere(m)
        /\ \E at \in m.readAt..now : SetIssueStatus(m.issue, m.to, at)
        /\ moveEvent' = [moveEvent EXCEPT ![m.issue] = statusEvent(m.to)]
     \/ /\ ~StillThere(m)
        /\ UNCHANGED <<status, resolvedAt, closedAt, moveEvent>>
  /\ UNCHANGED <<row, archived, snoozedUntil, shelfEvent, snoozeEvent, linking, now>>

\* Fault: a refused move keeps the status it read instead of becoming a plain link.
ReadRef_KeepsStatus(g, i, want) ==
  /\ linking[g] = NULL
  /\ row[i] = "live"
  /\ linking' = [linking EXCEPT ![g] =
       [issue |-> i, newStatus |-> IF want = NULL THEN status[i] ELSE want, readAt |-> now]]
  /\ UNCHANGED <<rowVars, eventVars, moving, now>>

\* The reading half of git ingest's applyRef.  `want' is what the commit or pull
\* request asks for under the configuration: resolve, close, or link only.
ReadRef(g, i, want) ==
  /\ linking[g] = NULL
  /\ row[i] = "live"
  /\ LET applies == want # NULL /\ ~isAtOrPast(status[i], want) /\ CanTransition(status[i], want)
     IN linking' = [linking EXCEPT ![g] =
          [issue |-> i, newStatus |-> IF applies THEN want ELSE NULL, readAt |-> now]]
  /\ UNCHANGED <<rowVars, eventVars, moving, now>>

\* ApplyGitLink: the same statement without the compare-and-set.  The event goes out
\* even when the row has been deleted since and the UPDATE matched nothing.
ApplyGitLink(g) ==
  LET l == linking[g] IN
  /\ l # NULL
  /\ linking' = [linking EXCEPT ![g] = NULL]
  /\ \/ /\ l.newStatus # NULL /\ row[l.issue] = "live"
        /\ \E at \in l.readAt..now : SetIssueStatus(l.issue, l.newStatus, at)
     \/ /\ l.newStatus = NULL \/ row[l.issue] # "live"
        /\ UNCHANGED <<status, resolvedAt, closedAt>>
  /\ moveEvent' = IF l.newStatus = NULL THEN moveEvent
                  ELSE [moveEvent EXCEPT ![l.issue] = statusEvent(l.newStatus)]
  /\ UNCHANGED <<row, archived, snoozedUntil, shelfEvent, snoozeEvent, moving, now>>

\* Fault: a regression is published as one more occurrence.
IngestObsAlert_Quiet(i) ==
  /\ row[i] = "live"
  /\ status' = [status EXCEPT ![i] = IF @ \in ClosedStatuses THEN "reopened" ELSE @]
  /\ UNCHANGED <<row, resolvedAt, closedAt, archived, snoozedUntil,
                 eventVars, moving, linking, now>>

\* IngestObsAlert for a known fingerprint.  The row is locked FOR UPDATE, so reading
\* and writing are one step; a finished issue comes back as a regression, any other
\* only counts another occurrence (issue.updated, not a status event).
IngestObsAlert(i) ==
  /\ row[i] = "live"
  /\ LET regressed == status[i] \in ClosedStatuses IN
       /\ status' = [status EXCEPT ![i] = IF regressed THEN "reopened" ELSE @]
       /\ moveEvent' = [moveEvent EXCEPT ![i] = IF regressed THEN "issue.reopened" ELSE @]
  /\ UNCHANGED <<row, resolvedAt, closedAt, archived, snoozedUntil,
                 shelfEvent, snoozeEvent, moving, linking, now>>

\* SetIssueArchived: archive or restore by hand, whatever the status.
SetIssueArchived(i, on) ==
  /\ row[i] = "live"
  /\ archived' = [archived EXCEPT ![i] = IF on THEN "user" ELSE "no"]
  /\ shelfEvent' = [shelfEvent EXCEPT ![i] =
                      IF on THEN "issue.archived" ELSE "issue.unarchived"]
  /\ UNCHANGED <<row, status, resolvedAt, closedAt, snoozedUntil,
                 moveEvent, snoozeEvent, moving, linking, now>>

\* Fault: closed_at alone decides, as it did before the status predicate.
Stale_DateOnly(i) ==
  /\ row[i] = "live" /\ archived[i] = "no"
  /\ closedAt[i] # NULL /\ closedAt[i] + ArchiveDays < now

\* Fault: what is on the shelf already is shelved again.
Stale_Again(i) ==
  /\ row[i] = "live" /\ status[i] \in ClosedStatuses
  /\ closedAt[i] # NULL /\ closedAt[i] + ArchiveDays < now

\* What the auto-archive statement selects: live, not on the shelf, finished now, and
\* closed longer ago than the window.
Stale(i) ==
  /\ row[i] = "live" /\ archived[i] = "no"
  /\ status[i] \in ClosedStatuses
  /\ closedAt[i] # NULL /\ closedAt[i] + ArchiveDays < now

\* autoArchiveWorker: one set-based statement over every stale issue.  It writes the
\* timeline and publishes nothing.
ArchiveStaleClosed ==
  /\ ArchiveDays > 0
  /\ \E i \in Issues : Stale(i)
  /\ archived' = [i \in Issues |-> IF Stale(i) THEN "sweep" ELSE archived[i]]
  /\ UNCHANGED <<row, status, resolvedAt, closedAt, snoozedUntil,
                 eventVars, moving, linking, now>>

\* snoozeIssue.  The handler refused a time that had passed when it looked; by the
\* time it writes the clock may have reached it (a request outlives at most one tick).
SnoozeIssue(i, until) ==
  /\ row[i] = "live"
  /\ until >= now
  /\ snoozedUntil' = [snoozedUntil EXCEPT ![i] = until]
  /\ snoozeEvent' = [snoozeEvent EXCEPT ![i] = "issue.snoozed"]
  /\ UNCHANGED <<row, status, resolvedAt, closedAt, archived,
                 moveEvent, shelfEvent, moving, linking, now>>

\* wakeIssue: SetIssueSnooze with no date.
WakeIssue(i) ==
  /\ row[i] = "live"
  /\ snoozedUntil' = [snoozedUntil EXCEPT ![i] = NULL]
  /\ snoozeEvent' = [snoozeEvent EXCEPT ![i] = "issue.woke"]
  /\ UNCHANGED <<row, status, resolvedAt, closedAt, archived,
                 moveEvent, shelfEvent, moving, linking, now>>

\* Fault: the sweep skips archived issues.
Due_SkipsShelf(i) ==
  row[i] = "live" /\ archived[i] = "no" /\ snoozedUntil[i] # NULL /\ snoozedUntil[i] <= now

\* What the wake statement selects.
Due(i) == row[i] = "live" /\ snoozedUntil[i] # NULL /\ snoozedUntil[i] <= now

\* Fault: the snoozes are cleared and the announcement is lost.
WakeSnoozedIssues_Silent ==
  /\ \E i \in Issues : Due(i)
  /\ snoozedUntil' = [i \in Issues |-> IF Due(i) THEN NULL ELSE snoozedUntil[i]]
  /\ UNCHANGED <<row, status, resolvedAt, closedAt, archived,
                 eventVars, moving, linking, now>>

\* wakeSnoozedWorker: clears and announces every due snooze in one transaction.
WakeSnoozedIssues ==
  /\ \E i \in Issues : Due(i)
  /\ snoozedUntil' = [i \in Issues |-> IF Due(i) THEN NULL ELSE snoozedUntil[i]]
  /\ snoozeEvent' = [i \in Issues |-> IF Due(i) THEN "issue.woke" ELSE snoozeEvent[i]]
  /\ UNCHANGED <<row, status, resolvedAt, closedAt, archived,
                 moveEvent, shelfEvent, moving, linking, now>>

\* SoftDeleteIssue: a second delete that read the issue before the first is a no-op
\* on the row.
SoftDeleteIssue(i) ==
  /\ row[i] # "absent"
  /\ row' = [row EXCEPT ![i] = "deleted"]
  /\ UNCHANGED <<status, resolvedAt, closedAt, archived, snoozedUntil,
                 eventVars, moving, linking, now>>

Tick ==
  /\ now < MaxTime
  /\ now' = now + 1
  /\ UNCHANGED <<rowVars, eventVars, moving, linking>>

Next ==
  \/ \E i \in Issues : CreateIssue(i)
  \/ \E p \in Movers, i \in Issues, to \in Status : ReadForMove(p, i, to)
  \/ \E p \in Movers : TransitionIssue(p)
  \/ \E g \in GitJobs, i \in Issues, want \in ClosedStatuses \cup {NULL} : ReadRef(g, i, want)
  \/ \E g \in GitJobs : ApplyGitLink(g)
  \/ \E i \in Issues : IngestObsAlert(i)
  \/ \E i \in Issues, on \in BOOLEAN : SetIssueArchived(i, on)
  \/ ArchiveStaleClosed
  \/ \E i \in Issues, until \in SnoozeTimes : SnoozeIssue(i, until)
  \/ \E i \in Issues : WakeIssue(i)
  \/ WakeSnoozedIssues
  \/ \E i \in Issues : SoftDeleteIssue(i)
  \/ Tick

\* Time passes and River runs the wake sweep every 15 minutes; nothing obliges a
\* person, a rule, a repository or an alert to act.
Fairness == WF_vars(Tick) /\ WF_vars(WakeSnoozedIssues)

Spec == Init /\ [][Next]_vars /\ Fairness

-----------------------------------------------------------------------------
\* A subscriber that follows the status events of an issue in commit order knows its
\* status as far as the events tell statuses apart, whichever path moved it: a person,
\* a rule, a commit or an alert (worker statusEvent, Issues.Transition, IngestObsAlert).
SubscriberSeesStatus ==
  \A i \in Issues : row[i] = "live" =>
    \/ moveEvent[i] = statusEvent(status[i])
    \/ moveEvent[i] = "issue.created" /\ status[i] = "open"

\* The newest snooze event of a live issue says whether it is snoozed: a wake by the
\* sweep is announced in the transaction that clears the snooze, as a wake by hand is.
SubscriberSeesSnooze ==
  \A i \in Issues : row[i] = "live" =>
    (snoozedUntil[i] # NULL <=> snoozeEvent[i] = "issue.snoozed")

\* Shelving by hand is announced, and an issue announced as archived is archived: only
\* the sweep moves an issue to the shelf without a word.
ManualShelfAnnounced ==
  \A i \in Issues :
    /\ archived[i] = "user" => shelfEvent[i] = "issue.archived"
    /\ shelfEvent[i] = "issue.archived" => archived[i] = "user"

\* Reports, SLA clocks and the archive sweep read the two dates, so every path that
\* finishes an issue must have stamped them: a finished issue has a resolution date
\* and a closed one a closing date (setIssueStatusSQL, shared by people and git).
FinishedIsStamped ==
  \A i \in Issues :
    /\ status[i] \in ClosedStatuses => resolvedAt[i] # NULL
    /\ status[i] = "closed" => closedAt[i] # NULL

\* resolved_at dates the current resolution: it moves exactly when an issue in flight
\* becomes finished, to a time of the request that finished it, and neither a regression
\* nor resolved -> closed nor the forbidden closed -> resolved of a late commit moves it.
ResolutionDates ==
  [][\A i \in Issues :
       LET finishes == status[i] \in OpenStatuses /\ status'[i] \in ClosedStatuses IN
       /\ resolvedAt'[i] # resolvedAt[i] => finishes
       /\ finishes => \E m \in {moving[p] : p \in Movers} \cup {linking[g] : g \in GitJobs} :
            m # NULL /\ m.issue = i /\ resolvedAt'[i] \in m.readAt..now]_vars

\* Concurrent requests, rule runs and alerts never take an issue along an edge the
\* graph does not have, however their reads and writes interleave; only a git job,
\* whose write has no compare-and-set, can.
OnlyGitLeavesGraph ==
  [][\A i \in Issues : ~CanTransition(status[i], status'[i]) =>
       \E g \in GitJobs : linking[g] # NULL /\ linking[g].issue = i /\ linking'[g] = NULL]_vars

\* No step lands a status change the workflow graph forbids.  jobs.go says so of git
\* ingest (`don't make a move the workflow forbids'); the write does not ensure it.
WorkflowRespected ==
  [][\A i \in Issues : CanTransition(status[i], status'[i])]_vars

\* A deleted issue is frozen: requests, commits, alerts and sweeps that read it before
\* the delete and write after it change none of its columns.
DeletedIsFrozen ==
  [][\A i \in Issues : row[i] = "deleted" =>
       /\ row'[i] = "deleted"
       /\ <<status[i], resolvedAt[i], closedAt[i], archived[i], snoozedUntil[i]>>' =
            <<status[i], resolvedAt[i], closedAt[i], archived[i], snoozedUntil[i]>>]_vars

\* In flight, yet on the shelf the sweep put it on: no default list shows it.
Hidden(i) == row[i] = "live" /\ status[i] \in OpenStatuses /\ archived[i] = "sweep"

\* The sweep never hides work in flight, not even a regression that still carries the
\* closing date of its first life (ArchiveStaleClosed); what hides it is coming back to
\* life on the shelf.
OnlyReopeningHidesWork ==
  [][\A i \in Issues : Hidden(i)' /\ ~Hidden(i) =>
       archived[i] = "sweep" /\ status[i] \in ClosedStatuses]_vars

\* Work in flight is never hidden by the sweep: only a person puts it on the shelf.
\* ArchiveStaleClosed's comment calls the contrary a bug; a regression on a swept issue
\* is one.
LiveWorkStaysVisible == \A i \in Issues : ~Hidden(i)

\* A snooze is a promise: every snoozed issue wakes, or is woken or deleted first.
SnoozeEnds ==
  \A i \in Issues : snoozedUntil[i] # NULL ~> (snoozedUntil[i] = NULL \/ row[i] = "deleted")
=============================================================================

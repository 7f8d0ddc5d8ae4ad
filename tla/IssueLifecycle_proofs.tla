----------------------- MODULE IssueLifecycle_proofs ------------------------
(***************************************************************************)
(* IssueLifecycle keeps its invariants for every set of issues, requests   *)
(* and git jobs, every clock and every archive window.                     *)
(***************************************************************************)
EXTENDS IssueLifecycle, TLAPS

-----------------------------------------------------------------------------
(* The workflow tables. *)

\* Every move emits one of the four status events.
LEMMA StatusEventType ==
  ASSUME NEW s \in Status
  PROVE  statusEvent(s) \in StatusEvents
BY DEF Status, statusEvent, StatusEvents

\* A regression is a move the graph offers: an alert that fires again never needs the
\* exemption a commit takes.
LEMMA RegressionIsLegal ==
  ASSUME NEW s \in ClosedStatuses
  PROVE  /\ "reopened" \in Status
         /\ CanTransition(s, "reopened")
BY DEF ClosedStatuses, CanTransition, validTransitions, Status

\* An issue may always be moved to the status it has.
LEMMA StayingIsLegal ==
  ASSUME NEW s
  PROVE  CanTransition(s, s)
BY DEF CanTransition

-----------------------------------------------------------------------------
(* Types. *)

\* The stamp a write takes is a time: requests carry the time of their read.
LEMMA StampIsTime ==
  ASSUME TypeOK, NEW t \in Time, NEW at \in t..now
  PROVE  at \in Time
BY LifecycleAssumption DEF TypeOK, Time

\* The shared status statement keeps the three columns it writes well typed.
LEMMA SetIssueStatusType ==
  ASSUME TypeOK,
         NEW i \in Issues, NEW to \in Status, NEW at \in Time,
         SetIssueStatus(i, to, at)
  PROVE  /\ status' \in [Issues -> Status]
         /\ resolvedAt' \in [Issues -> Time \cup {NULL}]
         /\ closedAt' \in [Issues -> Time \cup {NULL}]
BY DEF TypeOK, SetIssueStatus

\* Every step of every writer keeps the types.
LEMMA TypeStep == TypeOK /\ [Next]_vars => TypeOK'
<1> SUFFICES ASSUME TypeOK, [Next]_vars PROVE TypeOK'
  OBVIOUS
<1> USE DEF TypeOK
<1>1. ASSUME NEW i \in Issues, CreateIssue(i) PROVE TypeOK'
  BY <1>1 DEF CreateIssue, Presence, MoveEvents
<1>2. ASSUME NEW p \in Movers, NEW i \in Issues, NEW to \in Status, ReadForMove(p, i, to)
      PROVE TypeOK'
  BY <1>2 DEF ReadForMove, Move, rowVars, eventVars
<1>3. ASSUME NEW p \in Movers, TransitionIssue(p) PROVE TypeOK'
  <2> DEFINE m == moving[p]
  <2>1. m \in Move
    BY <1>3 DEF TransitionIssue
  <2>2. m.issue \in Issues /\ m.to \in Status /\ m.readAt \in Time
    BY <2>1 DEF Move
  <2>3. /\ status' \in [Issues -> Status]
        /\ resolvedAt' \in [Issues -> Time \cup {NULL}]
        /\ closedAt' \in [Issues -> Time \cup {NULL}]
    <3>1. CASE StillThere(m)
      <4>1. PICK at \in m.readAt..now : SetIssueStatus(m.issue, m.to, at)
        BY <1>3, <3>1 DEF TransitionIssue
      <4>2. at \in Time
        BY <2>2, StampIsTime
      <4> QED
        BY <2>2, <4>1, <4>2, SetIssueStatusType
    <3>2. CASE ~StillThere(m)
      BY <1>3, <3>2 DEF TransitionIssue
    <3> QED
      BY <3>1, <3>2
  <2>4. moveEvent' \in [Issues -> MoveEvents]
    BY <1>3, <2>2, StatusEventType DEF TransitionIssue, MoveEvents
  <2>5. moving' \in [Movers -> Move \cup {NULL}]
    BY <1>3 DEF TransitionIssue
  <2> QED
    BY <1>3, <2>3, <2>4, <2>5 DEF TransitionIssue
<1>4. ASSUME NEW g \in GitJobs, NEW i \in Issues, NEW want \in ClosedStatuses \cup {NULL},
             ReadRef(g, i, want)
      PROVE TypeOK'
  <2>1. PICK s \in ClosedStatuses \cup {NULL} :
          linking' = [linking EXCEPT ![g] = [issue |-> i, newStatus |-> s, readAt |-> now]]
    BY <1>4 DEF ReadRef
  <2> QED
    BY <1>4, <2>1 DEF ReadRef, GitLink, rowVars, eventVars
<1>5. ASSUME NEW g \in GitJobs, ApplyGitLink(g) PROVE TypeOK'
  <2> DEFINE l == linking[g]
  <2>1. l \in GitLink
    BY <1>5 DEF ApplyGitLink
  <2>2. l.issue \in Issues /\ l.newStatus \in ClosedStatuses \cup {NULL} /\ l.readAt \in Time
    BY <2>1 DEF GitLink
  <2>3. l.newStatus # NULL => l.newStatus \in Status
    BY <2>2 DEF ClosedStatuses, Status
  <2>4. /\ status' \in [Issues -> Status]
        /\ resolvedAt' \in [Issues -> Time \cup {NULL}]
        /\ closedAt' \in [Issues -> Time \cup {NULL}]
    <3>1. CASE l.newStatus # NULL /\ row[l.issue] = "live"
      <4>1. PICK at \in l.readAt..now : SetIssueStatus(l.issue, l.newStatus, at)
        BY <1>5, <3>1 DEF ApplyGitLink
      <4>2. at \in Time
        BY <2>2, StampIsTime
      <4> QED
        BY <2>2, <2>3, <3>1, <4>1, <4>2, SetIssueStatusType
    <3>2. CASE ~(l.newStatus # NULL /\ row[l.issue] = "live")
      BY <1>5, <3>2 DEF ApplyGitLink
    <3> QED
      BY <3>1, <3>2
  <2>5. moveEvent' \in [Issues -> MoveEvents]
    BY <1>5, <2>2, <2>3, StatusEventType DEF ApplyGitLink, MoveEvents
  <2>6. linking' \in [GitJobs -> GitLink \cup {NULL}]
    BY <1>5 DEF ApplyGitLink
  <2> QED
    BY <1>5, <2>4, <2>5, <2>6 DEF ApplyGitLink
<1>6. ASSUME NEW i \in Issues, IngestObsAlert(i) PROVE TypeOK'
  BY <1>6 DEF IngestObsAlert, Status, MoveEvents, StatusEvents
<1>7. ASSUME NEW i \in Issues, NEW on \in BOOLEAN, SetIssueArchived(i, on) PROVE TypeOK'
  BY <1>7 DEF SetIssueArchived, Shelf, ShelfEvents
<1>8. CASE ArchiveStaleClosed
  BY <1>8 DEF ArchiveStaleClosed, Shelf, eventVars
<1>9. ASSUME NEW i \in Issues, NEW until \in SnoozeTimes, SnoozeIssue(i, until) PROVE TypeOK'
  BY <1>9 DEF SnoozeIssue, SnoozeEvents
<1>10. ASSUME NEW i \in Issues, WakeIssue(i) PROVE TypeOK'
  BY <1>10 DEF WakeIssue, SnoozeEvents
<1>11. CASE WakeSnoozedIssues
  BY <1>11 DEF WakeSnoozedIssues, SnoozeEvents
<1>12. ASSUME NEW i \in Issues, SoftDeleteIssue(i) PROVE TypeOK'
  BY <1>12 DEF SoftDeleteIssue, Presence, eventVars
<1>13. CASE Tick
  BY <1>13, LifecycleAssumption DEF Tick, Time, rowVars, eventVars
<1>14. CASE UNCHANGED vars
  BY <1>14 DEF vars
<1> QED
  BY <1>1, <1>2, <1>3, <1>4, <1>5, <1>6, <1>7, <1>8, <1>9, <1>10, <1>11, <1>12, <1>13,
     <1>14 DEF Next

\* Whatever people, rules, commits, alerts and sweeps do, every column, event and request
\* in hand keeps its type.
THEOREM TypeInvariant == Spec => []TypeOK
<1>1. Init => TypeOK
  BY LifecycleAssumption
     DEF Init, TypeOK, Time, Presence, Status, Shelf, MoveEvents, ShelfEvents, SnoozeEvents
<1> QED
  BY <1>1, TypeStep, PTL DEF Spec

-----------------------------------------------------------------------------
(* The inductive invariant.  A row that is not there has told nobody anything and     *)
(* is at the columns' defaults, and a transition in hand was legal when it was read:   *)
(* the first lets an insert establish the invariants, the second is what the           *)
(* compare-and-set turns into legality at the time of the write.                       *)

AbsentIsBlank ==
  \A i \in Issues : row[i] = "absent" =>
    /\ status[i] = "open" /\ archived[i] = "no"
    /\ snoozedUntil[i] = NULL /\ snoozeEvent[i] = "none"

InHandIsLegal ==
  \A p \in Movers : moving[p] # NULL => CanTransition(moving[p].from, moving[p].to)

IInv ==
  /\ TypeOK
  /\ AbsentIsBlank
  /\ InHandIsLegal
  /\ SubscriberSeesStatus
  /\ SubscriberSeesSnooze
  /\ ManualShelfAnnounced
  /\ FinishedIsStamped

\* No time is NULL, so a stamp is never mistaken for a missing one.
LEMMA TimeIsNotNull == \A t \in Time : t # NULL
BY LifecycleAssumption DEF Time

\* The shared statement stamps what it finishes and keeps what was stamped.
LEMMA SetIssueStatusStamps ==
  ASSUME TypeOK, FinishedIsStamped,
         NEW i \in Issues, NEW to \in Status, NEW at \in Time,
         SetIssueStatus(i, to, at)
  PROVE  FinishedIsStamped'
<1> SUFFICES ASSUME NEW j \in Issues
             PROVE  /\ status'[j] \in ClosedStatuses => resolvedAt'[j] # NULL
                    /\ status'[j] = "closed" => closedAt'[j] # NULL
  BY DEF FinishedIsStamped
<1>1. CASE j = i
  BY <1>1, TimeIsNotNull DEF TypeOK, SetIssueStatus, FinishedIsStamped, ClosedStatuses
<1>2. CASE j # i
  BY <1>2 DEF TypeOK, SetIssueStatus, FinishedIsStamped
<1> QED
  BY <1>1, <1>2

\* What a transition does to the status columns: the shared statement on a live row that
\* still has the status the request read, or nothing.
LEMMA TransitionWrites ==
  ASSUME TypeOK, NEW p \in Movers, TransitionIssue(p)
  PROVE  \/ UNCHANGED <<status, resolvedAt, closedAt, moveEvent>>
         \/ \E i \in Issues, to \in Status, at \in Time :
              /\ moving[p] # NULL
              /\ i = moving[p].issue /\ to = moving[p].to
              /\ row[i] = "live" /\ status[i] = moving[p].from
              /\ at \in moving[p].readAt..now
              /\ SetIssueStatus(i, to, at)
              /\ moveEvent' = [moveEvent EXCEPT ![i] = statusEvent(to)]
<1> DEFINE m == moving[p]
<1>1. m # NULL /\ m.issue \in Issues /\ m.to \in Status /\ m.readAt \in Time
  BY DEF TransitionIssue, TypeOK, Move
<1>2. CASE StillThere(m)
  <2>1. PICK at \in m.readAt..now : SetIssueStatus(m.issue, m.to, at)
    BY <1>2 DEF TransitionIssue
  <2>2. at \in Time
    BY <1>1, StampIsTime
  <2> QED
    BY <1>1, <1>2, <2>1, <2>2 DEF TransitionIssue, StillThere
<1>3. CASE ~StillThere(m)
  BY <1>3 DEF TransitionIssue
<1> QED
  BY <1>2, <1>3

\* What a git reference does to them: the same, whatever status the row has by now.
LEMMA GitLinkWrites ==
  ASSUME TypeOK, NEW g \in GitJobs, ApplyGitLink(g)
  PROVE  \/ /\ UNCHANGED <<status, resolvedAt, closedAt>>
            /\ \A i \in Issues : row[i] = "live" => moveEvent'[i] = moveEvent[i]
         \/ \E i \in Issues, to \in ClosedStatuses, at \in Time :
              /\ linking[g] # NULL
              /\ i = linking[g].issue /\ to = linking[g].newStatus
              /\ row[i] = "live"
              /\ at \in linking[g].readAt..now
              /\ SetIssueStatus(i, to, at)
              /\ moveEvent' = [moveEvent EXCEPT ![i] = statusEvent(to)]
<1> DEFINE l == linking[g]
<1>1. /\ l # NULL /\ l.issue \in Issues /\ l.readAt \in Time
      /\ l.newStatus \in ClosedStatuses \cup {NULL}
  BY DEF ApplyGitLink, TypeOK, GitLink
<1>2. CASE l.newStatus # NULL /\ row[l.issue] = "live"
  <2>1. PICK at \in l.readAt..now : SetIssueStatus(l.issue, l.newStatus, at)
    BY <1>2 DEF ApplyGitLink
  <2>2. at \in Time
    BY <1>1, StampIsTime
  <2> QED
    BY <1>1, <1>2, <2>1, <2>2 DEF ApplyGitLink
<1>3. CASE ~(l.newStatus # NULL /\ row[l.issue] = "live")
  BY <1>1, <1>3 DEF ApplyGitLink, TypeOK
<1> QED
  BY <1>2, <1>3

\* A finished status is a status.
LEMMA FinishedIsStatus == ClosedStatuses \subseteq Status
BY DEF ClosedStatuses, Status

-----------------------------------------------------------------------------
(* One lemma per part of the invariant. *)

\* No writer touches a row that is not there, and none removes one.
LEMMA BlankStep == TypeOK /\ AbsentIsBlank /\ [Next]_vars => AbsentIsBlank'
<1> DEFINE Blank(j) == /\ status[j] = "open" /\ archived[j] = "no"
                       /\ snoozedUntil[j] = NULL /\ snoozeEvent[j] = "none"
<1> SUFFICES ASSUME TypeOK, AbsentIsBlank, [Next]_vars, NEW j \in Issues, row'[j] = "absent"
             PROVE  Blank(j)'
  BY DEF AbsentIsBlank
<1> USE DEF AbsentIsBlank, TypeOK
<1>1. ASSUME NEW i \in Issues, CreateIssue(i) PROVE Blank(j)'
  BY <1>1 DEF CreateIssue
<1>2. ASSUME NEW p \in Movers, TransitionIssue(p) PROVE Blank(j)'
  <2>1. UNCHANGED <<row, archived, snoozedUntil, snoozeEvent>>
    BY <1>2 DEF TransitionIssue
  <2>2. status'[j] = status[j]
    BY <1>2, <2>1, TransitionWrites DEF SetIssueStatus
  <2> QED
    BY <2>1, <2>2
<1>3. ASSUME NEW g \in GitJobs, ApplyGitLink(g) PROVE Blank(j)'
  <2>1. UNCHANGED <<row, archived, snoozedUntil, snoozeEvent>>
    BY <1>3 DEF ApplyGitLink
  <2>2. status'[j] = status[j]
    BY <1>3, <2>1, GitLinkWrites DEF SetIssueStatus
  <2> QED
    BY <2>1, <2>2
<1>4. ASSUME NEW i \in Issues, IngestObsAlert(i) PROVE Blank(j)'
  BY <1>4 DEF IngestObsAlert
<1>5. ASSUME NEW i \in Issues, NEW until \in SnoozeTimes, SnoozeIssue(i, until) PROVE Blank(j)'
  BY <1>5 DEF SnoozeIssue
<1>6. ASSUME NEW i \in Issues, WakeIssue(i) PROVE Blank(j)'
  BY <1>6 DEF WakeIssue
<1>7. CASE WakeSnoozedIssues
  BY <1>7 DEF WakeSnoozedIssues, Due
<1>8. ASSUME NEW i \in Issues, SoftDeleteIssue(i) PROVE Blank(j)'
  BY <1>8 DEF SoftDeleteIssue, eventVars
<1>9. ASSUME NEW i \in Issues, NEW on \in BOOLEAN, SetIssueArchived(i, on) PROVE Blank(j)'
  BY <1>9 DEF SetIssueArchived
<1>10. CASE ArchiveStaleClosed
  BY <1>10 DEF ArchiveStaleClosed, Stale, eventVars
<1>11. CASE UNCHANGED <<row, status, archived, snoozedUntil, snoozeEvent>>
  BY <1>11
<1> QED
  BY <1>1, <1>2, <1>3, <1>4, <1>5, <1>6, <1>7, <1>8, <1>9, <1>10, <1>11
     DEF Next, vars, rowVars, eventVars, ReadForMove, ReadRef, Tick

\* A request that reads a status asks only for a move the graph has from there.
LEMMA InHandStep == TypeOK /\ InHandIsLegal /\ [Next]_vars => InHandIsLegal'
<1> SUFFICES ASSUME TypeOK, InHandIsLegal, [Next]_vars, NEW q \in Movers, moving'[q] # NULL
             PROVE  CanTransition(moving'[q].from, moving'[q].to)
  BY DEF InHandIsLegal
<1> USE DEF InHandIsLegal, TypeOK
<1>1. ASSUME NEW p \in Movers, NEW i \in Issues, NEW to \in Status, ReadForMove(p, i, to)
      PROVE CanTransition(moving'[q].from, moving'[q].to)
  BY <1>1 DEF ReadForMove
<1>2. ASSUME NEW p \in Movers, TransitionIssue(p)
      PROVE CanTransition(moving'[q].from, moving'[q].to)
  BY <1>2 DEF TransitionIssue
<1>3. CASE UNCHANGED moving
  BY <1>3
<1> QED
  BY <1>1, <1>2, <1>3
     DEF Next, vars, CreateIssue, ReadRef, ApplyGitLink, IngestObsAlert, SetIssueArchived,
         ArchiveStaleClosed, SnoozeIssue, WakeIssue, WakeSnoozedIssues, SoftDeleteIssue, Tick

\* Whoever moves an issue publishes the event of the status it lands in.
LEMMA StatusSeenStep ==
  TypeOK /\ AbsentIsBlank /\ SubscriberSeesStatus /\ [Next]_vars => SubscriberSeesStatus'
<1> DEFINE Seen(j) == \/ moveEvent[j] = statusEvent(status[j])
                      \/ moveEvent[j] = "issue.created" /\ status[j] = "open"
<1> SUFFICES ASSUME TypeOK, AbsentIsBlank, SubscriberSeesStatus, [Next]_vars,
                    NEW j \in Issues, row'[j] = "live"
             PROVE  Seen(j)'
  BY DEF SubscriberSeesStatus
<1>0. row[j] = "live" => Seen(j)
  BY DEF SubscriberSeesStatus
<1> USE DEF TypeOK
<1>1. ASSUME NEW i \in Issues, CreateIssue(i) PROVE Seen(j)'
  BY <1>0, <1>1 DEF CreateIssue, AbsentIsBlank
<1>2. ASSUME NEW p \in Movers, TransitionIssue(p) PROVE Seen(j)'
  BY <1>0, <1>2, TransitionWrites DEF TransitionIssue, SetIssueStatus
<1>3. ASSUME NEW g \in GitJobs, ApplyGitLink(g) PROVE Seen(j)'
  BY <1>0, <1>3, GitLinkWrites DEF ApplyGitLink, SetIssueStatus
<1>4. ASSUME NEW i \in Issues, IngestObsAlert(i) PROVE Seen(j)'
  <2>1. statusEvent("reopened") = "issue.reopened"
    BY DEF statusEvent
  <2> QED
    BY <1>0, <1>4, <2>1 DEF IngestObsAlert
<1>5. ASSUME NEW i \in Issues, SoftDeleteIssue(i) PROVE Seen(j)'
  BY <1>0, <1>5 DEF SoftDeleteIssue, eventVars
<1>6. CASE UNCHANGED <<row, status, moveEvent>>
  BY <1>0, <1>6
<1> QED
  BY <1>1, <1>2, <1>3, <1>4, <1>5, <1>6
     DEF Next, vars, rowVars, eventVars, ReadForMove, ReadRef, SetIssueArchived,
         ArchiveStaleClosed, SnoozeIssue, WakeIssue, WakeSnoozedIssues, Tick

\* Setting, clearing and expiring a snooze each announce what they did.
LEMMA SnoozeSeenStep ==
  TypeOK /\ AbsentIsBlank /\ SubscriberSeesSnooze /\ [Next]_vars => SubscriberSeesSnooze'
<1> DEFINE Seen(j) == snoozedUntil[j] # NULL <=> snoozeEvent[j] = "issue.snoozed"
<1> SUFFICES ASSUME TypeOK, AbsentIsBlank, SubscriberSeesSnooze, [Next]_vars,
                    NEW j \in Issues, row'[j] = "live"
             PROVE  Seen(j)'
  BY DEF SubscriberSeesSnooze
<1>0. row[j] = "live" => Seen(j)
  BY DEF SubscriberSeesSnooze
<1> USE DEF TypeOK
<1>1. ASSUME NEW i \in Issues, CreateIssue(i) PROVE Seen(j)'
  BY <1>0, <1>1 DEF CreateIssue, AbsentIsBlank
<1>2. ASSUME NEW i \in Issues, NEW until \in SnoozeTimes, SnoozeIssue(i, until) PROVE Seen(j)'
  BY <1>0, <1>2, TimeIsNotNull, LifecycleAssumption DEF SnoozeIssue
<1>3. ASSUME NEW i \in Issues, WakeIssue(i) PROVE Seen(j)'
  BY <1>0, <1>3 DEF WakeIssue
<1>4. CASE WakeSnoozedIssues
  BY <1>0, <1>4 DEF WakeSnoozedIssues, Due
<1>5. ASSUME NEW i \in Issues, SoftDeleteIssue(i) PROVE Seen(j)'
  BY <1>0, <1>5 DEF SoftDeleteIssue, eventVars
<1>6. CASE UNCHANGED <<row, snoozedUntil, snoozeEvent>>
  BY <1>0, <1>6
<1> QED
  BY <1>1, <1>2, <1>3, <1>4, <1>5, <1>6
     DEF Next, vars, rowVars, eventVars, ReadForMove, TransitionIssue, ReadRef, ApplyGitLink,
         IngestObsAlert, SetIssueArchived, ArchiveStaleClosed, Tick

\* The sweep takes only what no person has shelved.
LEMMA ShelfStep == TypeOK /\ ManualShelfAnnounced /\ [Next]_vars => ManualShelfAnnounced'
<1> SUFFICES ASSUME TypeOK, ManualShelfAnnounced, [Next]_vars PROVE ManualShelfAnnounced'
  OBVIOUS
<1> USE DEF TypeOK, ManualShelfAnnounced
<1>1. ASSUME NEW i \in Issues, NEW on \in BOOLEAN, SetIssueArchived(i, on)
      PROVE ManualShelfAnnounced'
  BY <1>1 DEF SetIssueArchived
<1>2. CASE ArchiveStaleClosed
  BY <1>2 DEF ArchiveStaleClosed, Stale, eventVars
<1>3. CASE UNCHANGED <<archived, shelfEvent>>
  BY <1>3
<1> QED
  BY <1>1, <1>2, <1>3
     DEF Next, vars, rowVars, eventVars, CreateIssue, ReadForMove, TransitionIssue, ReadRef,
         ApplyGitLink, IngestObsAlert, SnoozeIssue, WakeIssue, WakeSnoozedIssues,
         SoftDeleteIssue, Tick

\* Every path that finishes an issue goes through the shared statement.
LEMMA StampStep == TypeOK /\ FinishedIsStamped /\ [Next]_vars => FinishedIsStamped'
<1> SUFFICES ASSUME TypeOK, FinishedIsStamped, [Next]_vars PROVE FinishedIsStamped'
  OBVIOUS
<1>1. ASSUME NEW p \in Movers, TransitionIssue(p) PROVE FinishedIsStamped'
  <2>1. CASE UNCHANGED <<status, resolvedAt, closedAt, moveEvent>>
    BY <2>1 DEF FinishedIsStamped
  <2>2. CASE \E i \in Issues, to \in Status, at \in Time : SetIssueStatus(i, to, at)
    BY <2>2, SetIssueStatusStamps
  <2> QED
    BY <1>1, <2>1, <2>2, TransitionWrites
<1>2. ASSUME NEW g \in GitJobs, ApplyGitLink(g) PROVE FinishedIsStamped'
  <2>1. CASE UNCHANGED <<status, resolvedAt, closedAt>>
    BY <2>1 DEF FinishedIsStamped
  <2>2. CASE \E i \in Issues, to \in ClosedStatuses, at \in Time : SetIssueStatus(i, to, at)
    BY <2>2, SetIssueStatusStamps, FinishedIsStatus
  <2> QED
    BY <1>2, <2>1, <2>2, GitLinkWrites
<1>3. ASSUME NEW i \in Issues, IngestObsAlert(i) PROVE FinishedIsStamped'
  BY <1>3 DEF IngestObsAlert, FinishedIsStamped, TypeOK, ClosedStatuses
<1>4. CASE UNCHANGED <<status, resolvedAt, closedAt>>
  BY <1>4 DEF FinishedIsStamped
<1> QED
  BY <1>1, <1>2, <1>3, <1>4
     DEF Next, vars, rowVars, CreateIssue, ReadForMove, ReadRef, SetIssueArchived,
         ArchiveStaleClosed, SnoozeIssue, WakeIssue, WakeSnoozedIssues, SoftDeleteIssue, Tick

\* The empty tracker satisfies the invariant.
LEMMA IInvInit == Init => IInv
BY LifecycleAssumption
   DEF Init, IInv, TypeOK, Time, Presence, Status, Shelf, MoveEvents, ShelfEvents,
       SnoozeEvents, AbsentIsBlank, InHandIsLegal, SubscriberSeesStatus,
       SubscriberSeesSnooze, ManualShelfAnnounced, FinishedIsStamped, ClosedStatuses

\* Part by part, by the lemmas above.
LEMMA IInvStep == IInv /\ [Next]_vars => IInv'
BY TypeStep, BlankStep, InHandStep, StatusSeenStep, SnoozeSeenStep, ShelfStep, StampStep
   DEF IInv

\* The inductive invariant holds in every reachable state.
THEOREM Inductive == Spec => []IInv
BY IInvInit, IInvStep, PTL DEF Spec

\* Whatever the interleaving, the newest status event of a live issue is the event of the
\* status it has: a subscriber is never left with a stale idea of it.
THEOREM StatusAnnounced == Spec => []SubscriberSeesStatus
<1>1. IInv => SubscriberSeesStatus
  BY DEF IInv
<1> QED
  BY <1>1, Inductive, PTL

\* The newest snooze event of a live issue says whether it is snoozed, hand or sweep.
THEOREM SnoozeAnnounced == Spec => []SubscriberSeesSnooze
<1>1. IInv => SubscriberSeesSnooze
  BY DEF IInv
<1> QED
  BY <1>1, Inductive, PTL

\* An issue a person shelved was announced as shelved, and the announcement stands
\* whatever the sweep does.
THEOREM ShelfAnnounced == Spec => []ManualShelfAnnounced
<1>1. IInv => ManualShelfAnnounced
  BY DEF IInv
<1> QED
  BY <1>1, Inductive, PTL

\* A finished issue has its resolution date, a closed one its closing date, whichever
\* path finished it and however often it was reopened.
THEOREM FinishedStamped == Spec => []FinishedIsStamped
<1>1. IInv => FinishedIsStamped
  BY DEF IInv
<1> QED
  BY <1>1, Inductive, PTL

-----------------------------------------------------------------------------
(* What a step may never do. *)

\* With the compare-and-set, the check made against an earlier read holds at the write:
\* any number of concurrent requests, rules and alerts respect the workflow graph, and a
\* forbidden move is the work of a git job.
THEOREM GraphRespectedButByGit == Spec => OnlyGitLeavesGraph
<1> DEFINE Legal(j) == CanTransition(status[j], status'[j])
           ByGit(j) == \E g \in GitJobs : linking[g] # NULL /\ linking[g].issue = j /\ linking'[g] = NULL
<1>1. ASSUME IInv, [Next]_vars, NEW j \in Issues PROVE Legal(j) \/ ByGit(j)
  <2> USE <1>1 DEF IInv, TypeOK
  <2>1. ASSUME NEW p \in Movers, TransitionIssue(p) PROVE Legal(j)
    <3>1. CASE status' = status
      BY <3>1, StayingIsLegal
    <3>2. CASE \E i \in Issues, to \in Status, at \in Time :
                 /\ moving[p] # NULL /\ to = moving[p].to /\ status[i] = moving[p].from
                 /\ SetIssueStatus(i, to, at)
      <4>1. PICK i \in Issues, to \in Status, at \in Time :
                 /\ moving[p] # NULL /\ to = moving[p].to /\ status[i] = moving[p].from
                 /\ SetIssueStatus(i, to, at)
        BY <3>2
      <4>2. CanTransition(status[i], to)
        BY <4>1 DEF InHandIsLegal
      <4>3. status'[j] = IF j = i THEN to ELSE status[j]
        BY <4>1 DEF SetIssueStatus
      <4> QED
        BY <4>2, <4>3, StayingIsLegal
    <3> QED
      BY <2>1, <3>1, <3>2, TransitionWrites
  <2>2. ASSUME NEW g \in GitJobs, ApplyGitLink(g) PROVE Legal(j) \/ ByGit(j)
    <3>1. linking[g] # NULL /\ linking'[g] = NULL
      BY <2>2 DEF ApplyGitLink
    <3>2. status'[j] = status[j] \/ linking[g].issue = j
      BY <2>2, GitLinkWrites DEF SetIssueStatus
    <3> QED
      BY <3>1, <3>2, StayingIsLegal
  <2>3. ASSUME NEW i \in Issues, IngestObsAlert(i) PROVE Legal(j)
    <3>1. \/ status'[j] = status[j]
          \/ status[j] \in ClosedStatuses /\ status'[j] = "reopened"
      BY <2>3 DEF IngestObsAlert
    <3> QED
      BY <3>1, StayingIsLegal, RegressionIsLegal
  <2>4. CASE UNCHANGED status
    BY <2>4, StayingIsLegal
  <2> QED
    BY <2>1, <2>2, <2>3, <2>4
       DEF Next, vars, rowVars, CreateIssue, ReadForMove, ReadRef, SetIssueArchived,
           ArchiveStaleClosed, SnoozeIssue, WakeIssue, WakeSnoozedIssues, SoftDeleteIssue, Tick
<1>2. IInv /\ [Next]_vars =>
        [\A i \in Issues : ~CanTransition(status[i], status'[i]) =>
           \E g \in GitJobs : linking[g] # NULL /\ linking[g].issue = i /\ linking'[g] = NULL]_vars
  BY <1>1
<1> QED
  BY <1>2, Inductive, PTL DEF Spec, OnlyGitLeavesGraph

\* A tracker that ingests no commits never makes a move the graph does not have.
COROLLARY WithoutGitGraphRespected == GitJobs = {} => (Spec => WorkflowRespected)
<1> SUFFICES ASSUME GitJobs = {} PROVE Spec => WorkflowRespected
  OBVIOUS
<1>1. [\A i \in Issues : ~CanTransition(status[i], status'[i]) =>
         \E g \in GitJobs : linking[g] # NULL /\ linking[g].issue = i /\ linking'[g] = NULL]_vars
      => [\A i \in Issues : CanTransition(status[i], status'[i])]_vars
  OBVIOUS
<1> QED
  BY <1>1, GraphRespectedButByGit, PTL DEF OnlyGitLeavesGraph, WorkflowRespected

\* Deletion wins every race: whoever read the issue while it was live and writes after
\* it was deleted changes none of its columns, and nobody brings it back.
THEOREM DeletedStaysFrozen == Spec => DeletedIsFrozen
<1> DEFINE Frozen(j) ==
      /\ row'[j] = "deleted"
      /\ <<status[j], resolvedAt[j], closedAt[j], archived[j], snoozedUntil[j]>>' =
           <<status[j], resolvedAt[j], closedAt[j], archived[j], snoozedUntil[j]>>
<1>1. ASSUME TypeOK, [Next]_vars, NEW j \in Issues, row[j] = "deleted" PROVE Frozen(j)
  <2> USE <1>1 DEF TypeOK
  <2>1. ASSUME NEW i \in Issues, CreateIssue(i) PROVE Frozen(j)
    BY <2>1 DEF CreateIssue
  <2>2. ASSUME NEW p \in Movers, TransitionIssue(p) PROVE Frozen(j)
    <3>1. row' = row /\ archived' = archived /\ snoozedUntil' = snoozedUntil
      BY <2>2 DEF TransitionIssue
    <3>2. status'[j] = status[j] /\ resolvedAt'[j] = resolvedAt[j] /\ closedAt'[j] = closedAt[j]
      <4>1. CASE UNCHANGED <<status, resolvedAt, closedAt>>
        BY <4>1
      <4>2. ASSUME NEW i \in Issues, NEW to, NEW at, row[i] = "live", SetIssueStatus(i, to, at)
            PROVE  status'[j] = status[j] /\ resolvedAt'[j] = resolvedAt[j] /\ closedAt'[j] = closedAt[j]
        <5>1. i # j
          BY <1>1, <4>2
        <5> QED BY <4>2, <5>1 DEF SetIssueStatus
      <4> QED BY <2>2, <4>1, <4>2, TransitionWrites
    <3> QED BY <3>1, <3>2
  <2>3. ASSUME NEW g \in GitJobs, ApplyGitLink(g) PROVE Frozen(j)
    <3>1. row' = row /\ archived' = archived /\ snoozedUntil' = snoozedUntil
      BY <2>3 DEF ApplyGitLink
    <3>2. status'[j] = status[j] /\ resolvedAt'[j] = resolvedAt[j] /\ closedAt'[j] = closedAt[j]
      <4>1. CASE UNCHANGED <<status, resolvedAt, closedAt>>
        BY <4>1
      <4>2. ASSUME NEW i \in Issues, NEW to, NEW at, row[i] = "live", SetIssueStatus(i, to, at)
            PROVE  status'[j] = status[j] /\ resolvedAt'[j] = resolvedAt[j] /\ closedAt'[j] = closedAt[j]
        <5>1. i # j
          BY <1>1, <4>2
        <5> QED BY <4>2, <5>1 DEF SetIssueStatus
      <4> QED BY <2>3, <4>1, <4>2, GitLinkWrites
    <3> QED BY <3>1, <3>2
  <2>4. ASSUME NEW i \in Issues, IngestObsAlert(i) PROVE Frozen(j)
    BY <2>4 DEF IngestObsAlert
  <2>5. ASSUME NEW i \in Issues, NEW on \in BOOLEAN, SetIssueArchived(i, on) PROVE Frozen(j)
    BY <2>5 DEF SetIssueArchived
  <2>6. CASE ArchiveStaleClosed
    BY <2>6 DEF ArchiveStaleClosed, Stale
  <2>7. ASSUME NEW i \in Issues, NEW until \in SnoozeTimes, SnoozeIssue(i, until) PROVE Frozen(j)
    BY <2>7 DEF SnoozeIssue
  <2>8. ASSUME NEW i \in Issues, WakeIssue(i) PROVE Frozen(j)
    BY <2>8 DEF WakeIssue
  <2>9. CASE WakeSnoozedIssues
    BY <2>9 DEF WakeSnoozedIssues, Due
  <2>10. ASSUME NEW i \in Issues, SoftDeleteIssue(i) PROVE Frozen(j)
    BY <2>10 DEF SoftDeleteIssue
  <2>11. CASE UNCHANGED rowVars
    BY <2>11 DEF rowVars
  <2> QED
    BY <2>1, <2>2, <2>3, <2>4, <2>5, <2>6, <2>7, <2>8, <2>9, <2>10, <2>11
       DEF Next, vars, rowVars, ReadForMove, ReadRef, Tick
<1>2. TypeOK /\ [Next]_vars => [\A i \in Issues : row[i] = "deleted" => Frozen(i)]_vars
  BY <1>1
<1> QED
  BY <1>2, TypeInvariant, PTL DEF Spec, DeletedIsFrozen

\* The sweep never hides live work; what is hidden was finished when it was shelved and
\* came back to life there.
THEOREM SweepHidesNoLiveWork == Spec => OnlyReopeningHidesWork
<1> DEFINE Claim(j) == Hidden(j)' /\ ~Hidden(j) => archived[j] = "sweep" /\ status[j] \in ClosedStatuses
<1>1. ASSUME IInv, [Next]_vars, NEW j \in Issues PROVE Claim(j)
  <2> USE <1>1 DEF IInv, TypeOK, Hidden
  <2>0. /\ Status \ OpenStatuses = ClosedStatuses
        /\ OpenStatuses \cap ClosedStatuses = {}
    BY DEF OpenStatuses, ClosedStatuses, Status
  <2>1. ASSUME NEW i \in Issues, CreateIssue(i) PROVE Claim(j)
    BY <2>1 DEF CreateIssue, AbsentIsBlank
  <2>2. ASSUME NEW i \in Issues, NEW on \in BOOLEAN, SetIssueArchived(i, on) PROVE Claim(j)
    BY <2>2 DEF SetIssueArchived
  <2>3. CASE ArchiveStaleClosed
    BY <2>0, <2>3 DEF ArchiveStaleClosed, Stale
  <2>4. CASE archived' = archived /\ row'[j] = row[j]
    BY <2>0, <2>4
  <2>5. ASSUME NEW i \in Issues, SoftDeleteIssue(i) PROVE Claim(j)
    BY <2>5 DEF SoftDeleteIssue
  <2> QED
    BY <2>1, <2>2, <2>3, <2>4, <2>5
       DEF Next, vars, rowVars, ReadForMove, TransitionIssue, ReadRef, ApplyGitLink,
           IngestObsAlert, SnoozeIssue, WakeIssue, WakeSnoozedIssues, Tick
<1>2. IInv /\ [Next]_vars =>
        [\A i \in Issues : Hidden(i)' /\ ~Hidden(i) =>
           archived[i] = "sweep" /\ status[i] \in ClosedStatuses]_vars
  BY <1>1
<1> QED
  BY <1>2, Inductive, PTL DEF Spec, OnlyReopeningHidesWork

\* resolved_at is written exactly when work in flight is finished, with a time between
\* the read and the write of the request that finished it: no regression, closing of a
\* resolved issue or late commit rewrites history.
THEOREM ResolutionsDated == Spec => ResolutionDates
<1> DEFINE InHand == {moving[p] : p \in Movers} \cup {linking[g] : g \in GitJobs}
           Finishes(j) == status[j] \in OpenStatuses /\ status'[j] \in ClosedStatuses
           Dated(j) == /\ resolvedAt'[j] # resolvedAt[j] => Finishes(j)
                       /\ Finishes(j) => \E m \in InHand :
                            m # NULL /\ m.issue = j /\ resolvedAt'[j] \in m.readAt..now
<1>0. /\ \A s \in Status : s \in OpenStatuses <=> s \notin ClosedStatuses
      /\ OpenStatuses \cap ClosedStatuses = {}
  BY DEF OpenStatuses
<1>1. ASSUME TypeOK, [Next]_vars, NEW j \in Issues PROVE Dated(j)
  <2> USE <1>1 DEF TypeOK
  <2>1. ASSUME UNCHANGED <<resolvedAt[j], status[j]>> PROVE Dated(j)
    BY <1>0, <2>1
  <2>2. ASSUME NEW m \in InHand, m # NULL,
               NEW to \in Status, NEW at \in m.readAt..now,
               m.issue \in Issues, SetIssueStatus(m.issue, to, at)
        PROVE  Dated(j)
    <3>1. CASE m.issue = j
      <4>1. status'[j] = to
        BY <2>2, <3>1 DEF SetIssueStatus
      <4>2. resolvedAt'[j] = IF to \in ClosedStatuses /\ status[j] \notin ClosedStatuses
                             THEN at ELSE resolvedAt[j]
        BY <2>2, <3>1 DEF SetIssueStatus
      <4>3. status[j] \in Status
        OBVIOUS
      <4> QED
        BY <1>0, <2>2, <3>1, <4>1, <4>2, <4>3
    <3>2. CASE m.issue # j
      BY <2>1, <2>2, <3>2 DEF SetIssueStatus
    <3> QED
      BY <3>1, <3>2
  <2>3. ASSUME NEW p \in Movers, TransitionIssue(p) PROVE Dated(j)
    BY <2>1, <2>2, <2>3, TransitionWrites
  <2>4. ASSUME NEW g \in GitJobs, ApplyGitLink(g) PROVE Dated(j)
    BY <2>1, <2>2, <2>4, GitLinkWrites, FinishedIsStatus
  <2>5. ASSUME NEW i \in Issues, IngestObsAlert(i) PROVE Dated(j)
    <3>1. resolvedAt'[j] = resolvedAt[j] /\ (status'[j] = status[j] \/ status'[j] = "reopened")
      BY <2>5 DEF IngestObsAlert
    <3>2. "reopened" \notin ClosedStatuses
      BY DEF ClosedStatuses
    <3> QED
      BY <1>0, <3>1, <3>2
  <2>6. CASE UNCHANGED <<resolvedAt, status>>
    BY <2>1, <2>6
  <2> QED
    BY <2>3, <2>4, <2>5, <2>6
       DEF Next, vars, rowVars, CreateIssue, ReadForMove, ReadRef, SetIssueArchived,
           ArchiveStaleClosed, SnoozeIssue, WakeIssue, WakeSnoozedIssues, SoftDeleteIssue, Tick
<1>2. TypeOK /\ [Next]_vars => [\A i \in Issues : Dated(i)]_vars
  BY <1>1
<1> QED
  BY <1>2, TypeInvariant, PTL DEF Spec, ResolutionDates
=============================================================================

--------------------------- MODULE EventDispatch ----------------------------
(***************************************************************************)
(* The outbox of one issue: a write commits together with its domain_event *)
(* job, and the dispatcher (worker eventWorker) turns the job into a notify *)
(* job, an automation job and one delivery per subscribed webhook in one    *)
(* transaction, then claims the pending mentions in another.  River runs    *)
(* the job at least once: an error, or a crash before the job is marked     *)
(* completed, runs it again until its attempts are spent.                   *)
(***************************************************************************)
EXTENDS Naturals, FiniteSets

CONSTANTS
  Events,       \* domain events about the issue
  Deletions,    \* those whose write soft-deletes it (issue.deleted)
  Hooks,        \* webhooks whose scope and filter cover every one of them
  Mentions,     \* rows of issue_mentions, one per (text, person); naming a person
                \* again in a text that had dropped him makes another row
  Selves,       \* those where the author names himself
  MaxAttempts,  \* River's attempts per job (25 by default)
  MaxFaults     \* bound: transient errors and crashes in one behaviour

ASSUME DispatchAssumption ==
  /\ Deletions \subseteq Events
  /\ Selves \subseteq Mentions
  /\ MaxAttempts \in Nat \ {0}
  /\ MaxFaults \in Nat

JobState == {"none", "queued", "running", "orphaned", "done", "discarded"}
Step == {"idle", "hooks", "payload", "mentions", "finish"}
MentionState == {"absent", "pending", "told", "silent", "dropped"}

VARIABLES
  issueLive,   \* deleted_at IS NULL
  subscribed,  \* the active webhooks
  active,      \* the mentions whose person is an active user
  mention,     \* each mention's row: pending is notified_at IS NULL
  told,        \* user.mentioned notify jobs enqueued for it
  job,         \* each event's domain_event job
  attempt,     \* times River has started it
  step,        \* where its running Work is
  hookIDs,     \* the webhooks Work has read for it
  notified,    \* notify jobs enqueued for the event
  automated,   \* automation jobs enqueued for it
  delivered,   \* webhook_deliveries rows, with their job, per event and webhook
  faults       \* transient errors and crashes so far

world == <<issueLive, subscribed, active>>
fanout == <<notified, automated, delivered>>
queue == <<job, attempt, step, hookIDs>>
vars == <<issueLive, subscribed, active, mention, told, job, attempt, step,
          hookIDs, notified, automated, delivered, faults>>

\* Every job, mention row and count keeps its type; attempts stay within the limit.
TypeOK ==
  /\ issueLive \in BOOLEAN
  /\ subscribed \subseteq Hooks
  /\ active \subseteq Mentions
  /\ mention \in [Mentions -> MentionState]
  /\ told \in [Mentions -> Nat]
  /\ job \in [Events -> JobState]
  /\ attempt \in [Events -> 0..MaxAttempts]
  /\ step \in [Events -> Step]
  /\ hookIDs \in [Events -> SUBSET Hooks]
  /\ notified \in [Events -> Nat]
  /\ automated \in [Events -> Nat]
  /\ delivered \in [Events -> [Hooks -> Nat]]
  /\ faults \in 0..MaxFaults

Init ==
  /\ issueLive = TRUE
  /\ subscribed \in SUBSET Hooks
  /\ active = Mentions
  /\ mention = [m \in Mentions |-> "absent"]
  /\ told = [m \in Mentions |-> 0]
  /\ job = [e \in Events |-> "none"]
  /\ attempt = [e \in Events |-> 0]
  /\ step = [e \in Events |-> "idle"]
  /\ hookIDs = [e \in Events |-> {}]
  /\ notified = [e \in Events |-> 0]
  /\ automated = [e \in Events |-> 0]
  /\ delivered = [e \in Events |-> [h \in Hooks |-> 0]]
  /\ faults = 0

-----------------------------------------------------------------------------
\* The mentions a claim would take: notified_at IS NULL.
Pending == {m \in Mentions : mention[m] = "pending"}

\* Writing text records the people it newly names (naming yourself is stamped at once)
\* and forgets the ones it no longer names: a pending one will not be told, and one told
\* already stays told here.
syncMentions(named, dropped) ==
  /\ \A m \in named : mention[m] = "absent"
  /\ \A m \in dropped : mention[m] = "pending"
  /\ mention' = [m \in Mentions |->
       CASE m \in named /\ m \in Selves -> "silent"
         [] m \in named /\ m \notin Selves -> "pending"
         [] m \in dropped -> "dropped"
         [] OTHER -> mention[m]]

\* A mutation of the issue: its rows and its job in one transaction.  A comment or a
\* commit that loaded the issue before it was deleted still writes after.
PublishTx(e) ==
  /\ job[e] = "none"
  /\ job' = [job EXCEPT ![e] = "queued"]
  /\ issueLive' = (issueLive /\ e \notin Deletions)
  /\ \E named, dropped \in SUBSET Mentions :
       /\ e \in Deletions => named = {} /\ dropped = {}
       /\ syncMentions(named, dropped)
  /\ UNCHANGED <<subscribed, active, told, attempt, step, hookIDs, fanout, faults>>

\* Deleting a comment forgets its mentions and publishes nothing.
SoftDeleteComment ==
  /\ \E dropped \in SUBSET Pending : dropped # {} /\ syncMentions({}, dropped)
  /\ UNCHANGED <<world, told, queue, fanout, faults>>

\* River hands the job to the worker.
Fetch(e) ==
  /\ job[e] = "queued"
  /\ job' = [job EXCEPT ![e] = "running"]
  /\ attempt' = [attempt EXCEPT ![e] = @ + 1]
  /\ step' = [step EXCEPT ![e] = "hooks"]
  /\ UNCHANGED <<world, mention, told, hookIDs, fanout, faults>>

At(e, s) == job[e] = "running" /\ step[e] = s

\* Fault: the jobs are inserted outside the transaction, as they once were.
ReadHooks_NoTransaction(e) ==
  /\ At(e, "hooks")
  /\ hookIDs' = [hookIDs EXCEPT ![e] = subscribed]
  /\ step' = [step EXCEPT ![e] = "payload"]
  /\ notified' = [notified EXCEPT ![e] = @ + 1]
  /\ UNCHANGED <<world, mention, told, job, attempt, automated, delivered, faults>>

\* Work up to the webhook query.  The notify and automation rows it has inserted are in
\* a transaction nobody else sees until it commits.
ReadHooks(e) ==
  /\ At(e, "hooks")
  /\ hookIDs' = [hookIDs EXCEPT ![e] = subscribed]
  /\ step' = [step EXCEPT ![e] = "payload"]
  /\ UNCHANGED <<world, mention, told, job, attempt, fanout, faults>>

\* Fault: one attempt too many.
Failed_OneMore(e) ==
  /\ job' = [job EXCEPT ![e] = IF attempt[e] <= MaxAttempts THEN "queued" ELSE "discarded"]
  /\ step' = [step EXCEPT ![e] = "idle"]
  /\ hookIDs' = [hookIDs EXCEPT ![e] = {}]
  /\ UNCHANGED <<world, mention, told, attempt, fanout>>

\* Fault: the error is swallowed and nothing is tried again.
Failed_NoRetry(e) ==
  /\ job' = [job EXCEPT ![e] = "discarded"]
  /\ step' = [step EXCEPT ![e] = "idle"]
  /\ hookIDs' = [hookIDs EXCEPT ![e] = {}]
  /\ UNCHANGED <<world, mention, told, attempt, fanout>>

\* Work returned an error, or its run was rescued: the open transaction is gone, and
\* River tries again while attempts are left.
Failed(e) ==
  /\ job' = [job EXCEPT ![e] = IF attempt[e] < MaxAttempts THEN "queued" ELSE "discarded"]
  /\ step' = [step EXCEPT ![e] = "idle"]
  /\ hookIDs' = [hookIDs EXCEPT ![e] = {}]
  /\ UNCHANGED <<world, mention, told, attempt, fanout>>

\* Fault: the automation job is forgotten when no webhook listens.
CommitFanOut_HooksOnly(e) ==
  /\ At(e, "payload")
  /\ hookIDs[e] = {} \/ issueLive
  /\ notified' = [notified EXCEPT ![e] = @ + 1]
  /\ automated' = [automated EXCEPT ![e] = IF hookIDs[e] = {} THEN @ ELSE @ + 1]
  /\ delivered' = [delivered EXCEPT ![e] = [h \in Hooks |-> IF h \in hookIDs[e] THEN @[h] + 1 ELSE @[h]]]
  /\ step' = [step EXCEPT ![e] = "mentions"]
  /\ UNCHANGED <<world, mention, told, job, attempt, hookIDs, faults>>

\* The payload of a delivery needs the issue; with it, or with nobody to deliver to,
\* the whole fan-out commits.
CommitFanOut(e) ==
  /\ At(e, "payload")
  /\ hookIDs[e] = {} \/ issueLive
  /\ notified' = [notified EXCEPT ![e] = @ + 1]
  /\ automated' = [automated EXCEPT ![e] = @ + 1]
  /\ delivered' = [delivered EXCEPT ![e] = [h \in Hooks |-> IF h \in hookIDs[e] THEN @[h] + 1 ELSE @[h]]]
  /\ step' = [step EXCEPT ![e] = "mentions"]
  /\ UNCHANGED <<world, mention, told, job, attempt, hookIDs, faults>>

\* GetIssueByID finds no live issue: fanOutWebhooks returns the error and everything
\* rolls back.
PayloadMissing(e) ==
  /\ At(e, "payload")
  /\ hookIDs[e] # {} /\ ~issueLive
  /\ Failed(e)
  /\ UNCHANGED faults

\* Fault: notifications go to everyone named, claimed before or not.
ClaimMentions_NoClaim(e) ==
  /\ At(e, "mentions")
  /\ LET named == {m \in Mentions : mention[m] \in {"pending", "told"}} IN
     /\ mention' = [m \in Mentions |-> IF m \in named THEN "told" ELSE mention[m]]
     /\ told' = [m \in Mentions |-> IF m \in named THEN told[m] + 1 ELSE told[m]]
  /\ step' = [step EXCEPT ![e] = "finish"]
  /\ UNCHANGED <<world, job, attempt, hookIDs, fanout, faults>>

\* Fault: the job is enqueued and the stamp is lost.
ClaimMentions_NoStamp(e) ==
  /\ At(e, "mentions")
  /\ told' = [m \in Mentions |-> IF m \in Pending \cap active THEN told[m] + 1 ELSE told[m]]
  /\ step' = [step EXCEPT ![e] = "finish"]
  /\ UNCHANGED <<world, mention, job, attempt, hookIDs, fanout, faults>>

\* Fault: the claim only takes the mentions of active people and leaves the rest.
ClaimMentions_LeaversWait(e) ==
  /\ At(e, "mentions")
  /\ mention' = [m \in Mentions |-> IF m \in Pending \cap active THEN "told" ELSE mention[m]]
  /\ told' = [m \in Mentions |-> IF m \in Pending \cap active THEN told[m] + 1 ELSE told[m]]
  /\ step' = [step EXCEPT ![e] = "finish"]
  /\ UNCHANGED <<world, job, attempt, hookIDs, fanout, faults>>

\* ClaimPendingMentions: one transaction stamps every pending mention of the issue,
\* whichever event recorded it, and enqueues one job for those still active.
ClaimMentions(e) ==
  /\ At(e, "mentions")
  /\ mention' = [m \in Mentions |->
       CASE m \in Pending \cap active -> "told"
         [] m \in Pending \ active -> "silent"
         [] OTHER -> mention[m]]
  /\ told' = [m \in Mentions |-> IF m \in Pending \cap active THEN told[m] + 1 ELSE told[m]]
  /\ step' = [step EXCEPT ![e] = "finish"]
  /\ UNCHANGED <<world, job, attempt, hookIDs, fanout, faults>>

\* Work returned nil and River recorded it.
Complete(e) ==
  /\ At(e, "finish")
  /\ job' = [job EXCEPT ![e] = "done"]
  /\ step' = [step EXCEPT ![e] = "idle"]
  /\ hookIDs' = [hookIDs EXCEPT ![e] = {}]
  /\ UNCHANGED <<world, mention, told, attempt, fanout, faults>>

\* A query, insert or commit fails anywhere in Work.
TransientError(e) ==
  /\ \E s \in {"hooks", "payload", "mentions"} : At(e, s)
  /\ faults < MaxFaults
  /\ faults' = faults + 1
  /\ Failed(e)

\* The worker process dies: what it was running keeps its state in river_job.
Crash ==
  /\ \E e \in Events : job[e] = "running"
  /\ faults < MaxFaults
  /\ faults' = faults + 1
  /\ job' = [e \in Events |-> IF job[e] = "running" THEN "orphaned" ELSE job[e]]
  /\ UNCHANGED <<world, mention, told, attempt, step, hookIDs, fanout>>

\* River's rescuer finds the job running for too long.
Rescue(e) ==
  /\ job[e] = "orphaned"
  /\ Failed(e)
  /\ UNCHANGED faults

\* An administrator (de)activates a webhook, or a person's account.
ToggleHook(h) ==
  /\ subscribed' = IF h \in subscribed THEN subscribed \ {h} ELSE subscribed \cup {h}
  /\ UNCHANGED <<issueLive, active, mention, told, queue, fanout, faults>>

SetUserActive(m) ==
  /\ active' = IF m \in active THEN active \ {m} ELSE active \cup {m}
  /\ UNCHANGED <<issueLive, subscribed, mention, told, queue, fanout, faults>>

Work(e) ==
  \/ Fetch(e) \/ ReadHooks(e) \/ CommitFanOut(e) \/ PayloadMissing(e)
  \/ ClaimMentions(e) \/ Complete(e) \/ Rescue(e)

Next ==
  \/ \E e \in Events : PublishTx(e) \/ Work(e) \/ TransientError(e)
  \/ SoftDeleteComment
  \/ Crash
  \/ \E h \in Hooks : ToggleHook(h)
  \/ \E m \in Mentions : SetUserActive(m)

\* River polls the queue, runs what it fetched and rescues what was left behind.
Fairness == \A e \in Events : WF_vars(Work(e))

Spec == Init /\ [][Next]_vars /\ Fairness

-----------------------------------------------------------------------------
\* The fan-out of an event is all or nothing through every failed attempt: as many
\* automation jobs as notify jobs, and no delivery that did not come with them
\* (eventWorker.Work's single transaction).
FanOutWhole ==
  \A e \in Events :
    /\ automated[e] = notified[e]
    /\ \A h \in Hooks : delivered[e][h] <= notified[e]

\* A mention is told exactly once, however many events and retries claim it, and only
\* if its row was claimed for an active person (ClaimPendingMentions).
MentionToldOnce ==
  \A m \in Mentions : told[m] = IF mention[m] = "told" THEN 1 ELSE 0

\* The price of at-least-once: an event is fanned out a second time only after a
\* transient error or a crash, and at most once more for each.
DuplicatesNeedFaults == \A e \in Events : notified[e] <= 1 + faults

\* Work's comment: a retry produces exactly one of everything; package events: an event
\* is never double-sent.
ExactlyOnce == \A e \in Events : notified[e] <= 1

\* Package events: an event can never be lost.  One whose job River has given up on
\* must have been fanned out before.
NeverLost == \A e \in Events : job[e] = "discarded" => notified[e] >= 1

\* The pipeline implements the Outbox: retries and duplicates are its stutters.
outbox == INSTANCE Outbox WITH
  written <- {e \in Events : job[e] # "none"},
  announced <- {e \in Events : notified[e] > 0},
  owed <- Pending,
  told <- {m \in Mentions : told[m] > 0}

ImplementsOutbox == outbox!Spec

\* Everything written about an issue that lives on is announced: retries outlast the
\* transient failures.
EventuallyAnnounced ==
  \A e \in Events : job[e] # "none" ~> (notified[e] > 0 \/ ~issueLive)

\* Nobody stays pending on an issue that lives on, a leaver included.
MentionsSettle ==
  \A m \in Mentions : mention[m] = "pending" ~> (mention[m] # "pending" \/ ~issueLive)
=============================================================================

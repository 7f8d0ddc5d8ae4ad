# Omni-BugTracker in TLA+

A TLA+ development of the bug tracker's own logic: the state machines behind the Go
services, the Postgres statements they run and the River jobs that follow from them, and
the React client with its cached copies, its mutations and the parts of it that race with
themselves. TLC checks the modules on small instances; TLAPS proves safety properties for
every value of the constants. Paths below are relative to the repository.

    tlc -workers 2 -config LifecycleRaces.cfg MCIssueLifecycle.tla
    tlc -workers 2 -config WebPages.cfg WebPages.tla
    tlapm IssueLifecycle_proofs.tla

## The system

One Go binary pair (`cmd/server`, `cmd/worker`) over one Postgres database. A request
loads what it needs, checks permissions and rules in Go, and writes in one transaction:
rows, an activity entry, and a River job `domain_event` (the transactional outbox). The
worker runs that job at least once and turns it into further jobs: notify, automation,
one delivery per webhook. Periodic jobs sweep the tables (archive, wake, SLA,
iteration snapshots). Inbound webhooks (git, alerts) become jobs too. Nothing else is
shared: components meet in rows and in the queue, and nearly every hard behaviour comes
from a read in one query and a write in another.

The web client (`web/src`) is one page application over the HTTP interface. A page reads
through cached queries (TanStack Query) and writes through mutations; hardly any
answer of a mutation reaches the cache, so each `onSuccess` lists by hand the queries to fetch
again. Everything a user sees is a copy from some earlier moment, and several requests are
under way at once without any order between them: that is where its hard behaviour lies.

| Component | State | Operations | Meets | What is hard | What makes it correct |
|---|---|---|---|---|---|
| Workflow (`internal/domain/enums.go`) | none | `CanTransition`, `statusEvent`, `isAtOrPast` | every status writer | four writers, two copies of the event table | a move is an edge of the graph |
| Issue lifecycle (`internal/repo/pg/store.go`, `snooze.go`, `obs.go`, `internal/service/issues.go`, `handlers.go`) | status, `resolved_at`, `closed_at`, `archived_at`, `snoozed_until`, `deleted_at` | transition, git link, alert, archive, snooze, delete, two sweeps | the outbox, the rules, git and alert jobs | check in Go, write later; a date that outlives its meaning; deletion under everybody's feet | graph respected, dates right, events truthful, deleted rows frozen, live work visible |
| Outbox and dispatcher (`internal/events`, `internal/worker/jobs.go` `eventWorker`) | `river_job`, `webhook_deliveries` | publish, fan out, retry, rescue | everything downstream | at-least-once, errors and crashes between two transactions | whole fan-outs, none lost, duplicates only for faults |
| Mentions (`internal/repo/pg/mentions.go`) | `issue_mentions` | sync, claim, retract | dispatcher, accounts | several events claim one row | told once, nobody pending for ever |
| Webhook delivery (`webhookWorker`, `internal/egress`, `webhooks.go`) | deliveries, per-host slots | post, retry, mark, redeliver | dispatcher, administrators | crash after the post, two jobs on one row, a shared queue | row says what happened, one slow host slows only itself |
| Notifications (`notifyWorker`, `notifications.go`) | inbox rows, circuit breaker | route, record, push, read | dispatcher, people reading | retries after half the work | one unread entry per kind, inbox and push agree |
| Automation (`automationWorker`) | rules, runs | match, apply, publish | lifecycle, outbox | stale snapshots, partial application, loops | acts on what it saw, never feeds itself |
| SLA (`internal/repo/pg/sla.go`, `internal/service/sla.go`) | policies, escalation claims | sweep, edit policy | lifecycle, outbox | claims racing, policy edits | each escalation once, response not after resolution |
| Iterations (`internal/repo/pg/iterations.go`) | iteration state, commitment, snapshots | activate, complete, carry over, snapshot | moves between projects | re-activation, races for the active slot | one active, first commitment kept, members of the project |
| Board rank (`internal/service/rank.go`, `rankIssue`, `Board.tsx`) | rank strings, each page's copy of the board | drop between two cards | people dragging at once, status moves | equal or missing ranks, stale neighbours, two requests per drop | room on both sides of every rank, the card lands where it was aimed |
| Accounts and sign-in (`store.go`, `internal/auth`) | users, roles, tokens, key set | bootstrap, deactivate, verify | every request | first sign-in race, key rotation in an outage | one owner, no key served past its withdrawal but in an outage |
| Rate limit, log shipping, pool (`internal/httpapi/middleware`, `internal/platform`) | Redis window, queue, connections | allow, write/close, acquire | every request and job | limits, shutdown, everyone waiting | budget kept, no panic at shutdown, no standstill |
| Reads, parsing, administration | — | filters, search, export, reports, fields, templates, settings | — | none across actors | — |
| Pages of the client (`web/src/features`) | cached queries, requests, mutations under way | some ninety mutations on 23 pages | the cache, each other's refreshes, other people | a refetch answered before the write, a query nobody refreshed, a second click on an old copy | a page catches up with its own writes, a toggle acts on an old copy only while its control allows it, no button stays disabled |
| Editing an issue (`EditIssueForm.tsx`, `IssueDetail.tsx`, `CustomFields.tsx`) | the form, the draft of the fields, the copies under them | save, rail select, tick a box, save the fields | refetches, colleagues | the copy is replaced between opening and saving | a save writes what its user typed, a tick changes one box |
| Comment composer (`IssueDetail.tsx`) | text, uploads under way | type, paste, post | the upload endpoint | uploads edit a text that is being edited | no placeholder is left behind |
| List filter (`IssueList.tsx`) | filter, the project whose default was applied | type, switch project, follow a link | shared views arriving late | an answer after the user has typed | what was typed stays |
| Choice of the project (`lib/project.tsx`, `Layout.tsx`) | the key on show, the cached list, localStorage | switch, create, rename, fall back | lists arriving late, others who archive, unarchive and rename | the fallback bounces a project just created, a key comes back | the user stays where he went |
| Board loading (`Board.tsx`) | pages loaded, the request under way, the error latch | the effect that asks for the next page | refetches | an effect that feeds itself | ends, whole, without hammering a broken server |
| Session (`lib/api.ts`, `Layout.tsx`, `internal/service/oidc.go`) | two cookies, the refresh in flight, the badge's interval | request, silent refresh, give up | the identity provider | one-time token, several refusals at once, an abandoned tab | nobody is signed out for the order of his requests; a dead tab goes quiet |

`PROJECT.json` lists them all with what is modelled of each, and every hazard with the
line where it bites.

## Modules

| Module | What it is |
|---|---|
| `Workflow` | the status graph and the tables over it; no state |
| `IssueLifecycle` | one issue row per member of `Issues` and every writer of its lifecycle columns |
| `MCIssueLifecycle` | model values and symmetry for TLC |
| `IssueLifecycle_proofs` | its theorems |
| `Outbox` | abstract: what the pipeline promises about the events and mentions of one issue |
| `EventDispatch` | the `domain_event` jobs of one issue, River's retries around them, and the mention rows |
| `MCEventDispatch` | model values for TLC |
| `EventDispatch_proofs` | its theorems, and that `EventDispatch` implements `Outbox` |
| `PageSync` | one page of the client: its cached queries, their requests, its mutations under way |
| `IssuePage`, `PlanningPages`, `SettingsPages` | every mutation of the pages, on `PageSync`: what it writes and what it refreshes |
| `WebPages` | the three together, one page at a time, and the properties of them all |
| `WebPages_proofs` | its theorems |
| `CountingFacts` | lemmas on natural numbers: the least element of a set, the iteration of a function |
| `Rank` | the ordering keys of `rank.go`, as operators |
| `Board` | drags on the board, the two statements of `rankIssue`, reloads; on `Rank` |
| `IssueEdit` | the edit form, the rail and the checklist over one issue |
| `FieldsPanel` | the custom fields: a draft seeded again by every new copy, sent whole |
| `WebEdits` | `Board`, `IssueEdit`, `FieldsPanel`: where a page writes values computed from an old copy |
| `Board_proofs` | lemmas on `Rank` and `Board`: the order of ranks, the keys between them, where a card lands |
| `WebEdits_proofs` | the theorems of `WebEdits` |
| `Composer`, `ListView`, `ProjectChoice`, `BoardLoad`, `Session` | the parts that race with themselves, one module each |
| `WebParts` | the five, one at a time |
| `Composer_proofs` | lemmas on `Composer`: how many placeholders each edit of the draft leaves |
| `WebParts_proofs` | the theorems of `WebParts` |

`WebPages`, `WebEdits` and `WebParts` put modules side by side that share no state: `screen`,
`page` or `part` is chosen at the start, and the other modules stand still. A property
about one of them is then checked with one run for all.

### IssueLifecycle

Each variable is a column of `issues` (`row` is presence and `deleted_at`; `archived`
also says who set it) except three groups. `moveEvent`, `shelfEvent`, `snoozeEvent` are
what a subscriber reading the outbox in commit order believes: the newest event of each
family. `moving` and `linking` hold what a request or a git job has read and not yet
written. `now` is the database clock in days.

| Action | Code |
|---|---|
| `CreateIssue` | `Store.CreateIssue`; `IngestObsAlert`, first alert |
| `ReadForMove`, `TransitionIssue` | the handler's (or the rule's, or the bulk edit's) read and `CanTransition`; `Store.TransitionIssue` with its compare-and-set |
| `ReadRef`, `ApplyGitLink` | the two halves of `applyRef` |
| `IngestObsAlert` | the `FOR UPDATE` bump, and the reopening of a finished issue |
| `SetIssueArchived`, `ArchiveStaleClosed` | shelving by hand; the daily sweep |
| `SnoozeIssue`, `WakeIssue`, `WakeSnoozedIssues` | snooze and wake by hand; the 15-minute sweep |
| `SoftDeleteIssue` | `Store.SoftDeleteIssue` |

A write is split from its read exactly where the code leaves a transaction between them;
a statement, or a transaction that locks its row first, is one step. `now()` is when a
Postgres transaction began, so `SetIssueStatus` may stamp any time between the request's
read and the clock. A transition whose row no longer matches is a step that drops the
request (409 or 404). `SnoozeIssue` accepts a time the clock has just reached, since the
handler compares it before the write.

Left out: fields, labels, moves between projects, and comments, none of which touches
these columns; `updated_at`; the activity log, which only repeats the change.

### EventDispatch

`job`, `attempt` and `step` are River's view of each event's job and where its `Work`
stands; `hookIDs` is the result of the webhook query; `notified`, `automated` and
`delivered` count committed rows. Inserts made in the open transaction are invisible
until `CommitFanOut`, so they appear there and nowhere else. Work is cut at the reads
whose answers can go stale: the webhook query, the load of the issue for the payload,
the claim, and River's own bookkeeping. `TransientError` fails any of them, `Crash`
stops every running job at once, `Rescue` is River's rescuer. `syncMentions` is what
writing text does to the mention rows; `SoftDeleteComment` forgets them without an
event. A comment or a commit that loaded the issue before its deletion may still publish
after it, so an event may be about a deleted issue without being the deletion.

A mention is a row, not a name: a person dropped from a text and named again later is a
second row, and being told again is then what the code intends. Webhooks stand for those
whose filter and scope cover the event; others are never read.

`Outbox` knows neither jobs nor attempts: events are written and announced, mentions are
owed and told. The refinement maps *written* to "has a job", *announced* to "has been
fanned out", *owed* to the unstamped rows, *told* to those with a notify job.

### PageSync and the pages

A query is known by whether its copy contains every write the server has applied to what
it answers ("current") or not ("behind"); an answer under way likewise, as of now. That is
all the properties tell apart, and it spares the model every payload. `data` is the copy,
`fetch` its request, `sent` the mutations in order. `unasked` and `excused` keep why a copy
may be behind for good: a mutation that wrote it and did not refresh it, a refresh that
failed, a write of somebody else.

| Action | Code |
|---|---|
| `Open` | the page mounts; each query is loading or cached from an earlier visit |
| `Send`, `SendAndWait`, `SendAndLeave` | `mutate()`, by the kind of its `onSuccess`: a block that starts refreshes, an expression that returns their promise (and keeps `isPending` until they settle), a navigation |
| `Apply`, `Refuse`, `LoseAnswer` | the server; the network |
| `Reply`, `ReplyAndLeave` | `onSuccess`: `invalidateQueries`, `setQueryData`, `navigate` |
| `AnswerQuery`, `Arrive`, `FetchFails` | a query's request (with its one retry, `lib/queryClient.ts`) |
| `Reconnect`, `OthersWrite` | `refetchOnReconnect`; writes this page is not told of |

The behaviour of the library is modelled from how the pages use it and listed as external:
`invalidateQueries` cancels a request under way and sends it again, unless the query has no
data yet, when the refresh joins the first request; whoever awaited a cancelled request
goes on; `setQueryData` cancels nothing.

`IssuePage`, `PlanningPages` and `SettingsPages` then have one action per React component:
its guard is what must be on show and which `isPending` disables the button, its arguments
are what the server writes (read in the handlers: a patch writes a timeline entry, an
assignment adds a watcher, a comment may be the first response the SLA waits for) and what
`onSuccess` lists. `IssueLeftForLater` and its sisters are the pairs the code leaves out,
each one visible here rather than excused by the property: after a patch the timeline, after
an assignment or a comment the watchers, after a transition or an archive the open count of
the sidebar stay old until the next visit, and after a change of one's own membership so does
`my_role` of the project, which decides what the settings offer.

`WebPages` lists the controls that send the opposite, or a copy, of what is on show
(`Toggles`) and how each is held. Watching, the map of notification channels and the
deactivation of a user return the promise of their refresh, so their buttons stay disabled
until it settles. The archive button and the integration's switch are disabled until the
answer; the policies, required fields, webhooks, rules, milestones, the statuses of a column
and the components of an issue never are. `TogglesReadAsHeld` says what each of these buys: a
second click on the first kind never acts on a copy without the first click; on the second
kind it can while the refetch is on its way, on the third before the answer too; on none of
them once the page has settled, but for a refresh that failed, a write of somebody else, or a
query `LeftForLater`.

Two simplifications. A row that has a mutation of its own (`InboundRow`, `CommentCard`) is
followed as if there were one row. And a mutation that navigates away ends the model of the
page with all its queries, while the sidebar's open count ("overview") stays mounted in the code
and is not refreshed: after deleting or moving an issue it stays old until the next
visit too.

### Board, Rank, IssueEdit, FieldsPanel

`Rank` keeps the alphabet's size and the first letter as constants and the floor character
as 0; `rankAfter`, `rankBefore`, `rankMid` and `RankBetween` compute letter by letter what
`rank.go` does, with sets and sequences in place of its loops. `Board` has two statements
per rank request (`NeighbourRanks`, `SetIssueRank`), the status change as another request
(`MoveCard`), the order of the board's query (`BoardOrder`) and the copy each page shows.
An order is kept as the pairs of a card and a later one (`fresher`, `BoardOrder`, the `order`
of a copy), and `InOrder` finds the n-th card of a column by counting those above it: the
provers can reason about that, and not about a sort.
`BoardInit` includes boards ordered by earlier drags and boards nobody ordered.

`IssueEdit` holds the issue on the server, the copy, its refetch, and the form with what was
typed and what was replaced under it. The answer to a change the server made may be lost
(`AnswerLost`), which refetches nothing and leaves a form open. `SaveForm` sends the
difference to the copy on show at that moment, `ToggleTask` the copy's whole checklist with
one box changed.

`FieldsPanel` does it the other way: the effect (`SeededDraft`) replaces the whole draft when
the values on show change, and `SaveFields` sends all of it. A copy carries the fields
written since it was answered (`missed`), so that `SaveSparesSeen` can say that a field left
alone is overwritten only when the page could not have known better.

### Composer, ListView, ProjectChoice, BoardLoad, Session

Each follows one effect or handler with the state around it: `UploadEnds` is one turn of
`useAttachInsert`'s loop, `ApplyDefault` the default-view effect (run after every change it
depends on, never a step of its own), `Fallback` the effect of `lib/project.tsx`, `Loading`
the paging effect, `TryRefresh` / `ServerRefreshes` / `RefreshArrives` the three stages of
`tryRefresh` with `refreshInFlight` shared among the badge, `me` and a request of the page;
`ExchangeFails` is the handler's one branch for every error of the exchange, a provider that
is down included, which clears both cookies.

In `ProjectChoice` projects are on the server and listed (`existing`) or not (`archived`), and
both hold their key. Others archive and unarchive them (`archiveProject`; `updateProject` with
`is_archived`), and create and rename them (`TakeKey`, the one constraint being that keys are
unique: a key given up by a rename is free at once). A list holds `MaxListed` projects at
most, 200 in `listProjects`. `unlisted` remembers that, since the user's choice or the load of
the page, the server could have listed projects without the chosen one; nothing in the page
can tell that from a project that is gone, and the fallback is then what the code intends,
even if the project has come back by the time it runs.

## Runs

| Run | Instance | Shows |
|---|---|---|
| `lifecycle_races` | 1 issue, 2 movers, 2 git jobs, no clock, symmetric | event agreement, graph, frozen deletions under every interleaving of two requests and two references |
| `lifecycle_clock` | 1 issue, 1 mover, 1 git job, 3 days, window 1 day, a snooze of 1 day | dates, shelves, snoozes |
| `git_race` | 1 issue, 1 mover, 1 git job | **violated**: `WorkflowRespected` |
| `regression_hidden` | 1 issue, 1 mover, 3 days | **violated**: `LiveWorkStaysVisible` |
| `dispatch` | 2 events (one the deletion), 1 webhook, 2 mentions (one of oneself), 2 attempts, 1 fault | atomic fan-out, mentions, refinement, liveness |
| `dispatch_duplicate` | the same | **violated**: `ExactlyOnce` |
| `dispatch_lost` | the same, no fault | **violated**: `NeverLost` |
| `web_pages` | any page, one query of it watched, 2 mutations that concern it, 2 surprises | own writes come to show, a toggle is sent off an old copy only as far as its control lets it, buttons come back, under every order of answers, refetches, failures and losses |
| `web_edits` | 3 cards, 2 columns, 1 page, 2 drops, 3 letters; an issue of 2 boxes, 2 changes, 1 mishap; 2 fields, 2 saves, 2 incidents | ranks leave room, drops land on an ordered board, saves spare what was neither typed nor replaced, a tick on a settled page is alone, a custom field left alone is overwritten only by a page that had not seen it change |
| `web_parts` | 2 names and 2 pastes; 2 projects; 3 keys, lists of 2 projects, 2 lists or reloads; 3 pages and 2 refetches; 2 expiries, 1 loss, 2 visits | placeholders go, typed filters stay, the choice is kept, the board loads, the session is kept and ends quietly |
| `edit_reverts` | as `web_edits` | **violated**: `SaveWritesOnlyTyped` |
| `drop_lands` | as `web_edits` | **violated**: `DropLands` |

Why these bounds are enough. No action of `IssueLifecycle` but the two sweeps reads or
writes two issues, and a sweep treats each on its own, so one issue shows everything a
property about each issue can see. A race over one row needs two writers of a kind at
most: a third only repeats one of them. Three days are a window, the day it is over, and
one more, so a closed issue can be swept, reopened and meet the sweep again. Two events
are the least at which one job's claim takes what another recorded; two attempts and one
fault give an attempt that fails and one that follows. The proofs remove all of these
bounds for the safety properties.

`MaxTime` caps the clock and `MaxFaults` the failures; nothing else is bounded by hand in
the two backend modules.

No step of `PageSync` relates the copies of two queries, so a page is watched through one at a
time, whichever it is (`MaxWatched`), and mutations that neither write nor refresh it are left
out but for those that leave the page. Two mutations are the first write and the one that
meets its refresh; two surprises are a failure and a write of another's, or a reconnection
that meets either. The proofs remove these bounds for the safety properties of `WebPages`. Two
drops (`MaxDrops`) are a drop and another that races it or moves its neighbours; three cards
are two neighbours and one between; three letters make the alphabet run out after two keys,
which 35 letters would do only after many more. Two changes and one mishap (`MaxRequests`,
`MaxMishaps`: somebody else's edit, a reconnection, a refetch that fails or an answer that is
lost) are a form or a tick and what happens under it; two saves and two incidents (`MaxSaves`,
`MaxIncidents`, the same four) a colleague's save and the refetch that brings it under an open
editor. In `web_parts` each bound is the second of its kind: two uploads of one name, a
default set and cleared, a list from before and one from after a creation, a failure and the
refetch that clears its latch, two expiries so that a token is spent twice. Three keys are one
project more than a list of `MaxListed` holds, and one to rename to; a loss (`MaxLosses`) is a
request, a refresh or an exchange that fails. `MaxMarks`, `MaxViewEdits`, `MaxListings`,
`MaxRefreshes`, `MaxExpiries`, `MaxLosses` and `MaxVisits` bound what people and the network
do, never the code. The web runs may stop when these are used up, so they do not check for
deadlock; what must still happen then is a liveness property.

### What the violated runs show

* `git_race`. A git job reads an open issue and may resolve it; a person blocks it; the
  job writes. `setIssueStatusSQL` without the compare-and-set makes blocked -> resolved,
  an edge the graph does not have, which the comment in `applyRef` sets out to prevent.
* `regression_hidden`. A closed issue is swept to the shelf; an alert reopens it;
  `archived_at` stays. The comment on `ArchiveStaleClosed` describes live work vanishing
  from every list as the fault it repaired on another path.
* `dispatch_duplicate`. The fan-out commits, the mention claim fails, `Work` returns the
  error, and River repeats the whole job: everything twice, deliveries with new ids.
  `DuplicatesNeedFaults` says how far this can go: once more per fault.
* `dispatch_lost`. `issue.deleted` for an issue with a subscribed webhook: the payload
  query only finds live issues, so each attempt rolls back and the job is discarded.
* `edit_reverts`. A priority changed in the rail is being refetched as the form opens on the
  old copy; the user edits the description and saves. The form is compared with the new
  copy, so the priority looks edited and its old value is sent. The comment at the
  comparison says only what the user changed is sent. `SaveSparesUntouched` is what
  does hold: a field neither typed in nor replaced meanwhile is never written.
* `drop_lands`. On a board nobody has ordered the two neighbours have no rank; the server
  gives the card the first letter, and ranked cards sort above unranked ones, so it goes to
  the top of its column wherever it was dropped. `DropLandsInOrder` is what holds: the card
  lands in its gap on a column with distinct ranks, unless it came from further up the
  same column, when the gap is counted with the card still in it.

Also met, and not a run: `docs/ARCHITECTURE.md` says every mutation inserts a dispatch
job, while `ArchiveStaleClosed`, `SoftDeleteComment` and `SetIssueRank` publish nothing
(the last says why). `ManualShelfAnnounced` and `MentionToldOnce` are stated so that they
hold with the silent paths present.

In the client: a refresh lost on the network stops the badge of a live session until something
else fetches it, and a refresh that meets an identity provider that is down signs the user
out, for `/auth/refresh` clears the cookies on any error (`KeptSignedIn` is about a network
that loses nothing and a provider that answers). When the answer to a ticked box is lost, the
page shows the box unticked, and the next tick, which sends the whole description, takes the
first back on the server (`SettledTickIsAlone` excepts it). The archive button is enabled
again before the issue has been fetched, so a quick second click archives once more instead of
restoring. Two pasted screenshots have one name, so whichever upload ends first takes the
other's place in the text; no placeholder is lost by it. Text typed while a comment is being
posted is wiped with the draft. Cancelling the custom fields keeps what was typed for the next
time they are opened, and a refetch that brings a change to one of them wipes what was typed
in all. A project's default view is applied again on coming back to the project from another,
because only the last one decided on is remembered; the comment says once per project, and
`TypedKept` is stated as far as the code keeps it. A project created while an older list is on
its way may be bounced by that list; so may one that is archived and back by the time its user
looks, and any beyond the first 200, which cannot be chosen for longer than until the next
list arrives. `unlisted` excepts these.

## Fairness

Only what a scheduler guarantees. `IssueLifecycle`: time passes, and the wake sweep is a
periodic River job that runs again while something is due (`worker.go`, every 15
minutes). No person, rule, commit or alert is obliged to act, and the archive sweep,
whose setting may be off, is not assumed. `EventDispatch`: River polls, runs what it
fetched, and rescues what a dead worker left (weak fairness of each job's progress);
transient errors and crashes are bounded by `MaxFaults` and are never required.
`EventuallyAnnounced` and `MentionsSettle` stop at a deleted issue because that is where
`dispatch_lost` shows the code stops. The run has more attempts than faults: with as many
transient failures as attempts a job is discarded, which is River's design.

`WebPages`: the server handles what it receives and answers are delivered, but for those a
surprise loses (bounded by `MaxSurprises`); nobody is obliged to click. `WebParts`: an upload
ends well or badly, a request for a page arrives or fails, each requester's request and
refresh go on, the badge's interval fires while it is set, and the access cookie expires.
The identity provider's session need never end. `WebEdits` has safety properties only.

## Proofs

`IssueLifecycle_proofs`: from `LifecycleAssumption` alone, for any sets of issues,
movers, git jobs and snooze times. The inductive invariant `IInv` is the type invariant,
the four invariants the runs check, and two facts they need: an absent issue is blank
(so that creation yields an open, undated, unshelved issue announced by
`issue.created`), and what a mover holds is a legal move (so that the compare-and-set,
which re-establishes `from`, makes the written move legal). `FinishedIsStamped` is
inductive only together with the types: a move between two finished statuses keeps the
date, which must have been there. Action properties follow from `IInv` step by step:
`OnlyGitLeavesGraph`, its corollary that without git jobs the graph is always respected,
`DeletedIsFrozen`, `OnlyReopeningHidesWork`, `ResolutionDates`.

`EventDispatch_proofs`: from `DispatchAssumption`, for any events, webhooks, mentions,
attempt limit and number of faults. `IInv` adds that a waiting job has an attempt left
and `PaidFor`: a job that may still fan out has paid a fault for each fan-out it has
made. That is what `DuplicatesNeedFaults` lacks: by itself it does not survive a retry.
The refinement maps each action to an `Outbox` step or a stutter; a claim that finds
nothing stutters.

`WebPages_proofs`: from `PageSyncAssumption`, for any number of queries watched, mutations
sent and surprises. Each mutation is first shown `Honest`, page by page: what it writes it
refreshes, is listed as left for later, or is left behind with the page. After that the pages
no longer matter and the argument is about `PageSync` alone. `PageCatchesUp` speaks of settled
queries and is not inductive; `Fresh` also says why a query under way is behind: a copy or an
answer without the latest write is accounted for by an excuse, by a mutation known not to
refresh it, or by one that has been applied and not yet answered, unless a request sent after
the write is there to replace it. `TogglesReadAsHeld` needs more of the pages (`ToggleSafe`):
that a toggle held in either way is not sent while it is pending, that one held until it is
refreshed waits for the query it reads (`HonestToggle`), and that no mutation refreshes what a
toggle reads without writing it. What is then inductive is `Awaited`: the copy a toggle reads
is behind for a known reason or for the write of a mutation, and if that is the toggle itself
and held until it is refreshed, it is still pending. That the write is on its way to the page,
and the copy not old for good, comes from `Fresh`.

`WebEdits_proofs`, from the assumptions of `Rank`, `Board`, `IssueEdit` and `FieldsPanel`, for
any number of cards, columns, people, boxes, fields and requests:

* The board. For every alphabet and every length, what sorts before what is a strict total
  order of words (`SortsBeforeOrder`), and `rankAfter`, `rankBefore` and `rankMid` write a key
  on the side they should that does not end in the floor (`RankAfterFits`, `RankBeforeFits`,
  `RankMidFits`). `RankBetweenFits` is inductive once the keys a drop has read and not yet
  used are ranks too (`BoardInv`): two drops that race each write a rank that may be out of
  place, never one beside which nothing fits. `DropLandsInOrder` speaks of a drop that is
  over; `QuietInv` follows it from the moment it is made. The neighbours it names are a gap of
  the column (`AimsAtGap`), which stays one while the card itself moves and nothing else does;
  the keys read are those of the two neighbours, and the key written lies between them.
  Then nothing can stand between the card and either neighbour (`SideBySide`). That the
  card does not come from further up is used where the neighbours are counted: only then is
  every place up to the gap the same with the card in the column and without it
  (`SamePlaces`).
* The issue. `EditInv` says where a form may differ from the copy on show
  (`FormHonest`); that, as long as nobody else writes, no refetch fails and no answer is lost, a
  copy that is not the server's has a change applied whose answer will replace it (`CopyFollows`); and that a
  tick sent from a settled page agrees with the server but for its own box until a
  change sent after it is written (`TickHonest`).
* The custom fields. A copy differs from the server only where it is known to have missed a
  write (`CopyHonest`), on show, in an answer under way, and in a save under way.

`WebParts_proofs`, from the assumptions of the five modules, for any number of pages,
refetches, projects, pastes, requesters, expiries and losses. `LoadInv`: a failed page is
asked for again only when a refetch has cleared the latch, so failures exceed refetches by one
at most. `ListInv`: once a project's views are there its default has been decided, so what
comes later applies none. `ChoiceInv`: the key kept in localStorage is the project wanted, so
a reload comes back to it; and as long as `unlisted` is false that project exists, all that
exist fit on a list, a list on its way holds it, and it is the choice. The keys there can be
are finite (they have at most ten letters and digits), which is what makes a list that is not
full the list of all (`TakenKeys`, `LeftByOthers` and `ChoiceUndisturbed` follow what each
step leaves of this). `SessionInv`: while the session lives, nothing is lost and the exchange
meets no error (`Healthy`), no refresh fails, at most one is under way, it carries the current
token, the cookie holds that token unless the answer that brings it is on its way, and a
request sent again finds the new access cookie. `ComposerInv` counts: `PlaceholderPerUpload`
is inductive, given how many occurrences of a mark a replacement of the first one leaves, an
erasure, an insertion and a cleared draft.

Induction over the natural numbers is by the least counterexample: `LeastNatural` takes
the least element of a set of numbers from the well-foundedness of strict inclusion on
finite sets, and `IterationExists` that a function defined by recursion over `1..n` exists,
which `BoardInit` needs for boards ordered by earlier drags.

Every safety property of a passing run is proved. Only model-checked are the liveness
properties (`SnoozeEnds`, `EventuallyAnnounced`, `MentionsSettle`, `OwnWriteShows`,
`ButtonsComeBack`, `PlaceholdersGo`, `BoardLoads`, `DeadTabGoesQuiet`, `RequestsEnd`), which
are beyond this prover. Refuted by runs and so not theorems: `WorkflowRespected` (but for no
git jobs), `LiveWorkStaysVisible`, `ExactlyOnce`, `NeverLost`, `SaveWritesOnlyTyped`,
`DropLands`.

## Plan

In order of what the system most depends on; each with runs at 2 of each actor, its
invariant proved, and the abstract specification named.

1. `WebhookDelivery`: the delivery job from the fan-out to dead or success, redelivery
   racing it, deactivation, lookup errors, crash after the post. Abstract: a delivery row
   tells the truth about the last attempt. Then `HostGate`: the queue's five workers and
   the slots per host.
2. `Iterations` with `MoveIssue`: one active iteration per project, commitment fixed at
   the first activation, carry-over, snapshots, issues that leave the project.
3. `SLA`: targets, claims and announcements over reopening and policy edits. Abstract:
   each escalation announced once.
4. `Automation` and `NotifyInbox`: the two consumers of the fan-out; loop guard, partial
   application, unread upsert against reading, push retries.
5. `ConnPool`: dispatchers and requests over a bounded pool.
6. `Accounts`, `JWKSCache`, `RateLimit`, `LogShip`: small, each with one or two properties
   of its own.
7. In the client: the draft of the project settings, after the pattern of `FieldsPanel`; two
   tabs that share the cookies of `Session`.

Theorems worth having there: the truth of a delivery row, one active iteration, one
escalation per issue and kind, the slot and budget bounds.

## Not modelled, and why

Filters, search, export and reports are reads that turn a query into SQL. Text parsing
(mentions, keys, commit verbs) is string scanning; its results are members of a set
here. Custom fields, templates, labels, milestones, releases, reactions, time entries
and settings are rows written by single statements under unique keys, with validation in
one handler; what their pages do with them is in `PlanningPages` and `SettingsPages`. The
sign-in exchange, routing, the CLI and migrations keep no state another actor of the system
can disturb.

Of the client: rendering, formatting and keyboard shortcuts; the dashboard, reports, my work
and the search palette, which only read; the list's selection and cursor, which survive a
reload of the rows but relate to nothing on the server; the lanes of the board, a grouping
of the same cards; API tokens and the login exchange; several tabs of one browser. The
backend parts listed in the plan are not modelled yet, and `PROJECT.json` says so for each.

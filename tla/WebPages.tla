------------------------------ MODULE WebPages ------------------------------
(***************************************************************************)
(* The web client, one page at a time: what each page's mutations refresh,  *)
(* against what they change.                                                *)
(***************************************************************************)
EXTENDS IssuePage, PlanningPages, SettingsPages, TLC

KeysOf == IssueKeys @@ PlanningKeys @@ SettingsKeys

TypeOK == screen \in DOMAIN KeysOf \cup {"left"} /\ PageSyncTypeOK

Init == Open(KeysOf)

Next == IssueMutation \/ PlanningMutation \/ SettingsMutation \/ Sync

Spec == Init /\ [][Next]_pageVars /\ SyncFairness

-----------------------------------------------------------------------------
LeftForLater == IssueLeftForLater \cup PlanningLeftForLater \cup SettingsLeftForLater

\* The query k is settled: nothing that could change its copy is on its way.
Settled(k) ==
  /\ fetch[k] = "idle"
  /\ \A i \in Clicks : sent[i].at = "applied" => k \notin sent[i].writes

\* A page comes to show everything its own mutations changed: whatever the order of their
\* answers and of the refetches, a settled query is behind only because its refresh failed,
\* somebody else wrote, or a mutation is known not to refresh it.
PageCatchesUp ==
  \A k \in Queries : data[k] = "behind" /\ Settled(k) =>
    k \in excused \/ \E u \in unasked \cap LeftForLater : u[2] = k

\* The controls that send the opposite, or a copy, of what the page shows, with the query they
\* read: whether one watches, archives or activates something, a whole map of channels, and the
\* lists of a column's statuses and of an issue's components.
Toggles == [
  watch          |-> "watchers",
  savePrefs      |-> "notification-prefs",
  setActive      |-> "users",
  archive        |-> "issue",
  saveIntegration   |-> "integration-settings",
  setMilestoneState |-> "milestones",
  updateField    |-> "field-definitions",
  togglePolicy   |-> "sla-policies",
  toggleHook     |-> "webhooks",
  toggleRule     |-> "automation-rules",
  patchCol       |-> "board",
  patch          |-> "issue"]

\* Only these are disabled until the refresh of their own write has settled, for their onSuccess
\* returns its promise...
HeldUntilRefreshed == {"watch", "savePrefs", "setActive"}

\* ...and these until they are answered.  The others are never disabled.
HeldUntilAnswered == {"archive", "saveIntegration"}

Sends(m) == Len(sent') > Len(sent) /\ sent'[Len(sent')].name = m

Explained(k) ==
  \/ k \in excused
  \/ \E u \in unasked : u[2] = k

\* The copy of k may lack what the mutation i wrote: its answer, or a refetch, is on its way.
MayLack(k, i) == k \in sent[i].writes /\ (sent[i].at = "applied" \/ fetch[k] \in {"asked", "current"})

\* The toggle t may be sent before the page shows what its own click i did.
MayOutrun(t, i) ==
  /\ t \notin HeldUntilRefreshed
  /\ t \in HeldUntilAnswered => sent[i].at = "answered"

\* How far a toggle can be sent off an old copy.  One held until it is refreshed never outruns
\* its own earlier click; one held until it is answered does only while the refetch is on its
\* way; one never held does also before the answer.  Beyond that a toggle's copy is old only for
\* another mutation under way or for a known reason: none stays old when the page has settled.
TogglesReadAsHeld ==
  [][\A t \in DOMAIN Toggles : \A k \in Queries \cap {Toggles[t]} :
       Sends(t) /\ data[k] = "behind" =>
         Explained(k) \/ \E i \in Clicks : MayLack(k, i) /\ (sent[i].name = t => MayOutrun(t, i))]_pageVars

\* Whoever writes sees the result: a copy behind for no known reason does not stay so.
OwnWriteShows ==
  []<>(\A k \in Queries : data[k] = "behind" => Explained(k))

\* No button stays disabled: every mutation is answered, and the refreshes it waits for end,
\* though others restart them or they fail.
ButtonsComeBack ==
  []<>(\A i \in Clicks : ~Pending(sent[i].name))
=============================================================================

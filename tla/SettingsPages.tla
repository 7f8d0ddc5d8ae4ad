--------------------------- MODULE SettingsPages ---------------------------
(***************************************************************************)
(* The settings: one page per section of features/settings, and the         *)
(* settings of a project.  As in IssuePage, one action per section.         *)
(***************************************************************************)
EXTENDS PageSync

SettingsKeys == [
  project       |-> {"project", "projects"},
  components    |-> {"components"},
  templates     |-> {"templates"},
  fieldDefs     |-> {"field-definitions"},
  sla           |-> {"sla-policies"},
  team          |-> {"project-members", "project"},
  archive       |-> {"archive-settings"},
  webhooks      |-> {"webhooks", "webhook-deliveries"},
  members       |-> {"users"},
  labels        |-> {"labels"},
  tokens        |-> {"tokens"},
  notifications |-> {"notification-prefs"},
  profile       |-> {"me", "users"},
  automation    |-> {"automation-rules"},
  integrations  |-> {"integration-settings"},
  views         |-> {"saved-searches", "all-views"}]

\* The kinds of editing a section offers on the list k of its page.  A row's button is shown
\* with the row; "guarded" is a control disabled while the mutation is pending.
Row(page, k, m) == screen = page /\ Loaded(k) /\ SendAndWait(m, {k}, {k})
GuardedRow(page, k, m) == ~Pending(m) /\ Row(page, k, m)
Form(page, k, m) == screen = page /\ Send(m, {k}, {k})
GuardedForm(page, k, m) == ~Pending(m) /\ Form(page, k, m)

-----------------------------------------------------------------------------
(* The settings of a project. *)

\* Its name and defaults; its key, which reloads the application under the new one; and
\* archiving it, which leaves for the dashboard.
ProjectSettings ==
  /\ screen = "project" /\ Loaded("project")
  /\ \/ ~Pending("saveProject") /\ Send("saveProject", {"project", "projects"}, {"project", "projects"})
     \/ ~Pending("renameKey") /\ SendAndLeave("renameKey", {"project", "projects"})
     \/ ~Pending("archiveProject") /\ SendAndLeave("archiveProject", {"project", "projects"})

\* Enter creates without looking at isPending.
ComponentsSection ==
  \/ Form("components", "components", "createComponent")
  \/ Row("components", "components", "updateComponent")
  \/ Row("components", "components", "deleteComponent")

TemplatesSection ==
  \/ GuardedForm("templates", "templates", "saveTemplate")
  \/ Row("templates", "templates", "setDefaultTemplate")
  \/ Row("templates", "templates", "deleteTemplate")

FieldsSection ==
  \/ GuardedForm("fieldDefs", "field-definitions", "createField")
  \/ Row("fieldDefs", "field-definitions", "updateField")
  \/ Row("fieldDefs", "field-definitions", "deleteField")

SLASection ==
  \/ GuardedRow("sla", "sla-policies", "createPolicy")
  \/ Row("sla", "sla-policies", "togglePolicy")
  \/ Row("sla", "sla-policies", "deletePolicy")

\* The roles people have in the project.  One's own decides what the page offers (my_role of
\* "project"), and is not fetched again when one changes it.
ProjectMembersSection ==
  /\ screen = "team"
  /\ \E mine \in BOOLEAN :
       LET written == {"project-members"} \cup (IF mine THEN {"project"} ELSE {}) IN
       \/ ~Pending("putMember") /\ Send("putMember", written, {"project-members"})
       \/ /\ ~Pending("removeMember") /\ Loaded("project-members")
          /\ SendAndWait("removeMember", written, {"project-members"})

-----------------------------------------------------------------------------
(* The settings of the instance and of the account. *)

ArchiveSection == GuardedRow("archive", "archive-settings", "saveArchive")

WebhooksSection ==
  \/ GuardedForm("webhooks", "webhooks", "createHook")
  \/ Row("webhooks", "webhooks", "toggleHook")
  \/ Row("webhooks", "webhooks", "deleteHook")

\* A delivery that failed or died is sent again.
DeliveryLog == GuardedRow("webhooks", "webhook-deliveries", "redeliver")

\* Roles of the instance, and who may sign in.
MembersSection ==
  \/ GuardedRow("members", "users", "setUserRole")
  \/ GuardedRow("members", "users", "setActive")

\* Creating (Enter does not look at isPending); editing, merging and deleting a label.
LabelsSection ==
  \/ Form("labels", "labels", "createLabel")
  \/ \E m \in {"updateLabel", "mergeLabel"} : Loaded("labels") /\ GuardedForm("labels", "labels", m)
  \/ GuardedRow("labels", "labels", "deleteLabel")

\* Enter creates without looking at isPending.
TokensSection ==
  \/ Form("tokens", "tokens", "createToken")
  \/ GuardedRow("tokens", "tokens", "revokeToken")

\* One event's channel: the whole map on show is sent, with that entry changed.
NotificationsSection == GuardedRow("notifications", "notification-prefs", "savePrefs")

\* Enter saves without looking at isPending; the answer is put in the cache as it is.
ProfileSection ==
  /\ screen = "profile" /\ Loaded("me")
  /\ Mutate("saveProfile", {"me", "users"}, {"users"}, {"me"}, FALSE, FALSE)

AutomationSection ==
  \/ \E m \in {"createRule", "editRule"} : GuardedForm("automation", "automation-rules", m)
  \/ Row("automation", "automation-rules", "toggleRule")
  \/ Row("automation", "automation-rules", "deleteRule")

\* An inbound integration: switched, given a secret, or put back to the configuration file.
InboundRow == Loaded("integration-settings") /\ GuardedForm("integrations", "integration-settings", "saveIntegration")

\* One's own views: edit, delete, and share into a project.
PersonalViews ==
  /\ screen = "views" /\ Loaded("saved-searches")
  /\ \/ ~Pending("updateSearch") /\ Send("updateSearch", {"saved-searches"}, {"saved-searches", "all-views"})
     \/ ~Pending("deleteSearch") /\ Send("deleteSearch", {"saved-searches"}, {"saved-searches", "all-views"})
     \/ /\ ~Pending("shareSearch")
        /\ Send("shareSearch", {"saved-searches", "all-views"}, {"saved-searches", "all-views"})

\* Every project's shared views: edit and delete.
AllSharedViews ==
  /\ screen = "views" /\ Loaded("all-views")
  /\ \E m \in {"updateView", "deleteView"} : ~Pending(m) /\ Send(m, {"all-views"}, {"all-views"})

SettingsMutation ==
  \/ ProjectSettings \/ ComponentsSection \/ TemplatesSection \/ FieldsSection \/ SLASection
  \/ ProjectMembersSection \/ ArchiveSection \/ WebhooksSection \/ DeliveryLog \/ MembersSection
  \/ LabelsSection \/ TokensSection \/ NotificationsSection \/ ProfileSection
  \/ AutomationSection \/ InboundRow \/ PersonalViews \/ AllSharedViews

\* An answer to "me" that was on its way is put over the saved profile (setQueryData does
\* not cancel it), and so is the answer of an earlier save that comes after a later one's.
SettingsLeftForLater ==
  ({"saveProfile"} \X {"me"}) \cup ({"putMember", "removeMember"} \X {"project"})
=============================================================================

-------------------------- MODULE WebPages_proofs --------------------------
(***************************************************************************)
(* A page catches up with its own writes, and its toggles are sent off an   *)
(* old copy only as far as their controls let them, whatever the number of   *)
(* queries watched, of mutations sent and of surprises.                     *)
(***************************************************************************)
EXTENDS WebPages, TLAPS

-----------------------------------------------------------------------------
\* The mutations sent are a sequence of records; what their fields hold is in TypeOK.
SentType ==
  /\ \E S : sent \in Seq(S)
  /\ \A i \in Clicks : DOMAIN sent[i] = {"name", "at", "writes", "refreshes", "sets", "waits", "leaves",
                                        "awaits", "overtaken"}

\* What a mutation writes it refreshes, is known not to, or is left behind with its page;
\* and it puts in the cache only what it wrote.  A toggle held until it is refreshed waits
\* for its refresh, and nothing refreshes what a toggle reads but by writing it.
Covered ==
  \A i \in Clicks :
    /\ sent[i].sets \subseteq sent[i].writes
    /\ \/ sent[i].leaves
       \/ \A k \in sent[i].writes : k \in sent[i].refreshes \/ <<sent[i].name, k>> \in LeftForLater
    /\ \A t \in DOMAIN Toggles :
         /\ sent[i].name = t /\ t \in HeldUntilRefreshed => sent[i].waits
         /\ Toggles[t] \in sent[i].refreshes => Toggles[t] \in sent[i].writes

\* A copy or an answer without the latest write of k has a reason for which it may stay, or
\* the mutation that made it so has yet to be answered.
Accounted(k) ==
  \/ k \in excused
  \/ \E u \in unasked \cap LeftForLater : u[2] = k
  \/ \E i \in Clicks : sent[i].at = "applied" /\ k \in sent[i].writes

Fresh(k) ==
  /\ fetch[k] = "behind" => Accounted(k)
  /\ data[k] = "behind" => Accounted(k) \/ fetch[k] \in {"asked", "current"}

\* The copy a toggle reads is behind for a known reason or for a mutation of this page; if
\* that is the toggle itself, held until it is refreshed, it is still pending.
Awaited(t) ==
  Toggles[t] \in Queries /\ data[Toggles[t]] = "behind" =>
    \/ Explained(Toggles[t])
    \/ \E i \in Clicks :
         /\ Toggles[t] \in sent[i].writes
         /\ sent[i].name = t /\ t \in HeldUntilRefreshed =>
              sent[i].at = "applied" \/ Toggles[t] \in sent[i].awaits

IInv ==
  /\ TypeOK /\ SentType /\ Covered
  /\ \A k \in Queries : Fresh(k)
  /\ \A t \in DOMAIN Toggles : Awaited(t)

-----------------------------------------------------------------------------
\* The mutations of the pages, for all their properties matter here: what they
\* write they refresh, leave for later, or leave behind; and a toggle that is held is not sent
\* while it is pending.
ToggleSafe(m, W, R, waits) ==
  \A t \in DOMAIN Toggles :
    /\ m = t /\ t \in HeldUntilRefreshed \cup HeldUntilAnswered => ~Pending(t)
    /\ m = t /\ t \in HeldUntilRefreshed => waits = TRUE
    /\ Toggles[t] \in R => Toggles[t] \in W

Honest(m, W, R, S, waits, leaves) ==
  /\ Mutate(m, W, R, S, waits, leaves)
  /\ S \subseteq W
  /\ leaves \/ \A k \in W : k \in R \/ <<m, k>> \in LeftForLater
  /\ ToggleSafe(m, W, R, waits)

HonestMutation == \E m, W, R, S, waits, leaves : Honest(m, W, R, S, waits, leaves)

ToggleReads == {Toggles[t] : t \in DOMAIN Toggles}

Held == {"watch", "savePrefs", "setActive", "archive", "saveIntegration"}

\* The queries the toggles read, one by one.
LEMMA Reads ==
  ToggleReads = {"watchers", "notification-prefs", "users", "issue", "integration-settings",
                 "milestones", "field-definitions", "sla-policies", "webhooks",
                 "automation-rules", "board"}
BY DEF ToggleReads, Toggles

\* A mutation that is not held, if it refreshes what toggles read only when it writes it, is
\* safe.
LEMMA NotHeld ==
  ASSUME NEW m, m \notin Held, NEW W, NEW R, R \cap ToggleReads \subseteq W, NEW waits
  PROVE  ToggleSafe(m, W, R, waits)
BY DEF ToggleSafe, ToggleReads, Held, HeldUntilRefreshed, HeldUntilAnswered

\* One held until it is answered, if it is not pending.
LEMMA HeldIsSafe ==
  ASSUME NEW m \in HeldUntilAnswered, ~Pending(m), NEW W, NEW R, R \cap ToggleReads \subseteq W, NEW waits
  PROVE  ToggleSafe(m, W, R, waits)
BY DEF ToggleSafe, ToggleReads, HeldUntilRefreshed, HeldUntilAnswered

\* A mutation that refreshes what it writes, or all but what is left for later, is honest.
LEMMA HonestSend ==
  ASSUME NEW m, NEW W, NEW R, \A k \in W : k \in R \/ <<m, k>> \in LeftForLater,
         m \notin Held \/ (m \in HeldUntilAnswered /\ ~Pending(m)), R \cap ToggleReads \subseteq W,
         Send(m, W, R) \/ SendAndWait(m, W, R)
  PROVE  HonestMutation
<1>1. \A waits \in BOOLEAN : ToggleSafe(m, W, R, waits) BY NotHeld, HeldIsSafe
<1>2. CASE Send(m, W, R)
  <2> Honest(m, W, R, {}, FALSE, FALSE) BY <1>1, <1>2 DEF Send, Honest
  <2> QED BY DEF HonestMutation
<1>3. CASE SendAndWait(m, W, R)
  <2> Honest(m, W, R, {}, TRUE, FALSE) BY <1>1, <1>3 DEF SendAndWait, Honest
  <2> QED BY DEF HonestMutation
<1> QED BY <1>2, <1>3

\* The common case: everything written is refreshed.
LEMMA HonestSendAll ==
  ASSUME NEW m, NEW W, NEW R, W \subseteq R,
         m \notin Held \/ (m \in HeldUntilAnswered /\ ~Pending(m)), R \cap ToggleReads \subseteq W,
         Send(m, W, R) \/ SendAndWait(m, W, R)
  PROVE  HonestMutation
<1> \A k \in W : k \in R \/ <<m, k>> \in LeftForLater OBVIOUS
<1> QED BY HonestSend

\* A toggle held until it is refreshed refreshes the one query it reads and writes, and waits
\* for it.
LEMMA HonestToggle ==
  ASSUME NEW t \in HeldUntilRefreshed, ~Pending(t), SendAndWait(t, {Toggles[t]}, {Toggles[t]})
  PROVE  HonestMutation
<1>1. ToggleSafe(t, {Toggles[t]}, {Toggles[t]}, TRUE) BY DEF ToggleSafe
<1>2. Honest(t, {Toggles[t]}, {Toggles[t]}, {}, TRUE, FALSE) BY <1>1 DEF SendAndWait, Honest
<1> QED BY <1>2 DEF HonestMutation

\* A navigation leaves every query behind with its page.
LEMMA HonestLeave ==
  ASSUME NEW m, m \notin Held, NEW W, SendAndLeave(m, W)
  PROVE  HonestMutation
<1> Honest(m, W, {}, {}, FALSE, TRUE) BY NotHeld DEF SendAndLeave, Honest
<1> QED BY DEF HonestMutation

\* What the issue page leaves for later, pair by pair.
LEMMA Left ==
  /\ <<"transition", "overview">> \in LeftForLater
  /\ <<"archive", "overview">> \in LeftForLater
  /\ <<"patch", "activity">> \in LeftForLater
  /\ <<"assign", "activity">> \in LeftForLater
  /\ <<"pasteImage", "activity">> \in LeftForLater
  /\ <<"setIteration", "activity">> \in LeftForLater
  /\ <<"logTime", "activity">> \in LeftForLater
  /\ <<"assign", "watchers">> \in LeftForLater
  /\ <<"addComment", "watchers">> \in LeftForLater
  /\ <<"save", "watchers">> \in LeftForLater
  /\ <<"addComment", "issue">> \in LeftForLater
  /\ <<"addComment", "time">> \in LeftForLater
  /\ <<"saveProfile", "me">> \in LeftForLater
  /\ <<"putMember", "project">> \in LeftForLater
  /\ <<"removeMember", "project">> \in LeftForLater
BY DEF LeftForLater, IssueLeftForLater, PlanningLeftForLater, SettingsLeftForLater

\* Every mutation of the issue page is honest.
LEMMA HonestIssue ==
  ASSUME IssueMutation
  PROVE  HonestMutation
<1> USE HonestSendAll, Reads DEF Held
<1>1. CASE markIssueRead BY <1>1 DEF markIssueRead
<1>2. CASE StatusControl BY <1>2, HonestSend, Left DEF StatusControl, transition
<1>3. CASE RailSelects BY <1>3, HonestSend, Left DEF RailSelects, patch
<1>4. CASE AssigneeControl BY <1>4, HonestSend, Left DEF AssigneeControl
<1>5. CASE ProjectControl BY <1>5, HonestLeave DEF ProjectControl, move
<1>6. CASE menu
  <2>1. CASE ~Pending("archive") /\ archive
    <3> "archive" \in HeldUntilAnswered BY DEF HeldUntilAnswered
    <3> QED BY <2>1, HonestSend, Left DEF archive
  <2>2. CASE del BY <2>2, HonestLeave DEF del
  <2> QED BY <1>6, <2>1, <2>2 DEF menu
<1>7. CASE SnoozeControl BY <1>7 DEF SnoozeControl, snooze
<1>8. CASE CommentBox
  <2>1. PICK spend \in BOOLEAN :
          Send("addComment",
               {"comments", "activity", "watchers", "issue"} \cup (IF spend THEN {"time"} ELSE {}),
               {"comments", "activity"})
    BY <1>8 DEF CommentBox, addComment
  <2> DEFINE W == {"comments", "activity", "watchers", "issue"} \cup (IF spend THEN {"time"} ELSE {})
  <2>2. \A k \in W : k \in {"comments", "activity"} \/ <<"addComment", k>> \in LeftForLater
    BY Left
  <2> HIDE DEF W
  <2> QED BY <2>1, <2>2, HonestSend DEF W
<1>9. CASE WatchButton
  <2> "watch" \in HeldUntilRefreshed /\ Toggles["watch"] = "watchers" BY DEF Toggles, HeldUntilRefreshed
  <2> QED BY <1>9, HonestToggle DEF WatchButton
<1>10. CASE LinkedIssues BY <1>10 DEF LinkedIssues
<1>11. CASE useAttachInsert BY <1>11, HonestSend, Left DEF useAttachInsert
<1>12. CASE AttachmentsSection BY <1>12 DEF AttachmentsSection
<1>13. CASE Reactions BY <1>13 DEF Reactions
<1>14. CASE CommentCard BY <1>14 DEF CommentCard
<1>15. CASE IterationControl BY <1>15, HonestSend, Left DEF IterationControl
<1>16. CASE EffortControl
  <2>1. CASE Send("logTime", {"time", "issue", "activity"}, {"time", "issue"})
    BY <2>1, HonestSend, Left
  <2>2. CASE Send("removeEntry", {"time", "issue"}, {"time", "issue"})
    BY <2>2
  <2> QED BY <1>16, <2>1, <2>2 DEF EffortControl
<1>17. CASE CustomFieldsPanel BY <1>17 DEF CustomFieldsPanel
<1>18. CASE EditIssueForm
  <2>1. PICK reassigned \in BOOLEAN :
          Send("save", {"issue", "activity"} \cup (IF reassigned THEN {"watchers"} ELSE {}),
               {"issue", "activity"})
    BY <1>18 DEF EditIssueForm
  <2> DEFINE W == {"issue", "activity"} \cup (IF reassigned THEN {"watchers"} ELSE {})
  <2>2. \A k \in W : k \in {"issue", "activity"} \/ <<"save", k>> \in LeftForLater
    BY Left
  <2> HIDE DEF W
  <2> QED BY <2>1, <2>2, HonestSend DEF W
<1> QED
  BY <1>1, <1>2, <1>3, <1>4, <1>5, <1>6, <1>7, <1>8, <1>9, <1>10, <1>11, <1>12, <1>13,
     <1>14, <1>15, <1>16, <1>17, <1>18 DEF IssueMutation

\* The planning pages.
LEMMA HonestPlanning ==
  ASSUME PlanningMutation
  PROVE  HonestMutation
<1> USE HonestSendAll, Reads DEF Held
<1>1. CASE SharedViews BY <1>1 DEF SharedViews
<1>2. CASE SavedSearches BY <1>2 DEF SavedSearches
<1>3. CASE BulkBar BY <1>3 DEF BulkBar
<1>4. CASE NewIssueForm BY <1>4, HonestLeave DEF NewIssueForm
<1>5. CASE DropCard
  <2>1. CASE SendAndWait("transition", {"cards", "overview"}, {"cards"})
    BY <2>1, HonestSend, Left
  <2>2. CASE SendAndWait("rank", {"cards"}, {"cards"})
    BY <2>2
  <2> QED BY <1>5, <2>1, <2>2 DEF DropCard
<1>6. CASE BoardConfigPanel BY <1>6 DEF BoardConfigPanel
<1>7. CASE NewIterationForm BY <1>7 DEF NewIterationForm
<1>8. CASE IterationRow BY <1>8 DEF IterationRow
<1>9. CASE Milestones BY <1>9 DEF Milestones
<1>10. CASE Releases BY <1>10 DEF Releases
<1>11. CASE ReleaseCard BY <1>11 DEF ReleaseCard
<1>12. CASE Inbox BY <1>12 DEF Inbox
<1> QED
  BY <1>1, <1>2, <1>3, <1>4, <1>5, <1>6, <1>7, <1>8, <1>9, <1>10, <1>11, <1>12
  DEF PlanningMutation

\* Most settings refresh the list they edit and nothing else.
LEMMA HonestSection ==
  ASSUME NEW page, NEW k, NEW m, m \notin Held, Row(page, k, m) \/ Form(page, k, m)
  PROVE  HonestMutation
<1> SendAndWait(m, {k}, {k}) \/ Send(m, {k}, {k}) BY DEF Row, Form
<1> QED BY HonestSendAll

\* The settings.
LEMMA HonestSettings ==
  ASSUME SettingsMutation
  PROVE  HonestMutation
<1> USE HonestSection DEF GuardedRow, GuardedForm, Held
<1>1. CASE ProjectSettings BY <1>1, HonestSendAll, HonestLeave, Reads DEF ProjectSettings
<1>2. CASE ComponentsSection BY <1>2 DEF ComponentsSection
<1>3. CASE TemplatesSection BY <1>3 DEF TemplatesSection
<1>4. CASE FieldsSection BY <1>4 DEF FieldsSection
<1>5. CASE SLASection BY <1>5 DEF SLASection
<1>6. CASE ProjectMembersSection
  <2>1. PICK mine \in BOOLEAN :
          LET written == {"project-members"} \cup (IF mine THEN {"project"} ELSE {}) IN
          \/ Send("putMember", written, {"project-members"})
          \/ SendAndWait("removeMember", written, {"project-members"})
    BY <1>6 DEF ProjectMembersSection
  <2> DEFINE W == {"project-members"} \cup (IF mine THEN {"project"} ELSE {})
  <2>2. \A m \in {"putMember", "removeMember"} : \A k \in W :
          k \in {"project-members"} \/ <<m, k>> \in LeftForLater
    BY Left
  <2>3. Send("putMember", W, {"project-members"}) \/ SendAndWait("removeMember", W, {"project-members"})
    BY <2>1
  <2> HIDE DEF W
  <2> QED BY <2>2, <2>3, HonestSend, Reads
<1>7. CASE ArchiveSection BY <1>7 DEF ArchiveSection
<1>8. CASE WebhooksSection BY <1>8 DEF WebhooksSection
<1>9. CASE DeliveryLog BY <1>9 DEF DeliveryLog
<1>10. CASE MembersSection
  <2>1. CASE GuardedRow("members", "users", "setUserRole") BY <2>1
  <2>2. CASE GuardedRow("members", "users", "setActive")
    <3> "setActive" \in HeldUntilRefreshed /\ Toggles["setActive"] = "users" BY DEF Toggles, HeldUntilRefreshed
    <3> QED BY <2>2, HonestToggle DEF Row
  <2> QED BY <1>10, <2>1, <2>2 DEF MembersSection
<1>11. CASE LabelsSection BY <1>11 DEF LabelsSection
<1>12. CASE TokensSection BY <1>12 DEF TokensSection
<1>13. CASE NotificationsSection
  <2> "savePrefs" \in HeldUntilRefreshed /\ Toggles["savePrefs"] = "notification-prefs"
    BY DEF Toggles, HeldUntilRefreshed
  <2> QED BY <1>13, HonestToggle DEF NotificationsSection, GuardedRow, Row
<1>14. CASE ProfileSection
  <2>1. Honest("saveProfile", {"me", "users"}, {"users"}, {"me"}, FALSE, FALSE)
    BY <1>14, Left, NotHeld, Reads DEF ProfileSection, Honest
  <2> QED BY <2>1 DEF HonestMutation
<1>15. CASE AutomationSection BY <1>15 DEF AutomationSection
<1>16. CASE InboundRow
  <2> "saveIntegration" \in HeldUntilAnswered BY DEF HeldUntilAnswered
  <2> QED BY <1>16, HonestSendAll DEF InboundRow, Form
<1>17. CASE PersonalViews BY <1>17, HonestSendAll, Reads DEF PersonalViews
<1>18. CASE AllSharedViews BY <1>18, HonestSendAll, Reads DEF AllSharedViews
<1> QED
  BY <1>1, <1>2, <1>3, <1>4, <1>5, <1>6, <1>7, <1>8, <1>9, <1>10, <1>11, <1>12, <1>13,
     <1>14, <1>15, <1>16, <1>17, <1>18 DEF SettingsMutation

-----------------------------------------------------------------------------
\* What every step but a new mutation and a navigation leaves of the mutations sent: all but
\* how far they are, whom they await and what overtook them.
Kept ==
  /\ Len(sent') = Len(sent) /\ (\E S : sent' \in Seq(S))
  /\ \A j \in Clicks :
       /\ DOMAIN sent'[j] = DOMAIN sent[j]
       /\ sent'[j].name = sent[j].name /\ sent'[j].leaves = sent[j].leaves
       /\ sent'[j].waits = sent[j].waits
       /\ sent'[j].writes = sent[j].writes /\ sent'[j].refreshes = sent[j].refreshes
       /\ sent'[j].sets = sent[j].sets

\* Then the mutations sent stay well formed and covered.
LEMMA KeptCovers ==
  ASSUME SentType, Covered, Kept
  PROVE  SentType' /\ Covered' /\ Clicks' = Clicks
<1>1. Clicks' = Clicks BY DEF Kept, Clicks
<1>2. SentType' BY <1>1 DEF SentType, Kept
<1>3. Covered' BY <1>1 DEF Covered, Kept
<1> QED BY <1>1, <1>2, <1>3

\* A sequence changed place by place is a sequence of the same length.
LEMMA SameLength ==
  ASSUME NEW s, \E S : s \in Seq(S), NEW t, DOMAIN t = 1..Len(s), t = [j \in DOMAIN t |-> t[j]]
  PROVE  Len(t) = Len(s) /\ \E S : t \in Seq(S)
<1> DEFINE R == {t[j] : j \in 1..Len(s)}
<1>1. Len(s) \in Nat OBVIOUS
<1>2. t \in [1..Len(s) -> R] OBVIOUS
<1>3. t \in Seq(R) BY <1>1, <1>2
<1>4. Len(t) = Len(s) BY <1>1, <1>3
<1> QED BY <1>3, <1>4

\* The same, for a step that rewrites the mutations sent place by place.
LEMMA Rewritten ==
  ASSUME SentType, Covered, DOMAIN sent' = Clicks, sent' = [j \in DOMAIN sent' |-> sent'[j]],
         \A j \in Clicks :
           /\ DOMAIN sent'[j] = DOMAIN sent[j]
           /\ sent'[j].name = sent[j].name /\ sent'[j].leaves = sent[j].leaves
           /\ sent'[j].waits = sent[j].waits
           /\ sent'[j].writes = sent[j].writes /\ sent'[j].refreshes = sent[j].refreshes
           /\ sent'[j].sets = sent[j].sets
  PROVE  SentType' /\ Covered' /\ Clicks' = Clicks /\ Len(sent') = Len(sent)
<1> Kept BY SameLength DEF Kept, Clicks, SentType
<1> QED BY KeptCovers DEF Kept

\* What the type invariant says of one mutation.
LEMMA MessageTyped ==
  ASSUME TypeOK, NEW j \in Clicks
  PROVE  /\ sent[j].at \in {"sent", "applied", "answered"}
         /\ sent[j].writes \subseteq Queries /\ sent[j].refreshes \subseteq Queries
         /\ sent[j].awaits \subseteq Queries
         /\ sent[j].overtaken \subseteq sent[j].sets
         /\ sent[j].awaits # {} => sent[j].at = "answered"
BY DEF TypeOK, PageSyncTypeOK

\* The server applies a mutation.
LEMMA ApplyStep ==
  ASSUME IInv, NEW i \in Clicks, Apply(i)
  PROVE  IInv' /\ Len(sent') \in {0, Len(sent)}
<1>0. TypeOK /\ SentType /\ Covered BY DEF IInv
<1>1. /\ DOMAIN sent' = Clicks /\ sent' = [j \in DOMAIN sent' |-> sent'[j]]
      /\ \A j \in Clicks : /\ DOMAIN sent'[j] = DOMAIN sent[j]
                           /\ sent'[j].name = sent[j].name /\ sent'[j].leaves = sent[j].leaves
                           /\ sent'[j].waits = sent[j].waits
                           /\ sent'[j].writes = sent[j].writes /\ sent'[j].refreshes = sent[j].refreshes
                           /\ sent'[j].sets = sent[j].sets /\ sent'[j].awaits = sent[j].awaits
                           /\ sent'[j].at = IF j = i THEN "applied" ELSE sent[j].at
                           /\ \/ sent'[j].overtaken = sent[j].overtaken
                              \/ sent'[j].overtaken = sent[j].overtaken \cup (sent[i].writes \cap sent[j].sets)
  BY <1>0 DEF Apply, Overtaken, SentType
<1>2. SentType' /\ Covered' /\ Clicks' = Clicks /\ Len(sent') = Len(sent) BY <1>0, <1>1, Rewritten
<1>3. Queries' = Queries BY DEF Apply, Outdated, Queries
<1>4. TypeOK'
  <2>1. data' \in [Queries' -> {"none", "current", "behind"}]
    BY <1>0, <1>3 DEF TypeOK, PageSyncTypeOK, Apply, Outdated
  <2>2. fetch' \in [Queries' -> {"idle", "asked", "current", "behind"}]
    BY <1>0, <1>3 DEF TypeOK, PageSyncTypeOK, Apply, Outdated
  <2>3. ASSUME NEW j \in Clicks
        PROVE  /\ sent'[j].at \in {"sent", "applied", "answered"}
               /\ sent'[j].writes \cup sent'[j].refreshes \cup sent'[j].awaits \subseteq Queries
               /\ sent'[j].overtaken \subseteq sent'[j].sets
               /\ sent'[j].awaits # {} => sent'[j].at = "answered"
    BY <1>0, <1>1, MessageTyped DEF Apply
  <2>5. screen' = screen /\ surprises' = surprises /\ excused' = excused BY DEF Apply
  <2> QED BY <1>0, <1>2, <1>3, <2>1, <2>2, <2>3, <2>5 DEF TypeOK, PageSyncTypeOK
<1>5. ASSUME NEW k \in Queries PROVE Fresh(k)'
  <2>1. Accounted(k) => Accounted(k)' BY <1>1, <1>2 DEF Accounted, Apply
  <2>2. k \in sent[i].writes => Accounted(k)' BY <1>1, <1>2 DEF Accounted
  <2>3. CASE k \in sent[i].writes BY <2>2, <2>3 DEF Fresh
  <2>4. CASE k \notin sent[i].writes
    <3> data'[k] = data[k] /\ fetch'[k] = fetch[k] BY <2>4 DEF Apply, Outdated
    <3> QED BY <2>1 DEF Fresh, IInv
  <2> QED BY <2>3, <2>4
<1>6. ASSUME NEW t \in DOMAIN Toggles PROVE Awaited(t)'
  <2>1. Awaited(t) BY DEF IInv
  <2>2. CASE Toggles[t] \in sent[i].writes
    BY <1>1, <1>2, <2>2 DEF Awaited
  <2>3. CASE Toggles[t] \notin sent[i].writes
    <3>1. Toggles[t] \in Queries => data'[Toggles[t]] = data[Toggles[t]] BY <2>3 DEF Apply, Outdated
    <3> QED BY <1>1, <1>2, <1>3, <2>1, <3>1 DEF Awaited, Explained, Apply
  <2> QED BY <2>2, <2>3
<1> QED BY <1>2, <1>3, <1>4, <1>5, <1>6 DEF IInv

\* The server refuses one.
LEMMA RefuseStep ==
  ASSUME IInv, NEW i \in Clicks, Refuse(i)
  PROVE  IInv' /\ Len(sent') \in {0, Len(sent)}
<1>0. TypeOK /\ SentType /\ Covered BY DEF IInv
<1>a. DOMAIN sent = Clicks /\ sent = [j \in Clicks |-> sent[j]] BY <1>0 DEF SentType, Clicks
<1>1. /\ DOMAIN sent' = Clicks /\ sent' = [j \in DOMAIN sent' |-> sent'[j]]
      /\ \A j \in Clicks : /\ DOMAIN sent'[j] = DOMAIN sent[j]
                           /\ sent'[j].name = sent[j].name /\ sent'[j].leaves = sent[j].leaves
                           /\ sent'[j].waits = sent[j].waits
                           /\ sent'[j].writes = sent[j].writes /\ sent'[j].refreshes = sent[j].refreshes
                           /\ sent'[j].sets = sent[j].sets
                           /\ sent'[j].awaits = sent[j].awaits /\ sent'[j].overtaken = sent[j].overtaken
                           /\ sent'[j].at = IF j = i THEN "answered" ELSE sent[j].at
  BY <1>0, <1>a DEF Refuse, SentType
<1>2. SentType' /\ Covered' /\ Clicks' = Clicks /\ Len(sent') = Len(sent) BY <1>0, <1>1, Rewritten
<1>3. Queries' = Queries BY <1>0 DEF Refuse, Queries, TypeOK, PageSyncTypeOK
<1>4. TypeOK'
  <2>1. data' \in [Queries' -> {"none", "current", "behind"}]
    BY <1>0, <1>3 DEF TypeOK, PageSyncTypeOK, Refuse
  <2>2. fetch' \in [Queries' -> {"idle", "asked", "current", "behind"}]
    BY <1>0, <1>3 DEF TypeOK, PageSyncTypeOK, Refuse
  <2>3. ASSUME NEW j \in Clicks
        PROVE  /\ sent'[j].at \in {"sent", "applied", "answered"}
               /\ sent'[j].writes \cup sent'[j].refreshes \cup sent'[j].awaits \subseteq Queries
               /\ sent'[j].overtaken \subseteq sent'[j].sets
               /\ sent'[j].awaits # {} => sent'[j].at = "answered"
    BY <1>0, <1>1, MessageTyped
  <2>4. excused' \subseteq Queries' /\ surprises' \in 0..MaxSurprises
    BY <1>0, <1>3, PageSyncAssumption DEF TypeOK, PageSyncTypeOK, Refuse
  <2>5. screen' = screen BY DEF Refuse
  <2> QED BY <1>0, <1>2, <1>3, <2>1, <2>2, <2>3, <2>4, <2>5 DEF TypeOK, PageSyncTypeOK
<1>5. ASSUME NEW k \in Queries PROVE Fresh(k)'
  <2>1. Accounted(k) => Accounted(k)' BY <1>1, <1>2 DEF Accounted, Refuse
  <2> QED BY <2>1 DEF Fresh, IInv, Refuse
<1>6. ASSUME NEW t \in DOMAIN Toggles PROVE Awaited(t)'
  <2>1. Awaited(t) BY DEF IInv
  <2> QED BY <1>1, <1>2, <1>3, <2>1 DEF Awaited, Explained, Refuse
<1> QED BY <1>2, <1>3, <1>4, <1>5, <1>6 DEF IInv

\* Its answer is lost: what it wrote is excused.
LEMMA LoseAnswerStep ==
  ASSUME IInv, NEW i \in Clicks, LoseAnswer(i)
  PROVE  IInv' /\ Len(sent') \in {0, Len(sent)}
<1>0. TypeOK /\ SentType /\ Covered BY DEF IInv
<1>a. DOMAIN sent = Clicks /\ sent = [j \in Clicks |-> sent[j]] BY <1>0 DEF SentType, Clicks
<1>1. /\ DOMAIN sent' = Clicks /\ sent' = [j \in DOMAIN sent' |-> sent'[j]]
      /\ \A j \in Clicks : /\ DOMAIN sent'[j] = DOMAIN sent[j]
                           /\ sent'[j].name = sent[j].name /\ sent'[j].leaves = sent[j].leaves
                           /\ sent'[j].waits = sent[j].waits
                           /\ sent'[j].writes = sent[j].writes /\ sent'[j].refreshes = sent[j].refreshes
                           /\ sent'[j].sets = sent[j].sets
                           /\ sent'[j].awaits = sent[j].awaits /\ sent'[j].overtaken = sent[j].overtaken
                           /\ sent'[j].at = IF j = i THEN "answered" ELSE sent[j].at
  BY <1>0, <1>a DEF LoseAnswer, SentType
<1>2. SentType' /\ Covered' /\ Clicks' = Clicks /\ Len(sent') = Len(sent) BY <1>0, <1>1, Rewritten
<1>3. Queries' = Queries BY <1>0 DEF LoseAnswer, Queries, TypeOK, PageSyncTypeOK
<1>4. TypeOK'
  <2>1. data' \in [Queries' -> {"none", "current", "behind"}]
    BY <1>0, <1>3 DEF TypeOK, PageSyncTypeOK, LoseAnswer
  <2>2. fetch' \in [Queries' -> {"idle", "asked", "current", "behind"}]
    BY <1>0, <1>3 DEF TypeOK, PageSyncTypeOK, LoseAnswer
  <2>3. ASSUME NEW j \in Clicks
        PROVE  /\ sent'[j].at \in {"sent", "applied", "answered"}
               /\ sent'[j].writes \cup sent'[j].refreshes \cup sent'[j].awaits \subseteq Queries
               /\ sent'[j].overtaken \subseteq sent'[j].sets
               /\ sent'[j].awaits # {} => sent'[j].at = "answered"
    BY <1>0, <1>1, MessageTyped
  <2>4. excused' \subseteq Queries' /\ surprises' \in 0..MaxSurprises
    BY <1>0, <1>3, PageSyncAssumption DEF TypeOK, PageSyncTypeOK, LoseAnswer
  <2>5. screen' = screen BY DEF LoseAnswer
  <2> QED BY <1>0, <1>2, <1>3, <2>1, <2>2, <2>3, <2>4, <2>5 DEF TypeOK, PageSyncTypeOK
<1>5. ASSUME NEW k \in Queries PROVE Fresh(k)'
  <2>1. Accounted(k) => Accounted(k)' BY <1>1, <1>2 DEF Accounted, LoseAnswer
  <2> QED BY <2>1 DEF Fresh, IInv, LoseAnswer
<1>6. ASSUME NEW t \in DOMAIN Toggles PROVE Awaited(t)'
  <2>1. Awaited(t) BY DEF IInv
  <2> QED BY <1>1, <1>2, <1>3, <2>1 DEF Awaited, Explained, LoseAnswer
<1> QED BY <1>2, <1>3, <1>4, <1>5, <1>6 DEF IInv

\* A query is answered with all there is.
LEMMA AnswerQueryStep ==
  ASSUME IInv, NEW q \in Queries, AnswerQuery(q)
  PROVE  IInv' /\ Len(sent') \in {0, Len(sent)}
<1>0. TypeOK /\ SentType /\ Covered BY DEF IInv
<1>1. /\ DOMAIN sent' = Clicks /\ sent' = [j \in DOMAIN sent' |-> sent'[j]]
      /\ \A j \in Clicks : /\ DOMAIN sent'[j] = DOMAIN sent[j]
                           /\ sent'[j].name = sent[j].name /\ sent'[j].leaves = sent[j].leaves
                           /\ sent'[j].waits = sent[j].waits
                           /\ sent'[j].writes = sent[j].writes /\ sent'[j].refreshes = sent[j].refreshes
                           /\ sent'[j].sets = sent[j].sets
                           /\ sent'[j].at = sent[j].at /\ sent'[j].awaits = sent[j].awaits
                           /\ sent'[j].overtaken = sent[j].overtaken
  BY <1>0 DEF AnswerQuery, SentType, Clicks
<1>2. SentType' /\ Covered' /\ Clicks' = Clicks /\ Len(sent') = Len(sent) BY <1>0, <1>1, Rewritten
<1>3. Queries' = Queries BY <1>0 DEF AnswerQuery, Queries, TypeOK, PageSyncTypeOK
<1>4. TypeOK'
  <2>1. data' \in [Queries' -> {"none", "current", "behind"}]
    BY <1>0, <1>3 DEF TypeOK, PageSyncTypeOK, AnswerQuery
  <2>2. fetch' \in [Queries' -> {"idle", "asked", "current", "behind"}]
    BY <1>0, <1>3 DEF TypeOK, PageSyncTypeOK, AnswerQuery
  <2>3. ASSUME NEW j \in Clicks
        PROVE  /\ sent'[j].at \in {"sent", "applied", "answered"}
               /\ sent'[j].writes \cup sent'[j].refreshes \cup sent'[j].awaits \subseteq Queries
               /\ sent'[j].overtaken \subseteq sent'[j].sets
               /\ sent'[j].awaits # {} => sent'[j].at = "answered"
    BY <1>0, <1>1, MessageTyped
  <2>4. excused' \subseteq Queries' /\ surprises' \in 0..MaxSurprises
    BY <1>0, <1>3, PageSyncAssumption DEF TypeOK, PageSyncTypeOK, AnswerQuery
  <2>5. screen' = screen BY DEF AnswerQuery
  <2> QED BY <1>0, <1>2, <1>3, <2>1, <2>2, <2>3, <2>4, <2>5 DEF TypeOK, PageSyncTypeOK
<1>5. ASSUME NEW k \in Queries PROVE Fresh(k)'
  <2>1. Accounted(k) => Accounted(k)' BY <1>2 DEF Accounted, AnswerQuery
  <2>2. fetch \in [Queries -> {"idle", "asked", "current", "behind"}] BY <1>0 DEF TypeOK, PageSyncTypeOK
  <2> QED BY <2>1, <2>2 DEF Fresh, IInv, AnswerQuery
<1>6. ASSUME NEW t \in DOMAIN Toggles PROVE Awaited(t)'
  <2>1. Awaited(t) BY DEF IInv
  <2> QED BY <1>1, <1>2, <1>3, <2>1 DEF Awaited, Explained, AnswerQuery
<1> QED BY <1>2, <1>3, <1>4, <1>5, <1>6 DEF IInv

\* A query is asked again on reconnecting.
LEMMA ReconnectStep ==
  ASSUME IInv, NEW q \in Queries, Reconnect(q)
  PROVE  IInv' /\ Len(sent') \in {0, Len(sent)}
<1>0. TypeOK /\ SentType /\ Covered BY DEF IInv
<1>1. /\ DOMAIN sent' = Clicks /\ sent' = [j \in DOMAIN sent' |-> sent'[j]]
      /\ \A j \in Clicks : /\ DOMAIN sent'[j] = DOMAIN sent[j]
                           /\ sent'[j].name = sent[j].name /\ sent'[j].leaves = sent[j].leaves
                           /\ sent'[j].waits = sent[j].waits
                           /\ sent'[j].writes = sent[j].writes /\ sent'[j].refreshes = sent[j].refreshes
                           /\ sent'[j].sets = sent[j].sets
                           /\ sent'[j].at = sent[j].at /\ sent'[j].awaits = sent[j].awaits
                           /\ sent'[j].overtaken = sent[j].overtaken
  BY <1>0 DEF Reconnect, SentType, Clicks
<1>2. SentType' /\ Covered' /\ Clicks' = Clicks /\ Len(sent') = Len(sent) BY <1>0, <1>1, Rewritten
<1>3. Queries' = Queries BY <1>0 DEF Reconnect, Queries, TypeOK, PageSyncTypeOK
<1>4. TypeOK'
  <2>1. data' \in [Queries' -> {"none", "current", "behind"}]
    BY <1>0, <1>3 DEF TypeOK, PageSyncTypeOK, Reconnect
  <2>2. fetch' \in [Queries' -> {"idle", "asked", "current", "behind"}]
    BY <1>0, <1>3 DEF TypeOK, PageSyncTypeOK, Reconnect
  <2>3. ASSUME NEW j \in Clicks
        PROVE  /\ sent'[j].at \in {"sent", "applied", "answered"}
               /\ sent'[j].writes \cup sent'[j].refreshes \cup sent'[j].awaits \subseteq Queries
               /\ sent'[j].overtaken \subseteq sent'[j].sets
               /\ sent'[j].awaits # {} => sent'[j].at = "answered"
    BY <1>0, <1>1, MessageTyped
  <2>4. excused' \subseteq Queries' /\ surprises' \in 0..MaxSurprises
    BY <1>0, <1>3, PageSyncAssumption DEF TypeOK, PageSyncTypeOK, Reconnect
  <2>5. screen' = screen BY DEF Reconnect
  <2> QED BY <1>0, <1>2, <1>3, <2>1, <2>2, <2>3, <2>4, <2>5 DEF TypeOK, PageSyncTypeOK
<1>5. ASSUME NEW k \in Queries PROVE Fresh(k)'
  <2>1. Accounted(k) => Accounted(k)' BY <1>2 DEF Accounted, Reconnect
  <2>2. fetch \in [Queries -> {"idle", "asked", "current", "behind"}] BY <1>0 DEF TypeOK, PageSyncTypeOK
  <2> QED BY <2>1, <2>2 DEF Fresh, IInv, Reconnect
<1>6. ASSUME NEW t \in DOMAIN Toggles PROVE Awaited(t)'
  <2>1. Awaited(t) BY DEF IInv
  <2> QED BY <1>1, <1>2, <1>3, <2>1 DEF Awaited, Explained, Reconnect
<1> QED BY <1>2, <1>3, <1>4, <1>5, <1>6 DEF IInv

\* An answer arrives. If it holds every write, nothing needs a reason any more; if not, the
\* reason it had is now the copy's.
LEMMA ArriveStep ==
  ASSUME IInv, NEW q \in Queries, Arrive(q)
  PROVE  IInv' /\ Len(sent') \in {0, Len(sent)}
<1>0. TypeOK /\ SentType /\ Covered BY DEF IInv
<1>1. /\ DOMAIN sent' = Clicks /\ sent' = [j \in DOMAIN sent' |-> sent'[j]]
      /\ \A j \in Clicks : /\ DOMAIN sent'[j] = DOMAIN sent[j]
                           /\ sent'[j].name = sent[j].name /\ sent'[j].leaves = sent[j].leaves
                           /\ sent'[j].waits = sent[j].waits
                           /\ sent'[j].writes = sent[j].writes /\ sent'[j].refreshes = sent[j].refreshes
                           /\ sent'[j].sets = sent[j].sets
                           /\ sent'[j].at = sent[j].at /\ sent'[j].awaits \subseteq sent[j].awaits
                           /\ sent'[j].overtaken = sent[j].overtaken
  BY <1>0 DEF Arrive, StopAwaiting, SentType, Clicks
<1>2. SentType' /\ Covered' /\ Clicks' = Clicks /\ Len(sent') = Len(sent) BY <1>0, <1>1, Rewritten
<1>3. Queries' = Queries BY <1>0 DEF Arrive, StopAwaiting, Queries, TypeOK, PageSyncTypeOK
<1>4. TypeOK'
  <2>1. data' \in [Queries' -> {"none", "current", "behind"}]
    BY <1>0, <1>3 DEF TypeOK, PageSyncTypeOK, Arrive, StopAwaiting
  <2>2. fetch' \in [Queries' -> {"idle", "asked", "current", "behind"}]
    BY <1>0, <1>3 DEF TypeOK, PageSyncTypeOK, Arrive, StopAwaiting
  <2>3. ASSUME NEW j \in Clicks
        PROVE  /\ sent'[j].at \in {"sent", "applied", "answered"}
               /\ sent'[j].writes \cup sent'[j].refreshes \cup sent'[j].awaits \subseteq Queries
               /\ sent'[j].overtaken \subseteq sent'[j].sets
               /\ sent'[j].awaits # {} => sent'[j].at = "answered"
    BY <1>0, <1>1, MessageTyped
  <2>4. excused' \subseteq Queries' /\ surprises' \in 0..MaxSurprises
    BY <1>0, <1>3, PageSyncAssumption DEF TypeOK, PageSyncTypeOK, Arrive
  <2>5. screen' = screen BY DEF Arrive
  <2> QED BY <1>0, <1>2, <1>3, <2>1, <2>2, <2>3, <2>4, <2>5 DEF TypeOK, PageSyncTypeOK
<1>5. ASSUME NEW k \in Queries PROVE Fresh(k)'
  <2>0. /\ fetch \in [Queries -> {"idle", "asked", "current", "behind"}]
        /\ data \in [Queries -> {"none", "current", "behind"}]
    BY <1>0 DEF TypeOK, PageSyncTypeOK
  <2>1. CASE k # q
    <3>1. Accounted(k) => Accounted(k)' BY <1>1, <1>2, <2>1 DEF Accounted, Arrive
    <3> QED BY <2>0, <2>1, <3>1 DEF Fresh, IInv, Arrive
  <2>2. CASE k = q /\ fetch[q] = "current" BY <2>0, <2>2 DEF Fresh, Arrive
  <2>3. CASE k = q /\ fetch[q] = "behind"
    <3>1. Accounted(q) BY <2>3 DEF Fresh, IInv
    <3>2. Accounted(q)' BY <1>1, <1>2, <2>3, <3>1 DEF Accounted, Arrive
    <3> QED BY <2>0, <2>3, <3>2 DEF Fresh, Arrive
  <2> QED BY <2>1, <2>2, <2>3 DEF Arrive
<1>6. ASSUME NEW t \in DOMAIN Toggles PROVE Awaited(t)'
  <2>1. Awaited(t) BY DEF IInv
  <2>2. CASE Toggles[t] = q
    <3>1. SUFFICES ASSUME data'[q] = "behind" PROVE Awaited(t)'
      BY <1>3, <2>2 DEF Awaited
    <3>2. fetch[q] = "behind"
      BY <1>0, <3>1 DEF Arrive, TypeOK, PageSyncTypeOK
    <3>3. Accounted(q)
      BY <3>2 DEF IInv, Fresh
    <3>4. CASE Explained(q)
      <4> Explained(q)' BY <3>2, <3>4 DEF Explained, Arrive
      <4> QED BY <2>2 DEF Awaited
    <3>5. ASSUME NEW j \in Clicks, sent[j].at = "applied", q \in sent[j].writes PROVE Awaited(t)'
      <4> j \in Clicks' /\ sent'[j].at = "applied" /\ q \in sent'[j].writes BY <1>1, <1>2, <3>5
      <4> QED BY <2>2 DEF Awaited
    <3> QED BY <3>3, <3>4, <3>5 DEF Accounted, Explained
  <2>3. CASE Toggles[t] # q
    <3>1. \A j \in Clicks : Toggles[t] \in sent[j].awaits => Toggles[t] \in sent'[j].awaits
      BY <1>0, <2>3 DEF Arrive, StopAwaiting, SentType, Clicks
    <3>2. Toggles[t] \in Queries => data'[Toggles[t]] = data[Toggles[t]]
      BY <1>0, <2>3 DEF Arrive, TypeOK, PageSyncTypeOK
    <3>3. Explained(Toggles[t]) => Explained(Toggles[t])'
      BY <2>3 DEF Explained, Arrive
    <3> QED BY <1>1, <1>2, <1>3, <2>1, <3>1, <3>2, <3>3 DEF Awaited
  <2> QED BY <2>2, <2>3
<1> QED BY <1>2, <1>3, <1>4, <1>5, <1>6 DEF IInv

\* A refresh fails: its query is excused.
LEMMA FetchFailsStep ==
  ASSUME IInv, NEW q \in Queries, FetchFails(q)
  PROVE  IInv' /\ Len(sent') \in {0, Len(sent)}
<1>0. TypeOK /\ SentType /\ Covered BY DEF IInv
<1>1. /\ DOMAIN sent' = Clicks /\ sent' = [j \in DOMAIN sent' |-> sent'[j]]
      /\ \A j \in Clicks : /\ DOMAIN sent'[j] = DOMAIN sent[j]
                           /\ sent'[j].name = sent[j].name /\ sent'[j].leaves = sent[j].leaves
                           /\ sent'[j].waits = sent[j].waits
                           /\ sent'[j].writes = sent[j].writes /\ sent'[j].refreshes = sent[j].refreshes
                           /\ sent'[j].sets = sent[j].sets
                           /\ sent'[j].at = sent[j].at /\ sent'[j].awaits \subseteq sent[j].awaits
                           /\ sent'[j].overtaken = sent[j].overtaken
  BY <1>0 DEF FetchFails, StopAwaiting, SentType, Clicks
<1>2. SentType' /\ Covered' /\ Clicks' = Clicks /\ Len(sent') = Len(sent) BY <1>0, <1>1, Rewritten
<1>3. Queries' = Queries BY <1>0 DEF FetchFails, StopAwaiting, Queries, TypeOK, PageSyncTypeOK
<1>4. TypeOK'
  <2>1. data' \in [Queries' -> {"none", "current", "behind"}]
    BY <1>0, <1>3 DEF TypeOK, PageSyncTypeOK, FetchFails, StopAwaiting
  <2>2. fetch' \in [Queries' -> {"idle", "asked", "current", "behind"}]
    BY <1>0, <1>3 DEF TypeOK, PageSyncTypeOK, FetchFails, StopAwaiting
  <2>3. ASSUME NEW j \in Clicks
        PROVE  /\ sent'[j].at \in {"sent", "applied", "answered"}
               /\ sent'[j].writes \cup sent'[j].refreshes \cup sent'[j].awaits \subseteq Queries
               /\ sent'[j].overtaken \subseteq sent'[j].sets
               /\ sent'[j].awaits # {} => sent'[j].at = "answered"
    BY <1>0, <1>1, MessageTyped
  <2>4. excused' \subseteq Queries' /\ surprises' \in 0..MaxSurprises
    BY <1>0, <1>3, PageSyncAssumption DEF TypeOK, PageSyncTypeOK, FetchFails
  <2>5. screen' = screen BY DEF FetchFails
  <2> QED BY <1>0, <1>2, <1>3, <2>1, <2>2, <2>3, <2>4, <2>5 DEF TypeOK, PageSyncTypeOK
<1>5. ASSUME NEW k \in Queries PROVE Fresh(k)'
  <2>0. fetch \in [Queries -> {"idle", "asked", "current", "behind"}] BY <1>0 DEF TypeOK, PageSyncTypeOK
  <2>1. Accounted(k) => Accounted(k)' BY <1>1, <1>2 DEF Accounted, FetchFails
  <2>2. k = q => Accounted(k)' BY DEF Accounted, FetchFails
  <2> QED BY <2>0, <2>1, <2>2 DEF Fresh, IInv, FetchFails
<1>6. ASSUME NEW t \in DOMAIN Toggles PROVE Awaited(t)'
  <2>1. Awaited(t) BY DEF IInv
  <2>2. CASE Toggles[t] = q
    BY <2>2 DEF Awaited, Explained, FetchFails
  <2>3. CASE Toggles[t] # q
    <3>1. \A j \in Clicks : Toggles[t] \in sent[j].awaits => Toggles[t] \in sent'[j].awaits
      BY <1>0, <2>3 DEF FetchFails, StopAwaiting, SentType, Clicks
    <3>2. Toggles[t] \in Queries => data'[Toggles[t]] = data[Toggles[t]]
      BY DEF FetchFails
    <3>3. Explained(Toggles[t]) => Explained(Toggles[t])'
      BY DEF Explained, FetchFails
    <3> QED BY <1>1, <1>2, <1>3, <2>1, <3>1, <3>2, <3>3 DEF Awaited
  <2> QED BY <2>2, <2>3
<1> QED BY <1>2, <1>3, <1>4, <1>5, <1>6 DEF IInv

\* Somebody else's write excuses what it outdates.
LEMMA OthersWriteStep ==
  ASSUME IInv, NEW q \in Queries, OthersWrite(q)
  PROVE  IInv' /\ Len(sent') \in {0, Len(sent)}
<1>0. TypeOK /\ SentType /\ Covered BY DEF IInv
<1>1. /\ DOMAIN sent' = Clicks /\ sent' = [j \in DOMAIN sent' |-> sent'[j]]
      /\ \A j \in Clicks : /\ DOMAIN sent'[j] = DOMAIN sent[j]
                           /\ sent'[j].name = sent[j].name /\ sent'[j].leaves = sent[j].leaves
                           /\ sent'[j].waits = sent[j].waits
                           /\ sent'[j].writes = sent[j].writes /\ sent'[j].refreshes = sent[j].refreshes
                           /\ sent'[j].sets = sent[j].sets
                           /\ sent'[j].at = sent[j].at /\ sent'[j].awaits = sent[j].awaits
                           /\ sent'[j].overtaken \subseteq sent[j].overtaken \cup ({q} \cap sent[j].sets)
  BY <1>0 DEF OthersWrite, Overtaken, Outdated, SentType, Clicks
<1>2. SentType' /\ Covered' /\ Clicks' = Clicks /\ Len(sent') = Len(sent) BY <1>0, <1>1, Rewritten
<1>3. Queries' = Queries BY <1>0 DEF OthersWrite, Overtaken, Outdated, Queries, TypeOK, PageSyncTypeOK
<1>4. TypeOK'
  <2>1. data' \in [Queries' -> {"none", "current", "behind"}]
    BY <1>0, <1>3 DEF TypeOK, PageSyncTypeOK, OthersWrite, Overtaken, Outdated
  <2>2. fetch' \in [Queries' -> {"idle", "asked", "current", "behind"}]
    BY <1>0, <1>3 DEF TypeOK, PageSyncTypeOK, OthersWrite, Overtaken, Outdated
  <2>3. ASSUME NEW j \in Clicks
        PROVE  /\ sent'[j].at \in {"sent", "applied", "answered"}
               /\ sent'[j].writes \cup sent'[j].refreshes \cup sent'[j].awaits \subseteq Queries
               /\ sent'[j].overtaken \subseteq sent'[j].sets
               /\ sent'[j].awaits # {} => sent'[j].at = "answered"
    BY <1>0, <1>1, MessageTyped
  <2>4. excused' \subseteq Queries' /\ surprises' \in 0..MaxSurprises
    BY <1>0, <1>3, PageSyncAssumption DEF TypeOK, PageSyncTypeOK, OthersWrite
  <2>5. screen' = screen BY DEF OthersWrite
  <2> QED BY <1>0, <1>2, <1>3, <2>1, <2>2, <2>3, <2>4, <2>5 DEF TypeOK, PageSyncTypeOK
<1>5. ASSUME NEW k \in Queries PROVE Fresh(k)'
  <2>1. Accounted(k) => Accounted(k)' BY <1>1, <1>2 DEF Accounted, OthersWrite
  <2>2. k = q => Accounted(k)' BY DEF Accounted, OthersWrite
  <2>3. k # q => data'[k] = data[k] /\ fetch'[k] = fetch[k] BY DEF OthersWrite, Outdated
  <2> QED BY <2>1, <2>2, <2>3 DEF Fresh, IInv
<1>6. ASSUME NEW t \in DOMAIN Toggles PROVE Awaited(t)'
  <2>1. Awaited(t) BY DEF IInv
  <2>2. CASE Toggles[t] = q
    BY <2>2 DEF Awaited, Explained, OthersWrite
  <2>3. CASE Toggles[t] # q
    <3>1. Toggles[t] \in Queries => data'[Toggles[t]] = data[Toggles[t]] BY <2>3 DEF OthersWrite, Outdated
    <3>2. Explained(Toggles[t]) => Explained(Toggles[t])'
      BY DEF Explained, OthersWrite
    <3> QED BY <1>1, <1>2, <1>3, <2>1, <3>1, <3>2 DEF Awaited
  <2> QED BY <2>2, <2>3
<1> QED BY <1>2, <1>3, <1>4, <1>5, <1>6 DEF IInv

\* The answer to a mutation and its onSuccess: what it wrote is asked for again, put in the
\* cache, or noted as left for later.
LEMMA ReplyStep ==
  ASSUME IInv, NEW i \in Clicks, Reply(i)
  PROVE  IInv' /\ Len(sent') \in {0, Len(sent)}
<1> DEFINE m == sent[i]
<1>0. TypeOK /\ SentType /\ Covered BY DEF IInv
<1>a. DOMAIN sent = Clicks /\ sent = [j \in Clicks |-> sent[j]] BY <1>0 DEF SentType, Clicks
<1>b. /\ data \in [Queries -> {"none", "current", "behind"}]
      /\ fetch \in [Queries -> {"idle", "asked", "current", "behind"}]
      /\ excused \subseteq Queries
  BY <1>0 DEF TypeOK, PageSyncTypeOK
<1>1. /\ DOMAIN sent' = Clicks /\ sent' = [j \in DOMAIN sent' |-> sent'[j]]
      /\ \A j \in Clicks : /\ DOMAIN sent'[j] = DOMAIN sent[j]
                           /\ sent'[j].name = sent[j].name /\ sent'[j].leaves = sent[j].leaves
                           /\ sent'[j].waits = sent[j].waits
                           /\ sent'[j].writes = sent[j].writes /\ sent'[j].refreshes = sent[j].refreshes
                           /\ sent'[j].sets = sent[j].sets /\ sent'[j].overtaken = sent[j].overtaken
  BY <1>0, <1>a DEF Reply, StopAwaiting, SentType
<1>c. /\ \A j \in Clicks \ {i} : sent'[j].at = sent[j].at /\ sent'[j].awaits \subseteq sent[j].awaits
      /\ sent'[i].at = "answered" /\ sent'[i].awaits \subseteq m.refreshes
  BY <1>0, <1>a DEF Reply, StopAwaiting, SentType
<1>2. SentType' /\ Covered' /\ Clicks' = Clicks /\ Len(sent') = Len(sent) BY <1>0, <1>1, Rewritten
<1>3. Queries' = Queries BY DEF Reply, Queries
<1>4. TypeOK'
  <2>1. data' \in [Queries' -> {"none", "current", "behind"}]
    BY <1>b, <1>3 DEF Reply
  <2>2. fetch' \in [Queries' -> {"idle", "asked", "current", "behind"}]
    BY <1>b, <1>3 DEF Reply, Invalidated
  <2>3. ASSUME NEW j \in Clicks
        PROVE  /\ sent'[j].at \in {"sent", "applied", "answered"}
               /\ sent'[j].writes \cup sent'[j].refreshes \cup sent'[j].awaits \subseteq Queries
               /\ sent'[j].overtaken \subseteq sent'[j].sets
               /\ sent'[j].awaits # {} => sent'[j].at = "answered"
    BY <1>0, <1>1, <1>c, MessageTyped
  <2>4. excused' \subseteq Queries'
    BY <1>0, <1>b, <1>3, MessageTyped DEF Reply
  <2>5. screen' = screen /\ surprises' = surprises BY DEF Reply
  <2> QED BY <1>0, <1>2, <1>3, <2>1, <2>2, <2>3, <2>4, <2>5 DEF TypeOK, PageSyncTypeOK
<1>5. ASSUME NEW k \in Queries PROVE Fresh(k)'
  <2>1. CASE k \in m.refreshes
    <3>1. CASE Joins(k)
      <4>1. fetch'[k] = fetch[k] /\ fetch[k] # "idle" BY <2>1, <3>1 DEF Reply, Invalidated, Joins
      <4>2. fetch[k] = "behind" => k \in excused' BY <2>1, <3>1 DEF Reply
      <4> QED BY <1>b, <4>1, <4>2 DEF Fresh, Accounted
    <3>2. CASE ~Joins(k)
      <4> fetch'[k] = "asked" BY <2>1, <3>2 DEF Reply, Invalidated
      <4> QED BY DEF Fresh
    <3> QED BY <3>1, <3>2
  <2>2. CASE k \notin m.refreshes /\ k \notin m.writes
    <3>0. excused \subseteq excused' /\ unasked \subseteq unasked' BY DEF Reply
    <3>1. Accounted(k) => Accounted(k)' BY <1>1, <1>2, <1>c, <2>2, <3>0 DEF Accounted
    <3>2. m.sets \subseteq m.writes BY <1>0 DEF Covered
    <3>3. data'[k] = data[k] /\ fetch'[k] = fetch[k] BY <1>0, <2>2, <3>2, MessageTyped DEF Reply
    <3> QED BY <3>1, <3>3 DEF Fresh, IInv
  <2>3. CASE k \notin m.refreshes /\ k \in m.writes
    <3>1. <<m.name, k>> \in LeftForLater BY <1>0, <2>3 DEF Covered, Reply
    <3>2. fetch'[k] = fetch[k] BY <2>3 DEF Reply
    <3>3. CASE k \in m.sets \ m.overtaken /\ fetch[k] # "behind"
      <4> data'[k] = "current" BY <3>3 DEF Reply
      <4> QED BY <3>2, <3>3 DEF Fresh
    <3>4. CASE ~(k \in m.sets \ m.overtaken /\ fetch[k] # "behind")
      <4>1. <<m.name, k>> \in unasked' BY <2>3, <3>4 DEF Reply
      <4>2. Accounted(k)' BY <3>1, <4>1 DEF Accounted
      <4> QED BY <4>2 DEF Fresh
    <3> QED BY <3>3, <3>4
  <2> QED BY <2>1, <2>2, <2>3
<1>6. ASSUME NEW t \in DOMAIN Toggles PROVE Awaited(t)'
  <2> DEFINE k == Toggles[t]
  <2>1. Awaited(t) BY DEF IInv
  <2>2. SUFFICES ASSUME k \in Queries, data'[k] = "behind" PROVE Awaited(t)'
    BY <1>3 DEF Awaited
  <2>3. CASE k \in m.writes /\ k \in m.refreshes
    <3>1. CASE m.name = t /\ t \in HeldUntilRefreshed
      <4>1. m.waits BY <1>0, <3>1 DEF Covered
      <4>2. k \in sent'[i].awaits BY <1>0, <1>a, <2>3, <4>1 DEF Reply, StopAwaiting, SentType
      <4> QED BY <1>1, <1>2, <2>3, <4>2 DEF Awaited
    <3>2. CASE ~(m.name = t /\ t \in HeldUntilRefreshed)
      BY <1>1, <1>2, <2>3, <3>2 DEF Awaited
    <3> QED BY <3>1, <3>2
  <2>4. CASE k \in m.writes /\ k \notin m.refreshes
    <3>1. ~(k \in m.sets \ m.overtaken)
      BY <2>2, <2>4 DEF Reply
    <3>2. <<m.name, k>> \in unasked'
      BY <2>4, <3>1 DEF Reply
    <3> QED BY <3>2 DEF Awaited, Explained
  <2>5. CASE k \notin m.writes
    <3>1. k \notin m.refreshes /\ k \notin m.sets /\ k \notin m.overtaken
      BY <1>0, <2>5, MessageTyped DEF Covered
    <3>2. data'[k] = data[k]
      BY <2>2, <3>1 DEF Reply
    <3>3. \A j \in Clicks : sent[j].at = "applied" /\ j # i => sent'[j].at = "applied"
      BY <1>c
    <3>4. ASSUME NEW j \in Clicks, k \in sent[j].awaits PROVE k \in sent'[j].awaits
      <4> DEFINE restarted == {q \in m.refreshes : ~Joins(q)}
      <4>1. j # i
        BY <1>0, <3>4, MessageTyped DEF Reply
      <4>2. j \in DOMAIN sent /\ "awaits" \in DOMAIN sent[j]
        BY <1>0, <1>a DEF SentType
      <4>3. sent'[j] = [sent[j] EXCEPT !.awaits = sent[j].awaits \ restarted]
        BY <4>1, <4>2 DEF Reply, StopAwaiting
      <4>4. sent'[j].awaits = sent[j].awaits \ restarted
        BY <4>2, <4>3
      <4> QED BY <3>1, <3>4, <4>4
    <3>5. Explained(k) => Explained(k)'
      BY DEF Explained, Reply
    <3> QED BY <1>1, <1>2, <2>1, <2>2, <2>5, <3>2, <3>3, <3>4, <3>5 DEF Awaited
  <2> QED BY <2>3, <2>4, <2>5
<1> QED BY <1>2, <1>3, <1>4, <1>5, <1>6 DEF IInv

\* Leaving the page leaves nothing to be behind.
LEMMA LeaveStep ==
  ASSUME IInv, NEW i \in Clicks, ReplyAndLeave(i)
  PROVE  IInv' /\ Len(sent') \in {0, Len(sent)}
<1>1. Queries' = {} /\ sent' = <<>> BY DEF ReplyAndLeave, Queries
<1>2. Clicks' = {} /\ Len(sent') = 0 BY <1>1 DEF Clicks
<1>3. TypeOK'
  <2> 0 <= MaxClicks BY PageSyncAssumption
  <2> QED BY <1>1, <1>2 DEF IInv, TypeOK, PageSyncTypeOK, ReplyAndLeave
<1>4. SentType' BY <1>1, <1>2 DEF SentType
<1>5. Covered' BY <1>2 DEF Covered
<1> QED BY <1>1, <1>2, <1>3, <1>4, <1>5 DEF IInv, Awaited

\* A mutation sent changes nothing yet.
LEMMA MutationStep ==
  ASSUME IInv, HonestMutation
  PROVE  IInv'
<1>0. TypeOK /\ SentType /\ Covered BY DEF IInv
<1>1. PICK m, W, R, S, waits, leaves : Honest(m, W, R, S, waits, leaves) BY DEF HonestMutation
<1> DEFINE new == [name |-> m, at |-> "sent", writes |-> W \cap Queries, refreshes |-> R \cap Queries,
                   sets |-> S \cap Queries, waits |-> waits, leaves |-> leaves, awaits |-> {},
                   overtaken |-> {}]
<1>2. /\ sent' = Append(sent, new) /\ Len(sent) < MaxClicks
      /\ UNCHANGED <<screen, data, fetch, unasked, excused, surprises>>
  BY <1>1 DEF Honest, Mutate
<1>3. /\ Len(sent') = Len(sent) + 1 /\ (\E T : sent' \in Seq(T))
      /\ Clicks' = Clicks \cup {Len(sent) + 1} /\ Len(sent) \in Nat
      /\ \A j \in Clicks : sent'[j] = sent[j]
      /\ sent'[Len(sent) + 1] = new
  <2>1. PICK T : sent \in Seq(T) BY <1>0 DEF SentType
  <2>2. sent \in Seq(T \cup {new}) BY <2>1
  <2> HIDE DEF new
  <2>3. /\ sent' \in Seq(T \cup {new}) /\ Len(sent') = Len(sent) + 1 /\ Len(sent) \in Nat
        /\ \A j \in 1..Len(sent) : sent'[j] = sent[j]
        /\ sent'[Len(sent) + 1] = new
    BY <1>2, <2>2
  <2> QED BY <2>3 DEF Clicks
<1>4. Queries' = Queries BY <1>2 DEF Queries
<1>5. TypeOK'
  <2>1. \A j \in Clicks' :
          /\ sent'[j].at \in {"sent", "applied", "answered"}
          /\ sent'[j].writes \cup sent'[j].refreshes \cup sent'[j].awaits \subseteq Queries
          /\ sent'[j].overtaken \subseteq sent'[j].sets
          /\ sent'[j].awaits # {} => sent'[j].at = "answered"
    BY <1>0, <1>3 DEF TypeOK, PageSyncTypeOK
  <2>2. Len(sent') <= MaxClicks BY <1>2, <1>3, PageSyncAssumption
  <2> HIDE DEF new
  <2> QED BY <1>0, <1>2, <1>4, <2>1, <2>2 DEF TypeOK, PageSyncTypeOK
<1>6. SentType' BY <1>0, <1>3 DEF SentType
<1>7. Covered'
  <2>1. /\ new.sets \subseteq new.writes
        /\ new.leaves \/ \A k \in new.writes : k \in new.refreshes \/ <<new.name, k>> \in LeftForLater
        /\ \A t \in DOMAIN Toggles :
             /\ new.name = t /\ t \in HeldUntilRefreshed => new.waits
             /\ Toggles[t] \in new.refreshes => Toggles[t] \in new.writes
    BY <1>1 DEF Honest, ToggleSafe
  <2> HIDE DEF new
  <2> QED BY <1>0, <1>3, <2>1 DEF Covered
<1>8. ASSUME NEW k \in Queries PROVE Fresh(k)'
  <2> HIDE DEF new
  <2>1. Accounted(k) => Accounted(k)' BY <1>2, <1>3 DEF Accounted
  <2> QED BY <1>2, <2>1 DEF Fresh, IInv
<1>9. ASSUME NEW t \in DOMAIN Toggles PROVE Awaited(t)'
  <2> HIDE DEF new
  <2>1. Awaited(t) BY DEF IInv
  <2> QED BY <1>2, <1>3, <1>4, <2>1 DEF Awaited, Explained
<1> QED BY <1>4, <1>5, <1>6, <1>7, <1>8, <1>9 DEF IInv

-----------------------------------------------------------------------------
\* A page opens with nothing behind.
LEMMA InitInv == Init => IInv
<1> SUFFICES ASSUME Init PROVE IInv OBVIOUS
<1>1. /\ screen \in DOMAIN KeysOf /\ sent = <<>> /\ unasked = {} /\ excused = {} /\ surprises = 0
      /\ data \in [Queries -> {"none", "current"}] /\ fetch \in [Queries -> {"idle", "asked"}]
  BY DEF Init, Open, Queries
<1>2. Clicks = {} /\ Len(sent) = 0 BY <1>1 DEF Clicks
<1>3. TypeOK BY <1>1, <1>2, PageSyncAssumption DEF TypeOK, PageSyncTypeOK
<1>4. SentType /\ Covered BY <1>1, <1>2 DEF SentType, Covered
<1>5. \A k \in Queries : Fresh(k) BY <1>1 DEF Fresh
<1>6. \A t \in DOMAIN Toggles : Awaited(t) BY <1>1 DEF Awaited
<1> QED BY <1>3, <1>4, <1>5, <1>6 DEF IInv

\* Every step of the pages keeps the invariant.
LEMMA NextInv == IInv /\ [Next]_pageVars => IInv'
<1> SUFFICES ASSUME IInv, [Next]_pageVars PROVE IInv' OBVIOUS
<1>1. CASE IssueMutation BY <1>1, HonestIssue, MutationStep
<1>2. CASE PlanningMutation BY <1>2, HonestPlanning, MutationStep
<1>3. CASE SettingsMutation BY <1>3, HonestSettings, MutationStep
<1>4. CASE Sync
  <2>1. CASE \E i \in Clicks : Network(i) \/ LoseAnswer(i)
    BY <2>1, ApplyStep, RefuseStep, ReplyStep, LeaveStep, LoseAnswerStep DEF Network
  <2>2. CASE \E q \in Queries : AnswerQuery(q) \/ Arrive(q) \/ FetchFails(q) \/ Reconnect(q) \/ OthersWrite(q)
    BY <2>2, AnswerQueryStep, ArriveStep, FetchFailsStep, ReconnectStep, OthersWriteStep
  <2> QED BY <1>4, <2>1, <2>2 DEF Sync
<1>5. CASE UNCHANGED pageVars
  <2> Queries' = Queries /\ Clicks' = Clicks BY <1>5 DEF pageVars, Queries, Clicks
  <2> QED BY <1>5 DEF pageVars, IInv, TypeOK, PageSyncTypeOK, SentType, Covered, Fresh, Accounted, Awaited, Explained
<1> QED BY <1>1, <1>2, <1>3, <1>4, <1>5 DEF Next

\* The state of a page is well formed for any number of queries watched, of mutations and of
\* surprises.
THEOREM TypeInvariant == Spec => []TypeOK
<1>1. IInv => TypeOK BY DEF IInv
<1> QED BY <1>1, InitInv, NextInv, PTL DEF Spec

\* Every page catches up with its own writes: a settled query is behind only because its
\* refresh failed, somebody else wrote, or the mutation is one known not to refresh it.
THEOREM CatchesUp == Spec => []PageCatchesUp
<1>1. IInv => PageCatchesUp
  <2> SUFFICES ASSUME IInv, NEW k \in Queries, data[k] = "behind", Settled(k)
               PROVE  k \in excused \/ \E u \in unasked \cap LeftForLater : u[2] = k
    BY DEF PageCatchesUp
  <2>1. Accounted(k) BY DEF IInv, Fresh, Settled
  <2> QED BY <2>1 DEF Accounted, Settled
<1> QED BY <1>1, InitInv, NextInv, PTL DEF Spec

\* A mutation is sent only by a step of its page, and a toggle that is held only when it is not
\* pending.
LEMMA ToggleStep ==
  ASSUME IInv, Next, NEW t \in DOMAIN Toggles, NEW k \in Queries \cap {Toggles[t]}, Sends(t),
         data[k] = "behind"
  PROVE  Explained(k) \/ \E i \in Clicks : MayLack(k, i) /\ (sent[i].name = t => MayOutrun(t, i))
<1>0. Len(sent) \in Nat BY DEF IInv, SentType
<1>1. ~Sync
  <2>1. ASSUME Sync PROVE Len(sent') \in {0, Len(sent)}
    <3>1. CASE \E i \in Clicks : Network(i) \/ LoseAnswer(i)
      BY <3>1, ApplyStep, RefuseStep, ReplyStep, LeaveStep, LoseAnswerStep DEF Network
    <3>2. CASE \E q \in Queries : AnswerQuery(q) \/ Arrive(q) \/ FetchFails(q) \/ Reconnect(q) \/ OthersWrite(q)
      BY <3>2, AnswerQueryStep, ArriveStep, FetchFailsStep, ReconnectStep, OthersWriteStep
    <3> QED BY <2>1, <3>1, <3>2 DEF Sync
  <2>2. Len(sent') > Len(sent) BY DEF Sends
  <2> QED BY <1>0, <2>1, <2>2
<1>2. HonestMutation BY <1>1, HonestIssue, HonestPlanning, HonestSettings DEF Next
<1>3. PICK m, W, R, S, waits, leaves : Honest(m, W, R, S, waits, leaves) BY <1>2 DEF HonestMutation
<1>4. m = t
  <2> DEFINE new == [name |-> m, at |-> "sent", writes |-> W \cap Queries, refreshes |-> R \cap Queries,
                     sets |-> S \cap Queries, waits |-> waits, leaves |-> leaves, awaits |-> {},
                     overtaken |-> {}]
  <2>1. sent' = Append(sent, new) BY <1>3 DEF Honest, Mutate
  <2>2. new.name = m OBVIOUS
  <2> HIDE DEF new
  <2>3. PICK T : sent \in Seq(T) BY DEF IInv, SentType
  <2>4. sent'[Len(sent')] = new BY <2>1, <2>3
  <2> QED BY <2>2, <2>4 DEF Sends
<1>5. t \in HeldUntilRefreshed \cup HeldUntilAnswered =>
        \A i \in Clicks : sent[i].name = t => sent[i].at = "answered" /\ sent[i].awaits = {}
  <2>1. t \in HeldUntilRefreshed \cup HeldUntilAnswered => ~Pending(t)
    BY <1>3, <1>4 DEF Honest, ToggleSafe
  <2> QED BY <2>1 DEF Pending
<1>6. SUFFICES ASSUME ~Explained(k)
               PROVE  \E i \in Clicks : MayLack(k, i) /\ (sent[i].name = t => MayOutrun(t, i))
  OBVIOUS
<1>7. PICK i \in Clicks :
        /\ k \in sent[i].writes
        /\ sent[i].name = t /\ t \in HeldUntilRefreshed => sent[i].at = "applied" \/ k \in sent[i].awaits
  BY <1>6 DEF IInv, Awaited
<1>8. sent[i].name = t => MayOutrun(t, i) BY <1>5, <1>7 DEF MayOutrun
<1>9. CASE fetch[k] \in {"asked", "current"} BY <1>7, <1>8, <1>9 DEF MayLack
<1>10. CASE fetch[k] \notin {"asked", "current"}
  <2>1. PICK j \in Clicks : sent[j].at = "applied" /\ k \in sent[j].writes
    BY <1>6, <1>10 DEF IInv, Fresh, Accounted, Explained
  <2>2. sent[j].name = t => MayOutrun(t, j) BY <1>5, <2>1 DEF MayOutrun
  <2> QED BY <2>1, <2>2 DEF MayLack
<1> QED BY <1>9, <1>10

\* A toggle goes off an old copy only as far as its control lets it: held until its refresh has
\* settled, never off one its own click has made old; held until it is answered, only while the
\* refetch is on its way; and whatever its control, only while a mutation or a refetch is on its
\* way, or for a refresh that failed, somebody else's write, or a mutation known not to refresh it.
THEOREM TogglesSent == Spec => TogglesReadAsHeld
<1> DEFINE AsHeld ==
      \A t \in DOMAIN Toggles : \A k \in Queries \cap {Toggles[t]} :
        Sends(t) /\ data[k] = "behind" =>
          Explained(k) \/ \E i \in Clicks : MayLack(k, i) /\ (sent[i].name = t => MayOutrun(t, i))
<1>1. IInv /\ [Next]_pageVars => [AsHeld]_pageVars
  BY ToggleStep
<1>2. [][AsHeld]_pageVars => TogglesReadAsHeld
  BY PTL DEF TogglesReadAsHeld
<1> QED BY <1>1, <1>2, InitInv, NextInv, PTL DEF Spec
=============================================================================

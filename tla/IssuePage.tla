----------------------------- MODULE IssuePage -----------------------------
(***************************************************************************)
(* The issue page (features/issues/IssueDetail.tsx): for each of its        *)
(* components, what its mutations write on the server and which queries     *)
(* their onSuccess refreshes.  "overview" is the open count of the sidebar, *)
(* "badge" its unread count.                                                *)
(***************************************************************************)
EXTENDS PageSync

\* The queries of the page whose answers its own writes can change.
IssueKeys == [issue |->
  {"issue", "comments", "attachments", "activity", "watchers", "relations", "reactions",
   "iterations", "time", "fields", "overview", "badge"}]

\* Nothing of the page is rendered before the issue has arrived.
OnIssue == screen = "issue" /\ Loaded("issue")

\* Opening the issue marks its notifications read; a failure is ignored.
markIssueRead ==
  /\ screen = "issue" /\ sent = <<>>
  /\ Send("markIssueRead", {"badge"}, {"badge"})

-----------------------------------------------------------------------------
\* Any status the workflow allows from the one on show.
transition == Send("transition", {"issue", "activity", "overview"}, {"issue", "activity"})

StatusControl == OnIssue /\ transition

\* The server writes a timeline entry for every field patched.
patch == Send("patch", {"issue", "activity"}, {"issue"})

\* The rail's milestone, release and priority; the due date, the components, the estimate and
\* a task of the description go the same way.
RailSelects == OnIssue /\ patch

\* The same mutation again; the new assignee becomes a watcher.
AssigneeControl == OnIssue /\ Send("assign", {"issue", "activity", "watchers"}, {"issue"})

\* Moving to another project gives the issue a new key: the page reloads under it.
move == SendAndLeave("move", {"issue", "activity", "overview"})

ProjectControl == OnIssue /\ ~Pending("move") /\ move

archive == Send("archive", {"issue", "activity", "overview"}, {"issue", "activity"})

del == SendAndLeave("del", {"issue", "activity", "overview"})

\* Archive or unarchive, and delete.
menu ==
  /\ OnIssue
  /\ \/ ~Pending("archive") /\ archive
     \/ ~Pending("del") /\ del

snooze == Send("snooze", {"issue", "activity"}, {"issue", "activity"})

\* Snooze until a date, or wake.
SnoozeControl == OnIssue /\ ~Pending("snooze") /\ snooze

\* Commenting makes its author a watcher, may be the first response the SLA waits for, and
\* a /spend line in it logs time.
addComment ==
  \E spend \in BOOLEAN :
    Send("addComment",
         {"comments", "activity", "watchers", "issue"} \cup (IF spend THEN {"time"} ELSE {}),
         {"comments", "activity"})

CommentBox == OnIssue /\ ~Pending("addComment") /\ addComment

\* Fault: onSuccess no longer returns the promise of the refresh.
WatchButton_NoWait ==
  /\ OnIssue /\ Loaded("watchers") /\ ~Pending("watch")
  /\ Send("watch", {"watchers"}, {"watchers"})

\* Watch or unwatch, whichever the list on show does not say.
WatchButton ==
  /\ OnIssue /\ Loaded("watchers") /\ ~Pending("watch")
  /\ SendAndWait("watch", {"watchers"}, {"watchers"})

\* Adding a link (Enter does not look at isPending) and removing one that is on show.
LinkedIssues ==
  /\ OnIssue
  /\ \/ Send("addRelation", {"relations", "activity"}, {"relations", "activity"})
     \/ Loaded("relations") /\ Send("deleteRelation", {"relations", "activity"}, {"relations", "activity"})

\* An image pasted or dropped into the composer.
useAttachInsert == OnIssue /\ Send("pasteImage", {"attachments", "activity"}, {"attachments"})

\* The attachment panel: any number of files at once, and removal.
AttachmentsSection ==
  /\ OnIssue
  /\ \/ Send("upload", {"attachments", "activity"}, {"attachments", "activity"})
     \/ Loaded("attachments") /\ SendAndWait("deleteAttachment", {"attachments"}, {"attachments"})

\* A reaction is toggled by the server, on what it holds.
Reactions == OnIssue /\ Loaded("reactions") /\ SendAndWait("react", {"reactions"}, {"reactions"})

\* A comment on show: its author edits it, its author or a moderator deletes it.
CommentCard ==
  /\ OnIssue /\ Loaded("comments")
  /\ \/ /\ ~Pending("editComment")
        /\ Send("editComment", {"comments", "activity"}, {"comments", "activity"})
     \/ Send("deleteComment", {"comments", "activity"}, {"comments", "activity"})

\* Planning the issue into an iteration, or out of it.
IterationControl ==
  OnIssue /\ Send("setIteration", {"issue", "iterations", "activity"}, {"issue", "iterations"})

\* Logging time writes a timeline entry; removing an entry does not.
EffortControl ==
  /\ OnIssue
  /\ \/ Send("logTime", {"time", "issue", "activity"}, {"time", "issue"})
     \/ Loaded("time") /\ Send("removeEntry", {"time", "issue"}, {"time", "issue"})

\* The custom fields of the rail, saved together.
CustomFieldsPanel ==
  /\ OnIssue /\ Loaded("fields") /\ ~Pending("setFields")
  /\ Send("setFields", {"fields"}, {"fields"})

\* The edit form, with or without a new assignee.
EditIssueForm ==
  /\ OnIssue /\ ~Pending("save")
  /\ \E reassigned \in BOOLEAN :
       Send("save", {"issue", "activity"} \cup (IF reassigned THEN {"watchers"} ELSE {}), {"issue", "activity"})

IssueMutation ==
  \/ markIssueRead \/ StatusControl \/ RailSelects \/ AssigneeControl \/ ProjectControl \/ menu
  \/ SnoozeControl \/ CommentBox \/ WatchButton \/ LinkedIssues \/ useAttachInsert
  \/ AttachmentsSection \/ Reactions \/ CommentCard \/ IterationControl \/ EffortControl
  \/ CustomFieldsPanel \/ EditIssueForm

-----------------------------------------------------------------------------
\* What these mutations write on the page and leave for a later visit.
IssueLeftForLater ==
  ({"transition", "archive"} \X {"overview"})
    \cup ({"patch", "assign", "pasteImage", "setIteration", "logTime"} \X {"activity"})
    \cup ({"assign", "addComment", "save"} \X {"watchers"})
    \cup ({"addComment"} \X {"issue", "time"})
=============================================================================

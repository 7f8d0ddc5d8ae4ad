--------------------------- MODULE PlanningPages ---------------------------
(***************************************************************************)
(* The pages a team plans with: the issue list, the board, iterations,      *)
(* milestones, releases and the inbox.  As in IssuePage, one action per     *)
(* component: its mutations, what they write on the server and what their   *)
(* onSuccess refreshes.                                                     *)
(***************************************************************************)
EXTENDS PageSync

\* The queries of each page whose answers its own writes can change.
PlanningKeys == [
  list       |-> {"list", "overview", "project-views", "saved-searches"},
  board      |-> {"board", "cards", "overview"},
  iterations |-> {"iterations", "velocity"},
  milestones |-> {"milestones"},
  releases   |-> {"releases"},
  inbox      |-> {"inbox", "badge"}]

-----------------------------------------------------------------------------
(* The issue list. *)

OnList == screen = "list"

\* A project's shared views: delete, or make one the default.  Nothing is disabled meanwhile.
SharedViews ==
  /\ OnList /\ Loaded("project-views")
  /\ \E m \in {"deleteView", "setDefaultView"} : SendAndWait(m, {"project-views"}, {"project-views"})

\* Fault: a shared search is refreshed where it was, not where it went.
SavedSearches_OneList ==
  /\ OnList
  /\ \/ /\ Loaded("saved-searches")
        /\ \/ Send("shareSearch", {"saved-searches", "project-views"}, {"saved-searches"})
           \/ Send("deleteSearch", {"saved-searches"}, {"saved-searches", "project-views"})
     \/ Send("saveSearch", {"saved-searches"}, {"saved-searches", "project-views"})

\* One's own saved searches: sharing one moves it to the project's views; saving the filter
\* on show (Enter does not look at isPending); deleting one.
SavedSearches ==
  /\ OnList
  /\ \/ /\ Loaded("saved-searches")
        /\ \/ Send("shareSearch", {"saved-searches", "project-views"}, {"saved-searches", "project-views"})
           \/ Send("deleteSearch", {"saved-searches"}, {"saved-searches", "project-views"})
     \/ Send("saveSearch", {"saved-searches"}, {"saved-searches", "project-views"})

\* A bulk change of the selected rows; another may be sent before it is answered.
BulkBar ==
  /\ OnList /\ Loaded("list")
  /\ Send("bulk", {"list", "overview"}, {"list", "overview"})

\* Filing an issue from here opens it.
NewIssueForm ==
  /\ OnList /\ ~Pending("createIssue")
  /\ SendAndLeave("createIssue", {"list", "overview"})

-----------------------------------------------------------------------------
(* The board. *)

OnBoard == screen = "board" /\ Loaded("board")

\* A card dropped: a status change if it changed columns, and a rank, in two requests.
DropCard ==
  /\ OnBoard /\ Loaded("cards")
  /\ \/ SendAndWait("transition", {"cards", "overview"}, {"cards"})
     \/ SendAndWait("rank", {"cards"}, {"cards"})

\* The board's columns and lanes.  Nothing waits for an earlier change.
BoardConfigPanel ==
  /\ OnBoard
  /\ \/ \E m \in {"setSwimlane", "patchCol", "delCol"} : SendAndWait(m, {"board"}, {"board"})
     \/ Send("addCol", {"board"}, {"board"})

-----------------------------------------------------------------------------
(* Iterations, milestones, releases. *)

OnIterations == screen = "iterations" /\ Loaded("iterations")

\* Creating an iteration.
NewIterationForm ==
  /\ screen = "iterations" /\ ~Pending("createIteration")
  /\ Send("createIteration", {"iterations"}, {"iterations", "velocity"})

\* An iteration on show: start or complete it, carry its open issues over, delete it.
IterationRow ==
  /\ OnIterations
  /\ \E m \in {"updateIteration", "carryOver", "deleteIteration"} :
       Send(m, {"iterations", "velocity"}, {"iterations", "velocity"})

\* Creating (Enter does not look at isPending), closing or reopening, and deleting.
Milestones ==
  /\ screen = "milestones"
  /\ \/ Send("createMilestone", {"milestones"}, {"milestones"})
     \/ /\ Loaded("milestones")
        /\ \E m \in {"setMilestoneState", "deleteMilestone"} :
             SendAndWait(m, {"milestones"}, {"milestones"})

\* Creating (Enter does not look at isPending), publishing, and deleting.
Releases ==
  /\ screen = "releases"
  /\ \/ Send("createRelease", {"releases"}, {"releases"})
     \/ /\ Loaded("releases")
        /\ \E m \in {"publishRelease", "deleteRelease"} : SendAndWait(m, {"releases"}, {"releases"})

\* Generating a release's notes, asked for again once the reader agreed to replace them.
ReleaseCard ==
  /\ screen = "releases" /\ Loaded("releases") /\ ~Pending("generateNotes")
  /\ Send("generateNotes", {"releases"}, {"releases"})

-----------------------------------------------------------------------------
\* Everything unread is marked read.
Inbox ==
  /\ screen = "inbox" /\ Loaded("inbox") /\ ~Pending("markRead")
  /\ SendAndWait("markRead", {"inbox", "badge"}, {"inbox", "badge"})

PlanningMutation ==
  \/ SharedViews \/ SavedSearches \/ BulkBar \/ NewIssueForm
  \/ DropCard \/ BoardConfigPanel
  \/ NewIterationForm \/ IterationRow \/ Milestones \/ Releases \/ ReleaseCard
  \/ Inbox

\* What these mutations write on the page and leave for a later visit.
PlanningLeftForLater == {"transition"} \X {"overview"}
=============================================================================

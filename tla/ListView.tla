------------------------------ MODULE ListView ------------------------------
(***************************************************************************)
(* The issue list's filter and a project's default view (IssueList.tsx).    *)
(* The shared views load in the background; the first answer for a project  *)
(* decides whether its default replaces the filter, and later refetches,    *)
(* with defaults others set or cleared meanwhile, must not.                 *)
(***************************************************************************)
EXTENDS Naturals

CONSTANTS
  Projects,
  Filters,        \* what the filter box can hold
  NoDefault,      \* a project without default view
  MaxViewEdits    \* bound: defaults set or cleared, by anyone

ASSUME ListViewAssumption == Projects # {} /\ Filters # {} /\ NoDefault \notin Filters /\ MaxViewEdits \in Nat

VARIABLES
  project,
  linked,         \* the page was opened by a link with ?filter=
  filterBox,
  typedIn,        \* the box holds what the user last put there
  appliedDefaultFor,  \* the project whose default was last decided
  defaultOnServer,    \* each project's default view
  viewsShown,     \* its cached copy
  viewsCached,    \* the projects that have one
  viewEdits

listVars == <<project, linked, filterBox, typedIn, appliedDefaultFor, defaultOnServer,
              viewsShown, viewsCached, viewEdits>>

ListTypeOK ==
  /\ project \in Projects
  /\ filterBox \in Filters
  /\ appliedDefaultFor \subseteq Projects
  /\ {defaultOnServer, viewsShown} \subseteq [Projects -> Filters \cup {NoDefault}]
  /\ viewsCached \subseteq Projects
  /\ viewEdits \in 0..MaxViewEdits

ListInit ==
  /\ project = CHOOSE p \in Projects : TRUE
  /\ linked \in BOOLEAN
  /\ filterBox = CHOOSE f \in Filters : TRUE
  /\ typedIn = FALSE
  /\ appliedDefaultFor = {}
  /\ defaultOnServer = [p \in Projects |-> NoDefault]
  /\ viewsShown = defaultOnServer
  /\ viewsCached = {}
  /\ viewEdits = 0

-----------------------------------------------------------------------------
\* Fault: only a default that was found is remembered.
Decided_WhenFound(p, view) == IF view = NoDefault THEN appliedDefaultFor ELSE {p}

\* The project decided on is remembered, and only the last.
Decided(p, view) == {p}

\* The effect that runs when the project, its views or the address change.
ApplyDefault(p, link, cached, shown) ==
  IF link \/ p \notin cached \/ p \in appliedDefaultFor
  THEN UNCHANGED <<filterBox, typedIn, appliedDefaultFor>>
  ELSE /\ appliedDefaultFor' = Decided(p, shown[p])
       /\ filterBox' = IF shown[p] = NoDefault THEN filterBox ELSE shown[p]
       /\ typedIn' = (typedIn /\ shown[p] = NoDefault)

\* The user types, or picks a quick filter or a saved search.
SetFilter(f) ==
  /\ filterBox' = f /\ typedIn' = TRUE
  /\ UNCHANGED <<project, linked, appliedDefaultFor, defaultOnServer, viewsShown, viewsCached, viewEdits>>

SwitchProject(p) ==
  /\ p # project
  /\ project' = p
  /\ ApplyDefault(p, linked, viewsCached, viewsShown)
  /\ UNCHANGED <<linked, defaultOnServer, viewsShown, viewsCached, viewEdits>>

\* The "c" shortcut, or the sidebar's link to this page: the address loses its ?filter=.
DropLink ==
  /\ linked
  /\ linked' = FALSE
  /\ ApplyDefault(project, FALSE, viewsCached, viewsShown)
  /\ UNCHANGED <<project, defaultOnServer, viewsShown, viewsCached, viewEdits>>

\* The project's views arrive, for the first time or once more.
ViewsArrive ==
  /\ viewsCached' = viewsCached \cup {project}
  /\ viewsShown' = [viewsShown EXCEPT ![project] = defaultOnServer[project]]
  /\ ApplyDefault(project, linked, viewsCached', viewsShown')
  /\ UNCHANGED <<project, linked, defaultOnServer, viewEdits>>

\* Somebody sets or clears a project's default.
SetDefaultView(p, view) ==
  /\ viewEdits < MaxViewEdits
  /\ viewEdits' = viewEdits + 1
  /\ defaultOnServer' = [defaultOnServer EXCEPT ![p] = view]
  /\ UNCHANGED <<project, linked, filterBox, typedIn, appliedDefaultFor, viewsShown, viewsCached>>

ListNext ==
  \/ \E f \in Filters : SetFilter(f)
  \/ \E p \in Projects : SwitchProject(p) \/ \E v \in Filters \cup {NoDefault} : SetDefaultView(p, v)
  \/ ViewsArrive \/ DropLink

-----------------------------------------------------------------------------
\* "Applied at most once per project: after that the filter is the user's" (IssueList.tsx:63),
\* as far as the code keeps it: while they stay with a project, a filter set after its views
\* arrived stays the user's, whatever becomes of the views; and no answer replaces the filter
\* of a page opened by a link.
TypedKept ==
  [][(/\ typedIn /\ project' = project /\ linked' = linked
      /\ linked \/ project \in viewsCached)
     => typedIn']_listVars
=============================================================================

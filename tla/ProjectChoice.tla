---------------------------- MODULE ProjectChoice ----------------------------
(***************************************************************************)
(* The project the application is on (lib/project.tsx and the switcher of   *)
(* Layout.tsx), in one tab.  An effect falls back to the first project of   *)
(* the cached list whenever the chosen one is not on it, so a project just  *)
(* created has to be put on that list before the list is fetched again, and *)
(* a list asked for earlier may still arrive.  Others create, rename,       *)
(* archive and unarchive projects meanwhile; a key given up is free again.  *)
(***************************************************************************)
EXTENDS Naturals, FiniteSets

CONSTANTS
  AllProjects,     \* the keys there can be
  NoProject,
  MaxListed,       \* the projects the server lists at most
  MaxListings      \* bound: lists fetched again and reloads

ASSUME ProjectChoiceAssumption ==
  /\ AllProjects # {} /\ IsFiniteSet(AllProjects) /\ NoProject \notin AllProjects
  /\ MaxListed \in Nat \ {0} /\ MaxListings \in Nat

VARIABLES
  existing,        \* on the server, and not archived
  archived,        \* on the server, and on no list
  listed,          \* the cached list, empty while it loads
  listing,         \* its fetch, and the list answered
  chosenKey,       \* projectKey: the project on show
  storedKey,       \* the one kept in localStorage
  creation,        \* the project being created or, with "old", the key being renamed
  wanted,          \* the project the user last switched to or created
  unlisted,        \* since then, or since the page loaded, the server could have answered with
                   \* a list without it, or already had
  listings

projects == <<existing, archived>>
choiceVars == <<projects, listed, listing, chosenKey, storedKey, creation, wanted, unlisted, listings>>

ChoiceTypeOK ==
  /\ listed \cup existing \cup archived \subseteq AllProjects
  /\ listing \in [at : {"idle", "asked", "answered"}, list : SUBSET AllProjects]
  /\ {chosenKey, storedKey, wanted, creation.project, creation.old} \subseteq AllProjects \cup {NoProject}
  /\ creation.at \in {"none", "sent", "applied"}
  /\ listed # {} => chosenKey \in listed

Settled == [at |-> "idle", list |-> {}]
NoCreation == [at |-> "none", project |-> NoProject, old |-> NoProject]

ChoiceInit ==
  /\ existing = {CHOOSE p \in AllProjects : TRUE} /\ archived = {}
  /\ listed = {} /\ listing = [Settled EXCEPT !.at = "asked"]
  /\ chosenKey = NoProject /\ storedKey = NoProject
  /\ creation = NoCreation
  /\ wanted = NoProject /\ unlisted = TRUE
  /\ listings = 0

-----------------------------------------------------------------------------
\* The server could answer with a list without the project wanted, or has.
Unlisted ==
  \/ wanted \notin existing \/ Cardinality(existing) > MaxListed
  \/ listing.at = "answered" /\ wanted \notin listing.list

\* The effect: a choice that is not on the list becomes the list's first, whichever that is.
Fallback(key, list) ==
  /\ listed' = list
  /\ IF list = {} \/ key \in list THEN chosenKey' = key ELSE chosenKey' \in list

SwitchProjectTo(p) ==
  /\ p \in listed
  /\ Fallback(p, listed) /\ storedKey' = p
  /\ UNCHANGED <<projects, listing, creation, listings>>
  /\ wanted' = p /\ unlisted' = Unlisted'

CreateProject(p) ==
  /\ creation.at = "none"
  /\ creation' = [NoCreation EXCEPT !.at = "sent", !.project = p]
  /\ UNCHANGED <<projects, listed, listing, chosenKey, storedKey, wanted, unlisted, listings>>

\* The settings page of a project gives it another key.
RenameProject(p, key) ==
  /\ creation.at = "none" /\ p # key
  /\ creation' = [at |-> "sent", project |-> key, old |-> p]
  /\ UNCHANGED <<projects, listed, listing, chosenKey, storedKey, wanted, unlisted, listings>>

\* A key no project has, archived or not, is given to a new project or to the one that had
\* the old key, which is free from then on.
TakeKey(old, key) ==
  /\ key \notin existing \cup archived
  /\ old \in existing \cup archived \cup {NoProject}
  /\ existing' = IF old \in archived THEN existing ELSE (existing \ {old}) \cup {key}
  /\ archived' = IF old \in archived THEN (archived \ {old}) \cup {key} ELSE archived

\* What others do leaves the page as it is.
ByOthers ==
  /\ UNCHANGED <<listed, listing, chosenKey, storedKey, creation, wanted, listings>>
  /\ unlisted' = (unlisted \/ Unlisted')

ServerCreates ==
  /\ creation.at = "sent"
  /\ TakeKey(creation.old, creation.project)
  /\ creation' = [creation EXCEPT !.at = "applied"]
  /\ UNCHANGED <<listed, listing, chosenKey, storedKey, wanted, listings>>
  /\ unlisted' = (unlisted \/ Unlisted')

CreationRefused ==
  /\ creation.at = "sent"
  /\ creation' = NoCreation
  /\ UNCHANGED <<projects, listed, listing, chosenKey, storedKey, wanted, unlisted, listings>>

\* The answer is lost, and taken for a refusal.
CreationAnswerLost ==
  /\ creation.at = "applied"
  /\ creation' = NoCreation
  /\ UNCHANGED <<projects, listed, listing, chosenKey, storedKey, wanted, unlisted, listings>>

\* Fault: the list is left to its next fetch.
Seeded_Not(p) == listed

\* The cached list with the new project put on it.
Seeded(p) == listed \cup {p}

\* onCreated: the project goes on the list and becomes the choice.
Created ==
  /\ creation.at = "applied" /\ creation.old = NoProject
  /\ creation' = NoCreation
  /\ Fallback(creation.project, Seeded(creation.project)) /\ storedKey' = creation.project
  /\ UNCHANGED <<projects, listing, listings>>
  /\ wanted' = creation.project /\ unlisted' = Unlisted'

\* The page's state is lost: the choice is what localStorage says, and the list is fetched.
StartAfresh(stored) ==
  /\ listed' = {} /\ listing' = [Settled EXCEPT !.at = "asked"]
  /\ chosenKey' = stored /\ creation' = NoCreation
  /\ UNCHANGED projects
  /\ wanted' = stored /\ unlisted' = Unlisted'

\* A rename keeps the new key and loads the page again, past the cached list's fallback.
Renamed ==
  /\ creation.at = "applied" /\ creation.old # NoProject
  /\ storedKey' = creation.project
  /\ StartAfresh(creation.project)
  /\ UNCHANGED listings

\* Changed settings, reconnections and pages that show projects fetch the list again; a first
\* load under way is joined.
FetchProjects ==
  /\ listings < MaxListings /\ (listed # {} \/ listing.at = "idle")
  /\ listings' = listings + 1
  /\ listing' = [Settled EXCEPT !.at = "asked"]
  /\ UNCHANGED <<projects, listed, chosenKey, storedKey, creation, wanted, unlisted>>

\* The projects that are not archived, as many as a page holds.
ServerListsProjects ==
  /\ listing.at = "asked"
  /\ \E list \in SUBSET existing :
       /\ Cardinality(list) <= MaxListed /\ (list = existing \/ Cardinality(list) = MaxListed)
       /\ listing' = [at |-> "answered", list |-> list]
  /\ UNCHANGED <<projects, listed, chosenKey, storedKey, creation, wanted, unlisted, listings>>

ProjectsArrive ==
  /\ listing.at = "answered"
  /\ listing' = Settled
  /\ Fallback(chosenKey, listing.list)
  /\ UNCHANGED <<projects, storedKey, creation, wanted, unlisted, listings>>

\* Others, or the settings page, put a project away...
OthersArchive(p) ==
  /\ p \in existing
  /\ existing' = existing \ {p} /\ archived' = archived \cup {p}
  /\ ByOthers

\* ...and, through the API, back.
OthersUnarchive(p) ==
  /\ p \in archived
  /\ existing' = existing \cup {p} /\ archived' = archived \ {p}
  /\ ByOthers

\* Others create a project or rename one.
OthersTakeKey(old, key) == TakeKey(old, key) /\ ByOthers

ReloadPage ==
  /\ listings < MaxListings
  /\ listings' = listings + 1
  /\ StartAfresh(storedKey)
  /\ UNCHANGED storedKey

ChoiceNext ==
  \/ \E p \in AllProjects :
       \/ SwitchProjectTo(p) \/ CreateProject(p) \/ OthersArchive(p) \/ OthersUnarchive(p)
       \/ \E key \in AllProjects : RenameProject(p, key)
       \/ \E old \in AllProjects \cup {NoProject} : OthersTakeKey(old, p)
  \/ ServerCreates \/ CreationRefused \/ CreationAnswerLost \/ Created \/ Renamed
  \/ FetchProjects \/ ServerListsProjects \/ ProjectsArrive \/ ReloadPage

-----------------------------------------------------------------------------
\* "so the context's default-selection effect doesn't bounce the selection back to the first
\* project before the refetch lands" (Layout.tsx:417-418): whatever order creations, renames and
\* lists come in, the user stays on the project last switched to or created, through reloads
\* too, unless since then, or since the page loaded, the server could list projects without it:
\* because it was archived (even if it came back), or renamed by others, or there were more than
\* a page of them, or because a list answered before its creation was still to arrive.
ChoiceKept == ~unlisted => chosenKey = wanted
=============================================================================

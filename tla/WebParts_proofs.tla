--------------------------- MODULE WebParts_proofs ---------------------------
(***************************************************************************)
(* The invariants of the five parts, for every number of pages, requests,   *)
(* projects, pastes and expiries.  Each part keeps its own while the others *)
(* stand still.                                                             *)
(***************************************************************************)
EXTENDS WebParts, Composer_proofs

-----------------------------------------------------------------------------
\* A failed page is asked for again only after a refetch of the list has cleared the failure.
LoadInv ==
  /\ LoadTypeOK
  /\ failures \in Nat /\ failures <= refreshes + 1
  /\ nextFailed => pageRequest = "idle"
  /\ ~nextFailed => failures <= refreshes
  /\ pageRequest = "next" => 0 < pagesLoaded /\ pagesLoaded < BoardPages

LEMMA LoadInitInv == LoadInit => LoadInv
<1> SUFFICES ASSUME LoadInit PROVE LoadInv
  OBVIOUS
<1>1. nextFailed \in BOOLEAN /\ down \in BOOLEAN
  BY DEF LoadInit
<1>2. pagesLoaded \in 0..BoardPages /\ pageRequest \in {"idle", "next", "refetch"} /\ refreshes \in 0..MaxRefreshes
  BY BoardLoadAssumption DEF LoadInit
<1> QED BY <1>1, <1>2 DEF LoadInit, LoadInv, LoadTypeOK

LEMMA LoadStepInv == LoadInv /\ LoadNext => LoadInv'
<1> SUFFICES ASSUME LoadInv, LoadNext PROVE LoadInv'
  OBVIOUS
<1>a. PageArrives \/ RefreshBoard => nextFailed' = FALSE
  BY DEF PageArrives, RefreshBoard, Loading
<1> USE BoardLoadAssumption DEF LoadInv, LoadTypeOK
<1>b. nextFailed' \in BOOLEAN /\ down' \in BOOLEAN
  BY DEF LoadNext, PageArrives, PageFails, RefreshBoard, ServerTurns, Loading
<1>1. CASE PageArrives
  <2>1. /\ pagesLoaded' \in 0..BoardPages /\ pageRequest' \in {"idle", "next", "refetch"} 
        /\ refreshes' \in 0..MaxRefreshes
    BY <1>1 DEF PageArrives, Loading, WantsNext
  <2>2. failures' \in Nat /\ failures' <= refreshes' /\ failures' <= refreshes' + 1
    BY <1>1 DEF PageArrives, Loading, WantsNext
  <2>3. (pageRequest = "next" => 0 < pagesLoaded /\ pagesLoaded < BoardPages)'
    BY <1>1 DEF PageArrives, Loading, WantsNext
  <2>4. nextFailed' = FALSE
    BY <1>1, <1>a
  <2> QED BY <1>b, <2>1, <2>2, <2>3, <2>4
<1>2. CASE PageFails
  <2>1. /\ pagesLoaded' \in 0..BoardPages /\ pageRequest' \in {"idle", "next", "refetch"} 
        /\ refreshes' \in 0..MaxRefreshes
    BY <1>2 DEF PageFails, Loading, WantsNext
  <2>2. CASE pageRequest = "next"
    <3>1. nextFailed' /\ pageRequest' = "idle" 
      BY <1>2, <2>2 DEF PageFails, Loading, WantsNext
    <3> QED BY <1>b, <1>2, <2>1, <2>2, <3>1 DEF PageFails
  <2>3. CASE pageRequest # "next"
    <3>1. ~nextFailed' /\ ~nextFailed 
      BY <1>2, <2>3 DEF PageFails, Loading, WantsNext
    <3>2. (pageRequest = "next" => 0 < pagesLoaded /\ pagesLoaded < BoardPages)'
      BY <1>2, <2>3 DEF PageFails, Loading, WantsNext
    <3> QED BY <1>b, <1>2, <2>1, <2>3, <3>1, <3>2 DEF PageFails
  <2> QED BY <2>2, <2>3
<1>3. CASE RefreshBoard
  <2>1. /\ pagesLoaded' \in 0..BoardPages /\ pageRequest' \in {"idle", "next", "refetch"} 
        /\ refreshes' \in 0..MaxRefreshes
    BY <1>3 DEF RefreshBoard, Loading, WantsNext
  <2>2. failures' \in Nat /\ failures' <= refreshes' /\ failures' <= refreshes' + 1
    BY <1>3 DEF RefreshBoard
  <2>3. (pageRequest = "next" => 0 < pagesLoaded /\ pagesLoaded < BoardPages)'
    BY <1>3 DEF RefreshBoard, Loading, WantsNext
  <2>4. nextFailed' = FALSE
    BY <1>3, <1>a
  <2> QED BY <1>b, <2>1, <2>2, <2>3, <2>4
<1>4. CASE ServerTurns
  BY <1>4, <1>b DEF ServerTurns
<1> QED BY <1>1, <1>2, <1>3, <1>4 DEF LoadNext

-----------------------------------------------------------------------------
\* Once a project's views are there, and no link set the filter, its default has been decided.
ListInv ==
  /\ ListTypeOK
  /\ linked \in BOOLEAN /\ typedIn \in BOOLEAN
  /\ ~linked /\ project \in viewsCached => project \in appliedDefaultFor

LEMMA ListInitInv == ListInit => ListInv
<1> SUFFICES ASSUME ListInit PROVE ListInv
  OBVIOUS
<1>1. /\ project \in Projects /\ filterBox \in Filters
      /\ appliedDefaultFor \subseteq Projects
      /\ {defaultOnServer, viewsShown} \subseteq [Projects -> Filters \cup {NoDefault}]
      /\ viewsCached \subseteq Projects
  BY ListViewAssumption DEF ListInit
<1>2. viewEdits \in 0..MaxViewEdits
  BY ListViewAssumption DEF ListInit
<1>3. linked \in BOOLEAN /\ typedIn \in BOOLEAN
  BY DEF ListInit
<1> QED BY <1>1, <1>2, <1>3 DEF ListInv, ListTypeOK, ListInit

LEMMA ListStepInv == ListInv /\ ListNext => ListInv'
<1> SUFFICES ASSUME ListInv, ListNext PROVE ListInv'
  OBVIOUS
<1> USE ListViewAssumption DEF ListInv, ListTypeOK
<1>1. ASSUME NEW f \in Filters, SetFilter(f) PROVE ListInv'
  BY <1>1 DEF SetFilter
<1>2. ASSUME NEW p \in Projects, SwitchProject(p) PROVE ListInv'
  BY <1>2 DEF SwitchProject, ApplyDefault, Decided
<1>3. ASSUME NEW p \in Projects, NEW v \in Filters \cup {NoDefault}, SetDefaultView(p, v) PROVE ListInv'
  BY <1>3 DEF SetDefaultView
<1>4. CASE ViewsArrive
  BY <1>4 DEF ViewsArrive, ApplyDefault, Decided
<1>5. CASE DropLink
  BY <1>5 DEF DropLink, ApplyDefault, Decided
<1> QED BY <1>1, <1>2, <1>3, <1>4, <1>5 DEF ListNext

\* The step of TypedKept.
TypedStays ==
  (/\ typedIn /\ project' = project /\ linked' = linked
   /\ linked \/ project \in viewsCached)
  => typedIn'

LEMMA ListStepKeeps == ListInv /\ ListNext => TypedStays
<1> SUFFICES ASSUME ListInv, ListNext PROVE TypedStays
  OBVIOUS
<1> USE DEF ListInv, TypedStays
<1>1. ASSUME NEW f \in Filters, SetFilter(f) PROVE TypedStays
  BY <1>1 DEF SetFilter
<1>2. ASSUME NEW p \in Projects, SwitchProject(p) PROVE TypedStays
  BY <1>2 DEF SwitchProject
<1>3. ASSUME NEW p \in Projects, NEW v \in Filters \cup {NoDefault}, SetDefaultView(p, v) PROVE TypedStays
  BY <1>3 DEF SetDefaultView
<1>4. CASE ViewsArrive
  BY <1>4 DEF ViewsArrive, ApplyDefault
<1>5. CASE DropLink
  BY <1>5 DEF DropLink
<1> QED BY <1>1, <1>2, <1>3, <1>4, <1>5 DEF ListNext

-----------------------------------------------------------------------------
\* The choice is kept in the browser, where a reload finds it; as long as no list without the
\* project wanted could be answered, it exists, it is on the list on its way, and it is the
\* choice.
ChoiceInv ==
  /\ ChoiceTypeOK
  /\ creation \in [at : {"none", "sent", "applied"}, project : AllProjects \cup {NoProject},
                   old : AllProjects \cup {NoProject}]
  /\ creation.at # "none" => creation.project \in AllProjects
  /\ storedKey = wanted
  /\ unlisted \in BOOLEAN
  /\ ~unlisted => ~Unlisted
  /\ ChoiceKept

LEMMA ChoiceInitInv == ChoiceInit => ChoiceInv
<1> SUFFICES ASSUME ChoiceInit PROVE ChoiceInv
  OBVIOUS
<1>1. existing \subseteq AllProjects /\ archived = {}
  BY ProjectChoiceAssumption DEF ChoiceInit
<1>2. listing \in [at : {"idle", "asked", "answered"}, list : SUBSET AllProjects] /\ listing.list = {}
  BY DEF ChoiceInit, Settled
<1>3. /\ creation \in [at : {"none", "sent", "applied"}, project : AllProjects \cup {NoProject},
                       old : AllProjects \cup {NoProject}]
      /\ creation.at = "none"
  BY DEF ChoiceInit, NoCreation
<1>4. wanted = NoProject /\ storedKey = NoProject /\ chosenKey = NoProject /\ listed = {} /\ unlisted = TRUE
  BY DEF ChoiceInit
<1> QED
  BY <1>1, <1>2, <1>3, <1>4, ProjectChoiceAssumption DEF ChoiceInv, ChoiceTypeOK, ChoiceKept

\* Giving, putting away and bringing back keys leaves them keys.
LEMMA TakenKeys ==
  ASSUME ChoiceTypeOK, NEW old, NEW key \in AllProjects, TakeKey(old, key)
  PROVE  existing' \cup archived' \subseteq AllProjects
BY DEF ChoiceTypeOK, TakeKey

\* A step that leaves the page as it is and, of the projects, tells "unlisted" what it did.
LEMMA ChoiceUndisturbed ==
  ASSUME ChoiceInv, existing' \cup archived' \subseteq AllProjects,
         UNCHANGED <<listed, listing, chosenKey, storedKey, wanted, listings>>,
         unlisted' \in BOOLEAN, ~unlisted' => ~unlisted /\ ~Unlisted',
         creation' = creation \/ (creation' = [creation EXCEPT !.at = "applied"] /\ creation.at = "sent")
  PROVE  ChoiceInv'
<1>1. ChoiceTypeOK'
  BY DEF ChoiceInv, ChoiceTypeOK
<1>2. /\ creation' \in [at : {"none", "sent", "applied"}, project : AllProjects \cup {NoProject},
                        old : AllProjects \cup {NoProject}]
      /\ creation'.at # "none" => creation'.project \in AllProjects
  BY DEF ChoiceInv
<1> QED BY <1>1, <1>2 DEF ChoiceInv, ChoiceKept

\* What others do to the projects keeps it.
LEMMA LeftByOthers ==
  ASSUME ChoiceInv, existing' \cup archived' \subseteq AllProjects, ByOthers
  PROVE  ChoiceInv'
<1>1. UNCHANGED <<listed, listing, chosenKey, storedKey, wanted, listings>>
  BY DEF ByOthers
<1>2. creation' = creation
  BY DEF ByOthers
<1>3. unlisted' \in BOOLEAN /\ (~unlisted' => ~unlisted /\ ~Unlisted')
  BY Zenon DEF ByOthers
<1> QED BY <1>1, <1>2, <1>3, ChoiceUndisturbed

LEMMA ChoiceStepInv == ChoiceInv /\ ChoiceNext => ChoiceInv'
<1> SUFFICES ASSUME ChoiceInv, ChoiceNext PROVE ChoiceInv'
  OBVIOUS
<1> USE ProjectChoiceAssumption
<1>1. ASSUME NEW p \in AllProjects, SwitchProjectTo(p) PROVE ChoiceInv'
  <2>1. ChoiceTypeOK' /\ storedKey' = wanted' /\ chosenKey' = wanted' /\ UNCHANGED creation
    BY <1>1 DEF SwitchProjectTo, Fallback, ChoiceInv, ChoiceTypeOK, projects
  <2>2. unlisted' \in BOOLEAN /\ (~unlisted' => ~Unlisted')
    BY <1>1 DEF SwitchProjectTo, Unlisted
  <2> QED BY <2>1, <2>2 DEF ChoiceInv, ChoiceKept
<1>2. ASSUME NEW p \in AllProjects, CreateProject(p) PROVE ChoiceInv'
  BY <1>2 DEF CreateProject, NoCreation, ChoiceInv, ChoiceTypeOK, ChoiceKept, Unlisted, projects
<1>3. ASSUME NEW p \in AllProjects, NEW key \in AllProjects, RenameProject(p, key) PROVE ChoiceInv'
  BY <1>3 DEF RenameProject, ChoiceInv, ChoiceTypeOK, ChoiceKept, Unlisted, projects
<1>4. ASSUME NEW p \in AllProjects, OthersArchive(p) \/ OthersUnarchive(p) PROVE ChoiceInv'
  <2>1. existing' \cup archived' \subseteq AllProjects
    BY <1>4 DEF OthersArchive, OthersUnarchive, ChoiceInv, ChoiceTypeOK
  <2> QED BY <1>4, <2>1, LeftByOthers DEF OthersArchive, OthersUnarchive
<1>5. ASSUME NEW old, NEW key \in AllProjects, OthersTakeKey(old, key) PROVE ChoiceInv'
  <2>1. existing' \cup archived' \subseteq AllProjects
    BY <1>5, TakenKeys DEF OthersTakeKey, ChoiceInv
  <2> QED BY <1>5, <2>1, LeftByOthers DEF OthersTakeKey
<1>6. CASE ServerCreates
  <2>1. existing' \cup archived' \subseteq AllProjects
    BY <1>6, TakenKeys DEF ServerCreates, ChoiceInv
  <2>2. unlisted' \in BOOLEAN /\ (~unlisted' => ~unlisted /\ ~Unlisted')
    BY <1>6, Zenon DEF ServerCreates
  <2> QED BY <1>6, <2>1, <2>2, ChoiceUndisturbed DEF ServerCreates
<1>7. CASE CreationRefused \/ CreationAnswerLost
  BY <1>7 DEF CreationRefused, CreationAnswerLost, NoCreation, ChoiceInv, ChoiceTypeOK, ChoiceKept, Unlisted, projects
<1>8. CASE Created
  <2>1. /\ ChoiceTypeOK' /\ storedKey' = wanted' /\ chosenKey' = wanted' /\ creation' = NoCreation
    BY <1>8 DEF Created, Fallback, Seeded, NoCreation, ChoiceInv, ChoiceTypeOK, projects
  <2>2. unlisted' \in BOOLEAN /\ (~unlisted' => ~Unlisted')
    BY <1>8 DEF Created, Unlisted
  <2> QED BY <2>1, <2>2 DEF ChoiceInv, ChoiceKept, NoCreation
<1>9. ASSUME NEW stored \in AllProjects \cup {NoProject}, StartAfresh(stored), storedKey' = stored PROVE ChoiceInv'
  <2>1. /\ ChoiceTypeOK' /\ storedKey' = wanted' /\ chosenKey' = wanted' /\ creation' = NoCreation
    BY <1>9 DEF StartAfresh, NoCreation, Settled, ChoiceInv, ChoiceTypeOK, projects
  <2>2. unlisted' \in BOOLEAN /\ (~unlisted' => ~Unlisted')
    BY <1>9 DEF StartAfresh, Unlisted
  <2> QED BY <2>1, <2>2 DEF ChoiceInv, ChoiceKept, NoCreation
<1>10. CASE Renamed
  BY <1>9, <1>10 DEF Renamed, ChoiceInv
<1>11. CASE ReloadPage
  BY <1>9, <1>11 DEF ReloadPage, ChoiceInv, ChoiceTypeOK
<1>12. CASE FetchProjects
  BY <1>12 DEF FetchProjects, Settled, ChoiceInv, ChoiceTypeOK, ChoiceKept, Unlisted, projects
<1>13. CASE ServerListsProjects
  <2>1. PICK list \in SUBSET existing :
          /\ Cardinality(list) <= MaxListed /\ (list = existing \/ Cardinality(list) = MaxListed)
          /\ listing' = [at |-> "answered", list |-> list]
    BY <1>13 DEF ServerListsProjects
  <2>2. ~unlisted => wanted \in list
    <3>1. IsFiniteSet(existing)
      BY FS_Subset DEF ChoiceInv, ChoiceTypeOK
    <3>2. /\ Cardinality(list) <= Cardinality(existing)
          /\ Cardinality(list) \in Nat /\ Cardinality(existing) \in Nat
          /\ Cardinality(list) = Cardinality(existing) => list = existing
      BY <3>1, FS_Subset, FS_CardinalityType
    <3>3. ~unlisted => wanted \in existing /\ ~(Cardinality(existing) > MaxListed)
      BY DEF ChoiceInv, Unlisted
    <3> QED BY <2>1, <3>2, <3>3
  <2>3. list \subseteq AllProjects
    BY DEF ChoiceInv, ChoiceTypeOK
  <2>4. UNCHANGED <<existing, archived, listed, chosenKey, storedKey, creation, wanted, unlisted, listings>>
    BY <1>13 DEF ServerListsProjects, projects
  <2>5. listing' = [at |-> "answered", list |-> list]
    BY <2>1
  <2>6. ChoiceTypeOK'
    BY <2>3, <2>4, <2>5 DEF ChoiceInv, ChoiceTypeOK
  <2>7. ~unlisted' => ~Unlisted'
    BY <2>2, <2>4, <2>5 DEF ChoiceInv, Unlisted
  <2> QED BY <2>4, <2>6, <2>7 DEF ChoiceInv, ChoiceKept
<1>14. CASE ProjectsArrive
  BY <1>14 DEF ProjectsArrive, Fallback, Settled, ChoiceInv, ChoiceTypeOK, ChoiceKept, Unlisted, projects
<1> QED
  BY <1>1, <1>2, <1>3, <1>4, <1>5, <1>6, <1>7, <1>8, <1>10, <1>11, <1>12, <1>13, <1>14 DEF ChoiceNext
-----------------------------------------------------------------------------
\* While the session lives and nothing is lost: whoever started a refresh waits for it; one
\* refresh at most is under way, with the token the identity provider expects; unless it has
\* been granted, the browser holds that token; no refusal survives a refresh; and a request
\* sent again finds the new access cookie.
Healthy ==
  /\ shell = "app" /\ polling = TRUE
  /\ \A r \in Requesters : request[r] # "dead"
  /\ \A r \in Requesters : request[r] = "resent" => access = TRUE
  /\ \A r \in Requesters : refresh[r].at # "none" =>
       request[r] = "waiting" /\ refresh[r].at # "failed" /\ refresh[r].token = currentToken
  /\ \A r, s \in Requesters : refresh[r].at # "none" /\ refresh[s].at # "none" => r = s
  /\ (\A r \in Requesters : refresh[r].at # "granted") => refreshCookie = currentToken

SessionInv == SessionTypeOK /\ (alive = TRUE /\ losses = 0 => Healthy)

LEMMA SessionInitInv == SessionInit => SessionInv
<1> SUFFICES ASSUME SessionInit PROVE SessionInv
  OBVIOUS
<1>1. SessionTypeOK
  <2>1. /\ shell \in {"app", "signin", "error"}
        /\ {access, alive, polling} \subseteq BOOLEAN
        /\ request \in [Requesters -> RequestStates]
        /\ joined \in [Requesters -> Requesters]
    BY DEF SessionInit, RequestStates
  <2>2. /\ refreshCookie \in Nat /\ currentToken \in Nat
        /\ expiries \in 0..MaxExpiries /\ losses \in 0..MaxLosses /\ visits \in 0..MaxVisits
    BY SessionAssumption DEF SessionInit
  <2>3. refresh \in [Requesters -> [at : {"none", "sent", "granted", "failed"}, token : Nat]]
    BY DEF SessionInit, NoRefresh
  <2> QED BY <2>1, <2>2, <2>3 DEF SessionTypeOK
<1>2. Healthy
  BY DEF SessionInit, Healthy, NoRefresh
<1> QED BY <1>1, <1>2 DEF SessionInv

-----------------------------------------------------------------------------
\* One lemma for each part of the state.
LEMMA SessionStepType == SessionTypeOK /\ SessionNext => SessionTypeOK'
<1> SUFFICES ASSUME SessionTypeOK, SessionNext PROVE SessionTypeOK'
  OBVIOUS
<1>1. shell' \in {"app", "signin", "error"}
  BY DEF SessionTypeOK, SessionNext, SessionStepOf, Poll, Visit, ServerAnswers, Served, TryRefresh,
         ServerRefreshes, RefreshArrives, ExchangeFails, RefreshLost, Unauthorized, RequestLost, AccessExpires, SessionEnds
<1>2. {access, alive, polling}' \subseteq BOOLEAN
  <2>1. access' \in BOOLEAN
    BY DEF SessionTypeOK, SessionNext, SessionStepOf, Poll, Visit, ServerAnswers, Served, TryRefresh,
         ServerRefreshes, RefreshArrives, ExchangeFails, RefreshLost, Unauthorized, RequestLost, AccessExpires, SessionEnds, cookies
  <2>2. alive' \in BOOLEAN
    BY DEF SessionTypeOK, SessionNext, SessionStepOf, Poll, Visit, ServerAnswers, Served, TryRefresh,
         ServerRefreshes, RefreshArrives, ExchangeFails, RefreshLost, Unauthorized, RequestLost, AccessExpires, SessionEnds, cookies
  <2>3. polling' \in BOOLEAN
    BY DEF SessionTypeOK, SessionNext, SessionStepOf, Poll, Visit, ServerAnswers, Served, TryRefresh,
         ServerRefreshes, RefreshArrives, ExchangeFails, RefreshLost, Unauthorized, RequestLost, AccessExpires, SessionEnds
  <2> QED BY <2>1, <2>2, <2>3
<1>3. refreshCookie' \in Nat /\ currentToken' \in Nat
  <2> USE DEF SessionTypeOK
  <2>1. CASE UNCHANGED <<refreshCookie, currentToken>>
    BY <2>1
  <2>2. ASSUME NEW r \in Requesters, ServerRefreshes(r) PROVE refreshCookie' \in Nat /\ currentToken' \in Nat
    BY <2>2 DEF ServerRefreshes
  <2>3. ASSUME NEW r \in Requesters, RefreshArrives(r) PROVE refreshCookie' \in Nat /\ currentToken' \in Nat
    BY <2>3 DEF RefreshArrives
  <2>4. ASSUME NEW r \in Requesters, ExchangeFails(r) PROVE refreshCookie' \in Nat /\ currentToken' \in Nat
    BY <2>4 DEF ExchangeFails
  <2> QED
    BY <2>1, <2>2, <2>3, <2>4 DEF SessionNext, SessionStepOf, Poll, Visit, ServerAnswers, Served, TryRefresh,
       ExchangeFails, RefreshLost, Unauthorized, RequestLost, AccessExpires, SessionEnds, cookies
<1>4. request' \in [Requesters -> RequestStates]
  <2> USE DEF SessionTypeOK, RequestStates
  <2>1. CASE Poll \/ Visit \/ AccessExpires \/ SessionEnds
    BY <2>1 DEF Poll, Visit, AccessExpires, SessionEnds
  <2>2. ASSUME NEW r \in Requesters, ServerAnswers(r) \/ Served(r) \/ TryRefresh(r) \/ ServerRefreshes(r)
                                   \/ ExchangeFails(r)
        PROVE  request' \in [Requesters -> RequestStates]
    BY <2>2 DEF ServerAnswers, Served, TryRefresh, ServerRefreshes, ExchangeFails
  <2>3. ASSUME NEW r \in Requesters, RefreshArrives(r) \/ RefreshLost(r) 
        PROVE  request' \in [Requesters -> RequestStates]
    BY <2>3 DEF RefreshArrives, RefreshLost, Released
  <2>4. ASSUME NEW r \in Requesters, Unauthorized(r) \/ RequestLost(r)
        PROVE  request' \in [Requesters -> RequestStates]
    BY <2>4 DEF Unauthorized, RequestLost
  <2> QED BY <2>1, <2>2, <2>3, <2>4 DEF SessionNext, SessionStepOf
<1>5. joined' \in [Requesters -> Requesters]
  <2>1. ASSUME NEW r \in Requesters, TryRefresh(r) PROVE joined' \in [Requesters -> Requesters]
    <3>1. RefreshToJoin(r) \in Requesters
      BY DEF RefreshToJoin
    <3> QED BY <2>1, <3>1 DEF TryRefresh, SessionTypeOK
  <2>2. CASE UNCHANGED joined
    BY <2>2 DEF SessionTypeOK
  <2> QED 
    BY <2>1, <2>2 DEF SessionNext, SessionStepOf, Poll, Visit, ServerAnswers, Served, ServerRefreshes,
       RefreshArrives, ExchangeFails, RefreshLost, Unauthorized, RequestLost, AccessExpires, SessionEnds
<1>6. refresh' \in [Requesters -> [at : {"none", "sent", "granted", "failed"}, token : Nat]]
  <2> USE DEF SessionTypeOK
  <2>1. CASE UNCHANGED refresh
    BY <2>1
  <2>2. ASSUME NEW r \in Requesters, TryRefresh(r)
        PROVE  refresh' \in [Requesters -> [at : {"none", "sent", "granted", "failed"}, token : Nat]]
    BY <2>2 DEF TryRefresh
  <2>3. ASSUME NEW r \in Requesters, ServerRefreshes(r)
        PROVE  refresh' \in [Requesters -> [at : {"none", "sent", "granted", "failed"}, token : Nat]]
    BY <2>3 DEF ServerRefreshes
  <2>4. ASSUME NEW r \in Requesters, RefreshArrives(r) \/ RefreshLost(r)
        PROVE  refresh' \in [Requesters -> [at : {"none", "sent", "granted", "failed"}, token : Nat]]
    <3>1. refresh' = [refresh EXCEPT ![r] = NoRefresh]
      BY <2>4 DEF RefreshArrives, RefreshLost
    <3> QED BY <3>1 DEF NoRefresh
  <2>5. ASSUME NEW r \in Requesters, ExchangeFails(r)
        PROVE  refresh' \in [Requesters -> [at : {"none", "sent", "granted", "failed"}, token : Nat]]
    BY <2>5 DEF ExchangeFails
  <2> QED
    BY <2>1, <2>2, <2>3, <2>4, <2>5 DEF SessionNext, SessionStepOf, Poll, Visit, ServerAnswers, Served,
       Unauthorized, RequestLost, AccessExpires, SessionEnds
<1>7. expiries' \in 0..MaxExpiries /\ losses' \in 0..MaxLosses /\ visits' \in 0..MaxVisits
  <2> USE SessionAssumption DEF SessionTypeOK
  <2>1. CASE UNCHANGED budgets
    BY <2>1 DEF budgets
  <2>2. CASE Visit
    BY <2>2 DEF Visit
  <2>3. CASE AccessExpires
    BY <2>3 DEF AccessExpires
  <2>4. ASSUME NEW r \in Requesters, ExchangeFails(r) \/ RefreshLost(r) \/ RequestLost(r)
        PROVE  expiries' \in 0..MaxExpiries /\ losses' \in 0..MaxLosses /\ visits' \in 0..MaxVisits
    <3>1. losses < MaxLosses /\ losses' = losses + 1
      BY <2>4 DEF ExchangeFails, RefreshLost, RequestLost
    <3>2. UNCHANGED <<expiries, visits>>
      BY <2>4 DEF ExchangeFails, RefreshLost, RequestLost
    <3> QED BY <3>1, <3>2
  <2> QED
    BY <2>1, <2>2, <2>3, <2>4 DEF SessionNext, SessionStepOf, Poll, ServerAnswers, Served, TryRefresh,
       ServerRefreshes, RefreshArrives, Unauthorized, SessionEnds
<1> QED BY <1>1, <1>2, <1>3, <1>4, <1>5, <1>6, <1>7 DEF SessionTypeOK

\* A session that lives and has lost nothing did so before the step.
LEMMA StillHealthy ==
  SessionTypeOK /\ SessionNext /\ alive' = TRUE /\ losses' = 0 =>
    alive = TRUE /\ losses = 0
<1> SUFFICES ASSUME SessionTypeOK, SessionNext, alive' = TRUE, losses' = 0
             PROVE  alive = TRUE /\ losses = 0
  OBVIOUS
<1>1. alive = TRUE
  <2>1. alive' = alive \/ alive' = FALSE
    BY DEF SessionNext, SessionStepOf, Poll, Visit, ServerAnswers, Served, TryRefresh, ServerRefreshes,
           RefreshArrives, ExchangeFails, RefreshLost, Unauthorized, RequestLost, AccessExpires, SessionEnds, cookies
  <2> QED BY <2>1
<1>2. losses = 0
  <2>1. losses' = losses \/ losses' = losses + 1
    BY DEF SessionNext, SessionStepOf, Poll, Visit, ServerAnswers, Served, TryRefresh, ServerRefreshes,
           RefreshArrives, ExchangeFails, RefreshLost, Unauthorized, RequestLost, AccessExpires, SessionEnds, budgets
  <2> QED BY <2>1, SessionAssumption DEF SessionTypeOK
<1> QED BY <1>1, <1>2

LEMMA HealthyStep ==
  SessionTypeOK /\ SessionNext /\ alive' = TRUE /\ losses' = 0 /\ Healthy => Healthy'
<1> SUFFICES ASSUME SessionTypeOK, SessionNext, alive' = TRUE, losses' = 0, Healthy, 
                    alive = TRUE, losses = 0
             PROVE  Healthy'
  BY StillHealthy
<1> USE DEF SessionTypeOK, Healthy
<1>1. CASE Poll
  BY <1>1 DEF Poll, cookies
<1>2. CASE Visit
  BY <1>2 DEF Visit, cookies
<1>3. CASE AccessExpires
  BY <1>3 DEF AccessExpires
<1>4. CASE SessionEnds
  BY <1>4 DEF SessionEnds
<1>5. ASSUME NEW r \in Requesters, ServerAnswers(r) PROVE Healthy'
  <2>1. \A s \in Requesters : request'[s] # "dead" /\ (request'[s] = "resent" => request[s] = "resent")
    BY <1>5 DEF ServerAnswers
  <2>2. \A s \in Requesters : request[s] = "waiting" => request'[s] = "waiting"
    BY <1>5 DEF ServerAnswers
  <2> QED BY <1>5, <2>1, <2>2 DEF ServerAnswers, cookies
<1>6. ASSUME NEW r \in Requesters, Served(r) PROVE Healthy'
  BY <1>6 DEF Served, cookies
<1>7. ASSUME NEW r \in Requesters, TryRefresh(r) PROVE Healthy'
  BY <1>7 DEF TryRefresh, RefreshToJoin, cookies
<1>8. ASSUME NEW r \in Requesters, ServerRefreshes(r) PROVE Healthy'
  <2>1. refresh[r].at = "sent" /\ refresh[r].token = currentToken
    BY <1>8 DEF ServerRefreshes
  <2>2. /\ currentToken' = currentToken + 1
        /\ refresh' = [refresh EXCEPT ![r] = [at |-> "granted", token |-> currentToken']]
    BY <1>8, <2>1 DEF ServerRefreshes
  <2>3. \A s \in Requesters : s # r => refresh'[s].at = "none"
    BY <2>1, <2>2
  <2>4. refresh'[r].at = "granted" /\ refresh'[r].token = currentToken'
    BY <2>2
  <2> QED BY <1>8, <2>1, <2>3, <2>4 DEF ServerRefreshes
<1>9. ASSUME NEW r \in Requesters, RefreshArrives(r) PROVE Healthy'
  BY <1>9 DEF RefreshArrives, Released, NoRefresh
<1>10. ASSUME NEW r \in Requesters, Unauthorized(r) PROVE Healthy'
  BY <1>10 DEF Unauthorized
<1>11. ASSUME NEW r \in Requesters, RefreshLost(r) PROVE Healthy'
  BY <1>11 DEF RefreshLost
<1>12. ASSUME NEW r \in Requesters, RequestLost(r) PROVE Healthy'
  BY <1>12 DEF RequestLost
<1>13. ASSUME NEW r \in Requesters, ExchangeFails(r) PROVE Healthy'
  BY <1>13 DEF ExchangeFails
<1> QED
  BY <1>1, <1>2, <1>3, <1>4, <1>5, <1>6, <1>7, <1>8, <1>9, <1>10, <1>11, <1>12, <1>13 DEF SessionNext, SessionStepOf

LEMMA SessionStepInv == SessionInv /\ SessionNext => SessionInv'
BY SessionStepType, StillHealthy, HealthyStep DEF SessionInv

-----------------------------------------------------------------------------
\* A part that stands still keeps its invariant.
LEMMA PartsAtRest ==
  /\ ComposerInv /\ UNCHANGED composerVars => ComposerInv'
  /\ ListInv /\ UNCHANGED listVars => ListInv'
  /\ ChoiceInv /\ UNCHANGED choiceVars => ChoiceInv'
  /\ LoadInv /\ UNCHANGED loadVars => LoadInv'
  /\ SessionInv /\ UNCHANGED sessionVars => SessionInv'
<1>1. ComposerInv /\ UNCHANGED composerVars => ComposerInv'
  BY DEF ComposerInv, ComposerTypeOK, PlaceholderPerUpload, Placeholders, Uploads, composerVars
<1>2. ListInv /\ UNCHANGED listVars => ListInv'
  BY DEF ListInv, ListTypeOK, listVars
<1>3. ChoiceInv /\ UNCHANGED choiceVars => ChoiceInv'
  BY DEF ChoiceInv, ChoiceTypeOK, ChoiceKept, Unlisted, choiceVars, projects
<1>4. LoadInv /\ UNCHANGED loadVars => LoadInv'
  BY DEF LoadInv, LoadTypeOK, loadVars
<1>5. SessionInv /\ UNCHANGED sessionVars => SessionInv'
  BY DEF SessionInv, SessionTypeOK, Healthy, sessionVars
<1> QED BY <1>1, <1>2, <1>3, <1>4, <1>5

IInv == part \in Parts /\ ComposerInv /\ ListInv /\ ChoiceInv /\ LoadInv /\ SessionInv

LEMMA InitIInv == Init => IInv
BY ComposerInitInv, ListInitInv, ChoiceInitInv, LoadInitInv, SessionInitInv DEF Init, IInv

LEMMA NextIInv == IInv /\ [Next]_vars => IInv'
<1> SUFFICES ASSUME IInv, [Next]_vars PROVE IInv'
  OBVIOUS
<1> USE DEF IInv
<1>1. CASE InComposer(ComposerNext)
  BY <1>1, ComposerStepInv, PartsAtRest DEF InComposer
<1>2. CASE InList(ListNext)
  BY <1>2, ListStepInv, PartsAtRest DEF InList
<1>3. CASE InChoice(ChoiceNext)
  BY <1>3, ChoiceStepInv, PartsAtRest DEF InChoice
<1>4. CASE InLoad(LoadNext)
  BY <1>4, LoadStepInv, PartsAtRest DEF InLoad
<1>5. CASE InSession(SessionNext)
  BY <1>5, SessionStepInv, PartsAtRest DEF InSession
<1>6. CASE UNCHANGED vars
  BY <1>6, PartsAtRest DEF vars
<1> QED BY <1>1, <1>2, <1>3, <1>4, <1>5, <1>6 DEF Next

-----------------------------------------------------------------------------
\* The variables of the five parts keep their types, and the chosen project is on the list.
THEOREM PartsTypeCorrect == Spec => []TypeOK
<1>1. IInv => TypeOK
  BY DEF IInv, TypeOK, ComposerInv, ListInv, ChoiceInv, LoadInv, SessionInv
<1> QED BY <1>1, InitIInv, NextIInv, PTL DEF Spec

\* However many images are pasted, a comment's draft never holds more placeholders of a name
\* than there are uploads that will replace them.
THEOREM PlaceholdersHaveUploads == Spec => []PlaceholderPerUpload
<1>1. IInv => PlaceholderPerUpload
  BY DEF IInv, ComposerInv
<1> QED BY <1>1, InitIInv, NextIInv, PTL DEF Spec

\* A board of any size whose pages fail asks for a failed page once, and once more for each
\* refetch of the list.
THEOREM BoardFailuresBounded == Spec => []FailuresBounded
<1>1. IInv => FailuresBounded
  BY DEF IInv, LoadInv, FailuresBounded
<1> QED BY <1>1, InitIInv, NextIInv, PTL DEF Spec

\* While the session lives, nothing is lost and the identity provider answers, a tab stays signed
\* in, whatever the order of refusals, refreshes and expiries.
THEOREM StaysSignedIn == Spec => []KeptSignedIn
<1>1. IInv => KeptSignedIn
  BY DEF IInv, SessionInv, SessionTypeOK, Healthy, KeptSignedIn
<1> QED BY <1>1, InitIInv, NextIInv, PTL DEF Spec

\* With any number of projects, whatever others do to them and whatever lists arrive, the user
\* stays on the project last switched to, created or renamed, as long as no list without it
\* could be answered since then or since the page loaded, nor was on its way.
THEOREM ChoiceIsKept == Spec => []ChoiceKept
<1>1. IInv => ChoiceKept
  BY DEF IInv, ChoiceInv
<1> QED BY <1>1, InitIInv, NextIInv, PTL DEF Spec

\* A filter the user set is not replaced by a default view that comes or changes later.
THEOREM TypedFilterKept == Spec => TypedKept
<1>1. IInv /\ [Next]_vars => [TypedStays]_listVars
  <2> SUFFICES ASSUME IInv, [Next]_vars, ~UNCHANGED listVars PROVE TypedStays
    OBVIOUS
  <2>1. InList(ListNext)
    BY DEF Next, InComposer, InChoice, InLoad, InSession, vars
  <2> QED BY <2>1, ListStepKeeps DEF InList, IInv
<1>2. [][TypedStays]_listVars => TypedKept
  BY PTL DEF TypedKept, TypedStays
<1> QED BY <1>1, <1>2, InitIInv, NextIInv, PTL DEF Spec
=============================================================================

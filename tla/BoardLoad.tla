----------------------------- MODULE BoardLoad -----------------------------
(***************************************************************************)
(* Loading the whole board page by page (Board.tsx): an effect asks for the *)
(* next page whenever the list says there is one, none is under way and the *)
(* last did not fail.  A refetch of the list asks for all its pages again,  *)
(* and clears what the list says about a failure.                           *)
(***************************************************************************)
EXTENDS Naturals

CONSTANTS
  BoardPages,      \* the pages the board needs, its ceiling applied
  MaxRefreshes     \* bound: refetches of the list, by mutations and reconnections

ASSUME BoardLoadAssumption == BoardPages \in Nat \ {0} /\ MaxRefreshes \in Nat

VARIABLES
  pagesLoaded,
  pageRequest,     \* "idle", "next" (a further page) or "refetch" (all those loaded)
  nextFailed,      \* isFetchNextPageError
  refreshes,       \* refetches so far
  failures,        \* requests for a further page that failed
  down             \* the server fails every request from now on, or none

loadVars == <<pagesLoaded, pageRequest, nextFailed, refreshes, failures, down>>

LoadTypeOK ==
  /\ pagesLoaded \in 0..BoardPages
  /\ pageRequest \in {"idle", "next", "refetch"}
  /\ refreshes \in 0..MaxRefreshes
  /\ nextFailed \in BOOLEAN /\ down \in BOOLEAN

\* Fault: a failed page leaves the effect free to ask again.
WantsNext_Relentless(loaded, request, failed) == 0 < loaded /\ loaded < BoardPages /\ request # "next"

\* Fault: the last page is asked for once more.
WantsNext_PastEnd(loaded, request, failed) ==
  0 < loaded /\ loaded <= BoardPages /\ request # "next" /\ ~failed

\* Fault: the effect runs on the first page only.
WantsNext_Once(loaded, request, failed) == loaded = 1 /\ loaded < BoardPages /\ request # "next" /\ ~failed

\* The effect's condition.
WantsNext(loaded, request, failed) ==
  0 < loaded /\ loaded < BoardPages /\ request # "next" /\ ~failed

\* The state after a change of the list, the effect included: the next page's request takes
\* the place of a refetch under way.
Loading(loaded, request, failed) ==
  /\ pagesLoaded' = loaded
  /\ nextFailed' = failed
  /\ pageRequest' = IF WantsNext(loaded, request, failed) THEN "next" ELSE request

LoadInit ==
  /\ pagesLoaded = 0 /\ pageRequest = "refetch" /\ nextFailed = FALSE
  /\ refreshes = 0 /\ failures = 0 /\ down = FALSE

PageArrives ==
  /\ pageRequest # "idle" /\ ~down
  /\ Loading(IF pageRequest = "next" \/ pagesLoaded = 0 THEN pagesLoaded + 1 ELSE pagesLoaded, "idle", FALSE)
  /\ UNCHANGED <<refreshes, failures, down>>

\* A request and its one retry fail.
PageFails ==
  /\ pageRequest # "idle" /\ down
  /\ failures < MaxRefreshes + 2    \* never binds while FailuresBounded holds
  /\ failures' = IF pageRequest = "next" THEN failures + 1 ELSE failures
  /\ Loading(pagesLoaded, "idle", pageRequest = "next")
  /\ UNCHANGED <<refreshes, down>>

\* Dropped cards, changes elsewhere and reconnections fetch the list again.
RefreshBoard ==
  /\ refreshes < MaxRefreshes
  /\ refreshes' = refreshes + 1
  /\ Loading(pagesLoaded, IF pagesLoaded = 0 /\ pageRequest # "idle" THEN pageRequest ELSE "refetch", FALSE)
  /\ UNCHANGED <<failures, down>>

ServerTurns ==
  /\ down' = ~down
  /\ UNCHANGED <<pagesLoaded, pageRequest, nextFailed, refreshes, failures>>

LoadNext == PageArrives \/ PageFails \/ RefreshBoard \/ ServerTurns

-----------------------------------------------------------------------------
\* The comment of Board.tsx:56-62: a failed page must not turn "one broken page into an
\* unbounded request loop".  A page that fails is asked for once by the loop and once more for
\* each refetch of the list.
FailuresBounded == failures <= refreshes + 1

\* Nothing is under way, and all that can be shown is.
LoadedWhole == pageRequest = "idle" /\ (failures = 0 => pagesLoaded \in {0, BoardPages})
=============================================================================

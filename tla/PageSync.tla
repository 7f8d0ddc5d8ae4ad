------------------------------ MODULE PageSync ------------------------------
(***************************************************************************)
(* What a page of the web client shows against what the server holds.       *)
(*                                                                         *)
(* Every page reads through cached queries (TanStack Query) and writes      *)
(* through mutations that touch no cached copy: a mutation's onSuccess      *)
(* names the queries to refresh, and that list is all that keeps the page   *)
(* true.  A query is known here by whether its copy contains every write    *)
(* the server has applied ("current") or not ("behind"); an answer on its   *)
(* way is the same, as of now.  No step relates the copies of two queries,  *)
(* so the page is watched through a few of its queries at a time; the rest   *)
(* count as answered.  The pages themselves are in IssuePage, PlanningPages *)
(* and SettingsPages.                                                       *)
(***************************************************************************)
EXTENDS Naturals, Sequences, FiniteSets

CONSTANTS
  MaxWatched,    \* bound: queries of the page that are watched
  MaxClicks,     \* bound: mutations that concern them, sent from the page
  MaxSurprises   \* bound: reconnections, failed refetches, lost answers and other people's writes

ASSUME PageSyncAssumption == MaxWatched \in Nat /\ MaxClicks \in Nat /\ MaxSurprises \in Nat

VARIABLES
  screen,     \* the page on show, or "left"
  data,       \* each query watched: "none" before its first answer
  fetch,      \* its request: "idle", "asked", or the answer under way
  sent,       \* the mutations, in the order they were sent
  unasked,    \* <<mutation, query>>: written by a mutation that then did not refresh it
  excused,    \* the queries whose refresh never came, and those others wrote
  surprises   \* surprises so far

pageVars == <<screen, data, fetch, sent, unasked, excused, surprises>>

Queries == DOMAIN data
Clicks == 1..Len(sent)

\* Pages and queries are named in the modules that EXTEND this one.
PageSyncTypeOK ==
  /\ data \in [Queries -> {"none", "current", "behind"}]
  /\ fetch \in [Queries -> {"idle", "asked", "current", "behind"}]
  /\ Len(sent) <= MaxClicks
  /\ \A i \in Clicks :
       /\ sent[i].at \in {"sent", "applied", "answered"}
       /\ sent[i].writes \cup sent[i].refreshes \cup sent[i].awaits \subseteq Queries
       /\ sent[i].overtaken \subseteq sent[i].sets
       /\ sent[i].awaits # {} => sent[i].at = "answered"
  /\ excused \subseteq Queries
  /\ surprises \in 0..MaxSurprises

\* A page opens: a query is still loading, or cached from an earlier visit.
Open(keysOf) ==
  /\ screen \in DOMAIN keysOf
  /\ \E watched \in SUBSET keysOf[screen], late \in SUBSET keysOf[screen] :
       /\ watched # {} /\ Cardinality(watched) <= MaxWatched
       /\ late \subseteq watched
       /\ data = [k \in watched |-> IF k \in late THEN "none" ELSE "current"]
       /\ fetch = [k \in watched |-> IF k \in late THEN "asked" ELSE "idle"]
  /\ sent = <<>>
  /\ unasked = {}
  /\ excused = {}
  /\ surprises = 0

-----------------------------------------------------------------------------
\* mutation.isPending: from the click until the answer, and until the refreshes have
\* settled as well when onSuccess returned their promise.
Pending(m) == \E i \in Clicks : sent[i].name = m /\ (sent[i].at # "answered" \/ sent[i].awaits # {})

\* What the query k answers is on show.
Loaded(k) == k \in Queries => data[k] # "none"

\* mutate(): the request leaves.  onSuccess will refresh the queries "refreshes", replace
\* those of "sets" by what the server answered, and wait for the refreshes if "waits".
Mutate(m, writes, refreshes, sets, waits, leaves) ==
  /\ Len(sent) < MaxClicks
  /\ leaves \/ (writes \cup refreshes) \cap Queries # {}
  /\ sent' = Append(sent,
       [name |-> m, at |-> "sent", writes |-> writes \cap Queries,
        refreshes |-> refreshes \cap Queries, sets |-> sets \cap Queries, waits |-> waits,
        leaves |-> leaves, awaits |-> {}, overtaken |-> {}])
  /\ UNCHANGED <<screen, data, fetch, unasked, excused, surprises>>

\* The three kinds of onSuccess: a block that starts the refreshes, an expression that
\* returns their promise, and a navigation away.
Send(m, writes, refreshes) == Mutate(m, writes, refreshes, {}, FALSE, FALSE)
SendAndWait(m, writes, refreshes) == Mutate(m, writes, refreshes, {}, TRUE, FALSE)
SendAndLeave(m, writes) == Mutate(m, writes, {}, {}, FALSE, TRUE)

\* What a write of the queries ws does to copies and to answers under way.
Outdated(f, ws) == [k \in Queries |-> IF k \in ws /\ f[k] = "current" THEN "behind" ELSE f[k]]

\* And to the answers of the mutations applied before it, which their onSuccess may yet put
\* in the cache.
Overtaken(ws) ==
  [i \in Clicks |-> IF sent[i].at = "applied" THEN [sent[i] EXCEPT !.overtaken = @ \cup (ws \cap sent[i].sets)]
                    ELSE sent[i]]

\* The server applies a mutation.
Apply(i) ==
  /\ sent[i].at = "sent"
  /\ sent' = [Overtaken(sent[i].writes) EXCEPT ![i].at = "applied"]
  /\ data' = Outdated(data, sent[i].writes)
  /\ fetch' = Outdated(fetch, sent[i].writes)
  /\ UNCHANGED <<screen, unasked, excused, surprises>>

\* It refuses it (validation, permission, conflict): onError refreshes nothing.
Refuse(i) ==
  /\ sent[i].at = "sent"
  /\ sent' = [sent EXCEPT ![i].at = "answered"]
  /\ UNCHANGED <<screen, data, fetch, unasked, excused, surprises>>

\* The connection breaks before the answer is read: an error like any other, though the
\* write may have been applied.
LoseAnswer(i) ==
  /\ sent[i].at = "applied"
  /\ surprises < MaxSurprises
  /\ surprises' = surprises + 1
  /\ sent' = [sent EXCEPT ![i].at = "answered"]
  /\ excused' = excused \cup sent[i].writes
  /\ UNCHANGED <<screen, data, fetch, unasked>>

\* The queries whose refresh joins the request under way: cancelRefetch only cancels
\* when there is data to fall back on.
Joins(k) == fetch[k] # "idle" /\ data[k] = "none"

\* Fault: a refetch under way is taken for the refresh, though it may have been answered
\* before the write.
Invalidated_NoCancel(k) == IF fetch[k] = "idle" THEN "asked" ELSE fetch[k]

\* Fault: the query is only marked stale, for the next visit.
Invalidated_NotFetched(k) == "stale"

\* invalidateQueries on a query of the page: its request is sent again.
Invalidated(k) == IF Joins(k) THEN fetch[k] ELSE "asked"

\* Fault: whoever awaited the first request of two waits for ever.
StopAwaiting_Never(ks, s) == s

\* A request restarted is, for whoever awaited the first one, over.
StopAwaiting(ks, s) == [j \in DOMAIN s |-> [s[j] EXCEPT !.awaits = @ \ ks]]

\* The answer arrives and onSuccess runs.  An answer put in the cache by hand
\* (setQueryData) leaves a request under way alone, and may itself be older than the copy.
Reply(i) ==
  /\ sent[i].at = "applied"
  /\ ~sent[i].leaves
  /\ LET m == sent[i]
         restarted == {k \in m.refreshes : ~Joins(k)}
     IN
     /\ fetch' = [k \in Queries |-> IF k \in m.refreshes THEN Invalidated(k) ELSE fetch[k]]
     /\ data' = [k \in Queries |-> IF k \in m.overtaken THEN "behind"
                                ELSE IF k \in m.sets THEN "current" ELSE data[k]]
     /\ sent' = [StopAwaiting(restarted, sent) EXCEPT
                   ![i].at = "answered", ![i].awaits = IF m.waits THEN m.refreshes ELSE {}]
     /\ unasked' = unasked \cup {<<m.name, k>> : k \in
                     {k \in m.writes : /\ k \notin m.refreshes
                                       /\ k \in m.sets \ m.overtaken => fetch[k] = "behind"}}
     /\ excused' = excused \cup {k \in m.refreshes : Joins(k) /\ fetch[k] = "behind"}
  /\ UNCHANGED <<screen, surprises>>

\* The same, for a mutation whose onSuccess navigates: this page is gone.  (The sidebar's open
\* count stays, and is not refreshed by the mutations that delete or move an issue.)
ReplyAndLeave(i) ==
  /\ sent[i].at = "applied"
  /\ sent[i].leaves
  /\ screen' = "left"
  /\ data' = [k \in {} |-> "none"]
  /\ fetch' = [k \in {} |-> "idle"]
  /\ sent' = <<>>
  /\ unasked' = {}
  /\ excused' = {}
  /\ UNCHANGED surprises

\* The server answers a query: with everything applied so far.
AnswerQuery(k) ==
  /\ fetch[k] = "asked"
  /\ fetch' = [fetch EXCEPT ![k] = "current"]
  /\ UNCHANGED <<screen, data, sent, unasked, excused, surprises>>

\* The answer is put in the cache; if it holds every write, the past no longer matters.
Arrive(k) ==
  /\ fetch[k] \in {"current", "behind"}
  /\ data' = [data EXCEPT ![k] = fetch[k]]
  /\ fetch' = [fetch EXCEPT ![k] = "idle"]
  /\ sent' = StopAwaiting({k}, sent)
  /\ unasked' = IF fetch[k] = "current" THEN {u \in unasked : u[2] # k} ELSE unasked
  /\ excused' = IF fetch[k] = "current" THEN excused \ {k} ELSE excused
  /\ UNCHANGED <<screen, surprises>>

\* The request and its one retry fail: the old copy stays on show.
FetchFails(k) ==
  /\ fetch[k] # "idle"
  /\ surprises < MaxSurprises
  /\ surprises' = surprises + 1
  /\ fetch' = [fetch EXCEPT ![k] = "idle"]
  /\ sent' = StopAwaiting({k}, sent)
  /\ excused' = excused \cup {k}
  /\ UNCHANGED <<screen, data, unasked>>

\* The browser comes back online: a stale query of the page is fetched again.
Reconnect(k) ==
  /\ fetch[k] = "idle"
  /\ surprises < MaxSurprises
  /\ surprises' = surprises + 1
  /\ fetch' = [fetch EXCEPT ![k] = "asked"]
  /\ UNCHANGED <<screen, data, sent, unasked, excused>>

\* Somebody else's write: nothing tells this page.
OthersWrite(k) ==
  /\ surprises < MaxSurprises
  /\ surprises' = surprises + 1
  /\ data' = Outdated(data, {k})
  /\ fetch' = Outdated(fetch, {k})
  /\ sent' = Overtaken({k})
  /\ excused' = excused \cup {k}
  /\ UNCHANGED <<screen, unasked>>

Network(i) == Apply(i) \/ Refuse(i) \/ Reply(i) \/ ReplyAndLeave(i)

Sync ==
  \/ \E i \in Clicks : Network(i) \/ LoseAnswer(i)
  \/ \E k \in Queries :
       AnswerQuery(k) \/ Arrive(k) \/ FetchFails(k) \/ Reconnect(k) \/ OthersWrite(k)

\* Requests are answered and answers are delivered.
SyncFairness ==
  /\ WF_pageVars(\E i \in Clicks : Network(i))
  /\ WF_pageVars(\E k \in Queries : AnswerQuery(k))
  /\ WF_pageVars(\E k \in Queries : Arrive(k))
=============================================================================

------------------------------ MODULE Session ------------------------------
(***************************************************************************)
(* How a tab stays signed in (lib/api.ts, components/Layout.tsx, with the   *)
(* server's /auth/refresh).  The access cookie expires every 15 minutes; a  *)
(* request refused for that exchanges the refresh cookie, which the         *)
(* identity provider rotates, and is sent again.  Requests share one        *)
(* refresh.  The badge polls for ever; only a refusal stops it.             *)
(***************************************************************************)
EXTENDS Naturals

CONSTANTS
  MaxExpiries,    \* bound: times the access cookie expires while the session lives
  MaxLosses,      \* bound: requests or answers lost on the network, or to the identity provider
  MaxVisits       \* bound: things the user does before leaving the tab alone

ASSUME SessionAssumption == {MaxExpiries, MaxLosses, MaxVisits} \subseteq Nat

VARIABLES
  shell,          \* "app", "signin" or "error"
  access,         \* the access cookie is there and valid
  refreshCookie,  \* the refresh token in the browser, 0 for none
  currentToken,   \* the one the identity provider will accept
  alive,          \* the session exists at the identity provider
  request,        \* the badge's request, that for "me", and another of the page
  joined,         \* whose refresh each waits for
  refresh,        \* the refresh each has started
  polling,        \* the badge's interval is set
  expiries, losses, visits

sessionVars == <<shell, access, refreshCookie, currentToken, alive, request, joined, refresh,
                 polling, expiries, losses, visits>>

Requesters == {"badge", "me", "page"}

\* A request: under way, refused, waiting for a refresh, under way again, refused again;
\* or answered.
RequestStates == {"idle", "sent", "denied", "waiting", "resent", "dead", "served"}

NoRefresh == [at |-> "none", token |-> 0]

SessionTypeOK ==
  /\ shell \in {"app", "signin", "error"}
  /\ {access, alive, polling} \subseteq BOOLEAN
  /\ refreshCookie \in Nat /\ currentToken \in Nat
  /\ request \in [Requesters -> RequestStates]
  /\ joined \in [Requesters -> Requesters]
  /\ refresh \in [Requesters -> [at : {"none", "sent", "granted", "failed"}, token : Nat]]
  /\ expiries \in 0..MaxExpiries /\ losses \in 0..MaxLosses /\ visits \in 0..MaxVisits

SessionInit ==
  /\ shell = "app" /\ access = TRUE /\ refreshCookie = 1 /\ currentToken = 1 /\ alive = TRUE
  /\ request = [r \in Requesters |-> "idle"]
  /\ joined = [r \in Requesters |-> r]
  /\ refresh = [r \in Requesters |-> NoRefresh]
  /\ polling = TRUE
  /\ expiries = 0 /\ losses = 0 /\ visits = 0

cookies == <<access, refreshCookie, currentToken, alive>>
budgets == <<expiries, losses, visits>>

-----------------------------------------------------------------------------
\* The badge's interval fires.
Poll ==
  /\ shell = "app" /\ polling /\ request["badge"] = "idle"
  /\ request' = [request EXCEPT !["badge"] = "sent"]
  /\ UNCHANGED <<shell, cookies, joined, refresh, polling, budgets>>

\* Any other request of the page; opening an issue refreshes the badge as well.
Visit ==
  /\ shell = "app" /\ request["page"] = "idle"
  /\ visits < MaxVisits /\ visits' = visits + 1
  /\ request' = [r \in Requesters |-> IF r = "page" \/ (r = "badge" /\ request[r] = "idle") THEN "sent"
                                      ELSE request[r]]
  /\ UNCHANGED <<shell, cookies, joined, refresh, polling, expiries, losses>>

ServerAnswers(r) ==
  /\ request[r] \in {"sent", "resent"}
  /\ request' = [request EXCEPT ![r] = IF access THEN "served"
                                       ELSE IF request[r] = "sent" THEN "denied" ELSE "dead"]
  /\ UNCHANGED <<shell, cookies, joined, refresh, polling, budgets>>

\* An answer: the badge polls on.
Served(r) ==
  /\ request[r] = "served"
  /\ request' = [request EXCEPT ![r] = "idle"]
  /\ polling' = (polling \/ r = "badge")
  /\ UNCHANGED <<shell, cookies, joined, refresh, budgets>>

\* Fault: every refused request starts its own refresh.
RefreshToJoin_Own(r) == r

\* refreshInFlight: the refresh under way, or one's own.
RefreshToJoin(r) ==
  IF \E s \in Requesters : refresh[s].at # "none" THEN CHOOSE s \in Requesters : refresh[s].at # "none" ELSE r

\* tryRefresh: the first 401.
TryRefresh(r) ==
  LET s == RefreshToJoin(r) IN
  /\ request[r] = "denied"
  /\ request' = [request EXCEPT ![r] = "waiting"]
  /\ joined' = [joined EXCEPT ![r] = s]
  /\ refresh' = IF s = r THEN [refresh EXCEPT ![r] = [at |-> "sent", token |-> refreshCookie]] ELSE refresh
  /\ UNCHANGED <<shell, cookies, polling, budgets>>

\* /auth/refresh: the token is exchanged, which spends it.
ServerRefreshes(r) ==
  /\ refresh[r].at = "sent"
  /\ IF alive /\ refresh[r].token = currentToken
     THEN /\ currentToken' = currentToken + 1
          /\ refresh' = [refresh EXCEPT ![r] = [at |-> "granted", token |-> currentToken']]
     ELSE /\ refresh' = [refresh EXCEPT ![r].at = "failed"]
          /\ UNCHANGED currentToken
  /\ UNCHANGED <<shell, access, refreshCookie, alive, request, joined, polling, budgets>>

\* Any other error of the exchange (the identity provider is down, or its answer is lost after
\* it has spent the token) is taken for a session that ended.
ExchangeFails(r) ==
  /\ refresh[r].at = "sent"
  /\ losses < MaxLosses /\ losses' = losses + 1
  /\ currentToken' \in {currentToken, currentToken + 1}
  /\ refresh' = [refresh EXCEPT ![r].at = "failed"]
  /\ UNCHANGED <<shell, access, refreshCookie, alive, request, joined, polling, expiries, visits>>

\* Fault: a refresh that failed releases only who started it.
Released_Starter(r, ok) ==
  [s \in Requesters |-> IF request[s] = "waiting" /\ joined[s] = r /\ (ok \/ s = r)
                        THEN IF ok THEN "resent" ELSE "dead" ELSE request[s]]

\* Whoever waited for the refresh goes on: sends again, or reports the 401.
Released(r, ok) ==
  [s \in Requesters |-> IF request[s] = "waiting" /\ joined[s] = r
                        THEN IF ok THEN "resent" ELSE "dead" ELSE request[s]]

\* Its answer sets the cookies, or clears them.
RefreshArrives(r) ==
  /\ refresh[r].at \in {"granted", "failed"}
  /\ access' = (refresh[r].at = "granted")
  /\ refreshCookie' = IF refresh[r].at = "granted" THEN refresh[r].token ELSE 0
  /\ request' = Released(r, refresh[r].at = "granted")
  /\ refresh' = [refresh EXCEPT ![r] = NoRefresh]
  /\ UNCHANGED <<shell, currentToken, alive, joined, polling, budgets>>

\* The refresh, or its answer, is lost: "not refreshed", with the cookies as they are.
RefreshLost(r) ==
  /\ refresh[r].at # "none"
  /\ losses < MaxLosses /\ losses' = losses + 1
  /\ request' = Released(r, FALSE)
  /\ refresh' = [refresh EXCEPT ![r] = NoRefresh]
  /\ UNCHANGED <<shell, cookies, joined, polling, expiries, visits>>

\* Fault: the badge polls on after a refusal, and nobody asks who is signed in.
Refused_PollOn(r) == FALSE

\* A 401 that survived the refresh is the badge's.
Refused(r) == r = "badge"

\* The badge stops and "me" is asked again; a refusal of "me" shows the sign-in screen.
Unauthorized(r) ==
  /\ request[r] = "dead"
  /\ polling' = (polling /\ ~Refused(r))
  /\ shell' = IF r = "me" /\ shell = "app" THEN "signin" ELSE shell
  /\ request' = [s \in Requesters |-> IF s = r THEN "idle"
                                      ELSE IF s = "me" /\ Refused(r) THEN "sent" ELSE request[s]]
  /\ UNCHANGED <<cookies, joined, refresh, budgets>>

\* A request or its answer is lost: the badge polls on, "me" shows an error.
RequestLost(r) ==
  /\ request[r] \in {"sent", "resent", "served"}
  /\ losses < MaxLosses /\ losses' = losses + 1
  /\ request' = [request EXCEPT ![r] = "idle"]
  /\ shell' = IF r = "me" /\ shell = "app" THEN "error" ELSE shell
  /\ UNCHANGED <<cookies, joined, refresh, polling, expiries, visits>>

\* 15 minutes pass: never between a refresh and the request it was for.
AccessExpires ==
  /\ access
  /\ \A r \in Requesters : request[r] # "resent"
  /\ expiries < MaxExpiries \/ ~alive
  /\ expiries' = IF alive THEN expiries + 1 ELSE expiries
  /\ access' = FALSE
  /\ UNCHANGED <<shell, refreshCookie, currentToken, alive, request, joined, refresh, polling, losses, visits>>

\* Revoked, expired or signed out elsewhere.
SessionEnds ==
  /\ alive
  /\ alive' = FALSE
  /\ UNCHANGED <<shell, access, refreshCookie, currentToken, request, joined, refresh, polling, budgets>>

SessionStepOf(r) ==
  ServerAnswers(r) \/ Served(r) \/ TryRefresh(r) \/ ServerRefreshes(r) \/ RefreshArrives(r) \/ Unauthorized(r)

SessionNext ==
  \/ Poll \/ Visit \/ AccessExpires \/ SessionEnds
  \/ \E r \in Requesters : SessionStepOf(r) \/ ExchangeFails(r) \/ RefreshLost(r) \/ RequestLost(r)

-----------------------------------------------------------------------------
\* "so the user stays signed in without re-authenticating" (api.ts:644): as long as the session
\* lives, nothing is lost and the identity provider answers, no order of refusals and refreshes
\* costs the tab its session.
KeptSignedIn == alive /\ losses = 0 => shell = "app" /\ polling

\* "stop asking, and re-check me so the app shows the sign-in screen" (Layout.tsx:155-156):
\* when the session ends, an abandoned tab comes to show it, if nothing is lost.
DeadTabGoesQuiet == ~alive /\ losses = 0 ~> shell # "app" \/ losses > 0

\* Nobody waits for ever for a refresh.
RequestsEnd == \A r \in Requesters : []<>(request[r] \notin {"waiting", "denied", "resent"})
=============================================================================

------------------------------ MODULE IssueEdit ------------------------------
(***************************************************************************)
(* Three ways one page edits one issue: the edit form (EditIssueForm.tsx),  *)
(* the rail's selects and the description's checklist (IssueDetail.tsx).    *)
(* All of them start from the copy on show and send fields whole, while     *)
(* that copy is refetched under them and others write.                      *)
(***************************************************************************)
EXTENDS Naturals, Sequences, FiniteSets

CONSTANTS
  Texts,          \* values of the priority
  Boxes,          \* the boxes of the description's checklist
  MaxRequests,    \* bound: changes sent
  MaxMishaps      \* bound: kinds of mishap, each at most once

ASSUME IssueEditAssumption == Texts # {} /\ MaxRequests \in Nat /\ MaxMishaps \in Nat

VARIABLES
  issueOnServer,
  issueShown,     \* the copy on show
  issueFetch,     \* its refetch, and once answered the issue under way
  form,           \* the edit form: its values, the fields typed in, the fields whose copy
                  \* was replaced since it opened, and its last save
  requests,       \* the changes, in the order they were sent
  mishaps         \* what happened besides: somebody else's edit, a reconnection, a refetch that
                  \* failed, an answer that was lost

editVars == <<issueOnServer, issueShown, issueFetch, form, requests, mishaps>>

\* The priority stands for the fields the rail and the form both set; the description is known
\* by the boxes ticked in it.
Fields == {"priority", "done"}
Issue == [priority : Texts, done : SUBSET Boxes]
Requests == 1..Len(requests)
Mishaps == {"edit", "reconnection", "failure", "loss"}

EditTypeOK ==
  /\ issueOnServer \in Issue
  /\ issueShown \in Issue
  /\ issueFetch \in [at : {"idle", "asked", "answered"}, issue : Issue]
  /\ form \in [open : BOOLEAN, values : Issue, typed : SUBSET Fields, replaced : SUBSET Fields,
                save : 0..MaxRequests]
  /\ \A i \in Requests : DOMAIN requests[i].fields \subseteq Fields
  /\ mishaps \subseteq Mishaps /\ Cardinality(mishaps) <= MaxMishaps

\* A form just opened on an issue.
Opened(issue) == [open |-> TRUE, values |-> issue, typed |-> {}, replaced |-> {}, save |-> 0]

NewIssue == [priority |-> CHOOSE t \in Texts : TRUE, done |-> {}]
ClosedForm == [Opened(NewIssue) EXCEPT !.open = FALSE]

NoFetch == [at |-> "idle", issue |-> NewIssue]

EditInit ==
  /\ issueOnServer = NewIssue
  /\ issueShown = issueOnServer
  /\ issueFetch = NoFetch
  /\ form = ClosedForm
  /\ requests = <<>>
  /\ mishaps = {}

-----------------------------------------------------------------------------
Mishap(m) ==
  /\ m \notin mishaps /\ Cardinality(mishaps) < MaxMishaps
  /\ mishaps' = mishaps \cup {m}

\* Everything asked for has been answered or given up: the page looks settled.
LooksSettled == issueFetch.at = "idle" /\ \A i \in Requests : requests[i].kind = "over"

\* A change leaves the page: some fields, with the box it ticks or the fields it is about.
SendChange(kind, fields, about) ==
  /\ Len(requests) < MaxRequests
  /\ requests' = Append(requests,
       [kind |-> kind, fields |-> fields, about |-> about, at |-> "sent",
        replaced |-> form.replaced, settled |-> kind = "tick" /\ LooksSettled])

\* The form opens on the copy on show.
OpenForm ==
  /\ ~form.open
  /\ form' = Opened(issueShown)
  /\ UNCHANGED <<issueOnServer, issueShown, issueFetch, requests, mishaps>>

TypeInForm(f, v) ==
  /\ form.open /\ v # form.values[f]
  /\ form' = [form EXCEPT !.values[f] = v, !.typed = @ \cup {f}]
  /\ UNCHANGED <<issueOnServer, issueShown, issueFetch, requests, mishaps>>

CancelForm ==
  /\ form.open
  /\ form' = ClosedForm
  /\ UNCHANGED <<issueOnServer, issueShown, issueFetch, requests, mishaps>>

\* The Save button of this form waits for an answer.
Saving == form.save # 0 /\ requests[form.save].kind = "save"

\* Fault: the whole form is sent.
ChangedFields_All(values) == Fields

\* The fields whose value in the form is not that of the copy on show now.
ChangedFields(values) == {f \in Fields : values[f] # issueShown[f]}

\* Save changes: the difference between the form and the copy on show at this moment.
SaveForm ==
  /\ form.open /\ ~Saving
  /\ SendChange("save", [f \in ChangedFields(form.values) |-> form.values[f]], form.typed)
  /\ form' = [form EXCEPT !.save = Len(requests')]
  /\ UNCHANGED <<issueOnServer, issueShown, issueFetch, mishaps>>

\* The rail's priority.
PatchPriority(v) ==
  /\ ~form.open /\ v # issueShown.priority
  /\ SendChange("rail", [f \in {"priority"} |-> v], {"priority"})
  /\ UNCHANGED <<issueOnServer, issueShown, issueFetch, form, mishaps>>

\* A box of the checklist: the copy's description with that box set to what the browser now
\* shows it as, which is its own state and not the copy's.
ToggleTask(b, checked) ==
  /\ ~form.open
  /\ SendChange("tick",
       [f \in {"done"} |-> IF checked THEN issueShown.done \cup {b} ELSE issueShown.done \ {b}], {b})
  /\ UNCHANGED <<issueOnServer, issueShown, issueFetch, form, mishaps>>

-----------------------------------------------------------------------------
\* A change the server is done with: all that counts is what its answer will do.
Over(i, at) ==
  [kind |-> IF at = "applied" THEN requests[i].kind ELSE "over", fields |-> <<>>, about |-> {},
   at |-> at, replaced |-> {}, settled |-> FALSE]

\* The server writes the fields it was sent, or refuses them.
ServerPatches(i) ==
  /\ requests[i].at = "sent"
  /\ issueOnServer' = [f \in Fields |-> IF f \in DOMAIN requests[i].fields THEN requests[i].fields[f]
                                        ELSE issueOnServer[f]]
  /\ requests' = [requests EXCEPT ![i] = Over(i, "applied")]
  /\ UNCHANGED <<issueShown, issueFetch, form, mishaps>>

ServerRefuses(i) ==
  /\ requests[i].at = "sent"
  /\ requests' = [requests EXCEPT ![i] = Over(i, "answered")]
  /\ UNCHANGED <<issueOnServer, issueShown, issueFetch, form, mishaps>>

\* Fault: a refetch already under way is left to serve.
Refetched_Joined == IF issueFetch.at = "idle" THEN [issueFetch EXCEPT !.at = "asked"] ELSE issueFetch

\* invalidateQueries: the refetch starts again.
Refetched == [NoFetch EXCEPT !.at = "asked"]

\* The answer: the copy is refetched; a save closes the form that is open.
ChangeAnswered(i) ==
  /\ requests[i].at = "applied"
  /\ requests' = [requests EXCEPT ![i] = Over(i, "answered")]
  /\ issueFetch' = Refetched
  /\ form' = IF requests[i].kind = "save" THEN ClosedForm ELSE form
  /\ UNCHANGED <<issueOnServer, issueShown, mishaps>>

\* The answer to a change the server made is lost: the page takes it for a failure, refetches
\* nothing, and leaves the form open.
AnswerLost(i) ==
  /\ requests[i].at = "applied" /\ Mishap("loss")
  /\ requests' = [requests EXCEPT ![i] = Over(i, "answered")]
  /\ UNCHANGED <<issueOnServer, issueShown, issueFetch, form>>

AnswerRefetch ==
  /\ issueFetch.at = "asked"
  /\ issueFetch' = [at |-> "answered", issue |-> issueOnServer]
  /\ UNCHANGED <<issueOnServer, issueShown, form, requests, mishaps>>

\* The page shows the new copy; the form keeps what it holds.
RefetchArrives ==
  /\ issueFetch.at = "answered"
  /\ issueShown' = issueFetch.issue
  /\ issueFetch' = NoFetch
  /\ form' = [form EXCEPT !.replaced = @ \cup {f \in Fields : form.open /\ issueShown'[f] # issueShown[f]}]
  /\ UNCHANGED <<issueOnServer, requests, mishaps>>

RefetchFails ==
  /\ issueFetch.at # "idle" /\ Mishap("failure")
  /\ issueFetch' = NoFetch
  /\ UNCHANGED <<issueOnServer, issueShown, form, requests>>

\* The browser is back online.
RefetchOnReconnect ==
  /\ issueFetch.at = "idle" /\ Mishap("reconnection")
  /\ issueFetch' = Refetched
  /\ UNCHANGED <<issueOnServer, issueShown, form, requests>>

StrangerEdits(f, v) ==
  /\ Mishap("edit")
  /\ issueOnServer' = [issueOnServer EXCEPT ![f] = v]
  /\ UNCHANGED <<issueShown, issueFetch, form, requests>>

Values(f) == IF f = "done" THEN SUBSET Boxes ELSE Texts

EditNext ==
  \/ OpenForm \/ CancelForm \/ SaveForm
  \/ \E f \in Fields : \E v \in Values(f) : TypeInForm(f, v) \/ StrangerEdits(f, v)
  \/ \E v \in Texts : PatchPriority(v)
  \/ \E b \in Boxes, checked \in BOOLEAN : ToggleTask(b, checked)
  \/ \E i \in Requests : ServerPatches(i) \/ ServerRefuses(i) \/ ChangeAnswered(i) \/ AnswerLost(i)
  \/ AnswerRefetch \/ RefetchArrives \/ RefetchFails \/ RefetchOnReconnect

-----------------------------------------------------------------------------
Patched(i) == i \in Requests /\ requests[i].at = "sent" /\ requests'[i].at = "applied"
Written == {f \in Fields : issueOnServer'[f] # issueOnServer[f]}

\* The comment of EditIssueForm.tsx:59: "Send only what this user actually changed."  Saving
\* the form changes no field its user did not type in.
SaveWritesOnlyTyped ==
  [][\A i \in Requests : Patched(i) /\ requests[i].kind = "save" => Written \subseteq requests[i].about]_editVars

\* It holds of every field whose copy stayed the same under the open form: a field neither
\* typed in nor replaced meanwhile is never written back, whatever others did to it.
SaveSparesUntouched ==
  [][\A i \in Requests : Patched(i) /\ requests[i].kind = "save" =>
       Written \subseteq requests[i].about \cup requests[i].replaced]_editVars

\* A box ticked on a page with nothing under way changes that box alone, however the changes
\* and the refetches before it were ordered, unless somebody else wrote, a refetch failed, the
\* answer to a change was lost (the page then looks settled on a copy without it, and the next
\* tick takes it back: IssueDetail.tsx:284), or a later change overtook it.
SettledTickIsAlone ==
  [][\A i \in Requests :
       (/\ Patched(i) /\ requests[i].kind = "tick" /\ requests[i].settled
        /\ mishaps \subseteq {"reconnection"}
        /\ \A j \in Requests : j > i => requests[j].at = "sent")
       => \A b \in Boxes \ requests[i].about : (b \in issueOnServer'.done) = (b \in issueOnServer.done)]_editVars
=============================================================================

--------------------------- MODULE WebEdits_proofs ---------------------------
(***************************************************************************)
(* What the three pages write, for every number of cards, letters, fields,  *)
(* boxes and requests: each place keeps its own invariant while the others  *)
(* stand still.                                                             *)
(***************************************************************************)
EXTENDS WebEdits, Board_proofs

-----------------------------------------------------------------------------
\* A copy of the fields differs from the server's only where it is known to have missed a
\* write; the draft differs from the copy on show only where the user typed; and what a save
\* would change was typed or missed.
CopyHonest(seen) == \A k \in FieldKeys \ seen.missed : seen.values[k] = valuesOnServer[k]

FieldsInv ==
  /\ FieldsTypeOK
  /\ CopyHonest(valuesShown)
  /\ valuesFetch.at = "answered" => CopyHonest(valuesFetch.copy)
  /\ \A k \in FieldKeys \ fieldsDraft.typed : fieldsDraft.values[k] = valuesShown.values[k]
  /\ fieldsSave.at = "sent" =>
       \A k \in FieldKeys \ (fieldsSave.typed \cup fieldsSave.missed) : fieldsSave.values[k] = valuesOnServer[k]

LEMMA FieldsInitInv == FieldsInit => FieldsInv
<1> SUFFICES ASSUME FieldsInit PROVE FieldsInv
  OBVIOUS
<1>1. BlankValues \in AllValues /\ BlankCopy \in Copies
  BY FieldsPanelAssumption DEF BlankValues, AllValues, BlankCopy, Copies
<1>2. valuesOnServer \in AllValues /\ valuesShown \in Copies /\ valuesOnServer = valuesShown.values
  BY <1>1 DEF FieldsInit, BlankCopy
<1>3. valuesFetch \in [at : {"idle", "asked", "answered"}, copy : Copies] /\ valuesFetch.at = "idle"
  BY <1>1 DEF FieldsInit, NoValuesFetch
<1>4. /\ fieldsDraft \in [values : AllValues, typed : SUBSET FieldKeys, open : BOOLEAN]
      /\ fieldsDraft.values = valuesShown.values
  BY <1>1 DEF FieldsInit, BlankCopy
<1>5. /\ fieldsSave \in [at : {"none", "sent", "applied"}, values : AllValues, typed : SUBSET FieldKeys,
                        missed : SUBSET FieldKeys]
      /\ fieldsSave.at = "none"
  BY <1>1 DEF FieldsInit, NoFieldsSave
<1>6. saves \in 0..MaxSaves /\ incidents \in 0..MaxIncidents
  BY FieldsPanelAssumption DEF FieldsInit
<1> QED BY <1>2, <1>3, <1>4, <1>5, <1>6 DEF FieldsInv, FieldsTypeOK, CopyHonest

\* Nothing fetched, nothing saved.
LEMMA BlankTypes ==
  /\ NoValuesFetch \in [at : {"idle", "asked", "answered"}, copy : Copies]
  /\ NoValuesFetch.at = "idle"
  /\ NoFieldsSave \in [at : {"none", "sent", "applied"}, values : AllValues, typed : SUBSET FieldKeys,
                       missed : SUBSET FieldKeys]
  /\ NoFieldsSave.at = "none"
BY FieldsPanelAssumption DEF NoValuesFetch, NoFieldsSave, BlankCopy, BlankValues, Copies, AllValues

LEMMA FieldsStepInv == FieldsInv /\ FieldsNext => FieldsInv'
<1> SUFFICES ASSUME FieldsInv, FieldsNext PROVE FieldsInv'
  OBVIOUS
<1> USE FieldsPanelAssumption DEF FieldsInv, FieldsTypeOK, CopyHonest, Copies, AllValues
<1>1. CASE ToggleEditing
  BY <1>1 DEF ToggleEditing
<1>2. CASE SaveFields
  BY <1>2 DEF SaveFields
<1>3. ASSUME NEW k \in FieldKeys, NEW v \in FieldValues, TypeInField(k, v) PROVE FieldsInv'
  BY <1>3 DEF TypeInField
<1>4. CASE SetIssueFieldValues
  BY <1>4, BlankTypes DEF SetIssueFieldValues, WriteValues
<1>5. CASE RefuseFields
  BY <1>5, BlankTypes DEF RefuseFields
<1>6. CASE FieldsSaved
  BY <1>6, BlankTypes DEF FieldsSaved
<1>7. ASSUME NEW values \in AllValues, OthersSaveFields(values) PROVE FieldsInv'
  BY <1>7 DEF OthersSaveFields, WriteValues, Incident
<1>8. CASE AnswerValues
  BY <1>8 DEF AnswerValues
<1>9. CASE ValuesArrive
  BY <1>9, BlankTypes DEF ValuesArrive, SeededDraft
<1>10. CASE ValuesFail
  BY <1>10, BlankTypes DEF ValuesFail, Incident
<1>11. CASE RefetchValues
  BY <1>11, BlankTypes DEF RefetchValues, Incident
<1>12. CASE FieldsAnswerLost
  BY <1>12, BlankTypes DEF FieldsAnswerLost, Incident
<1> QED
  BY <1>1, <1>2, <1>3, <1>4, <1>5, <1>6, <1>7, <1>8, <1>9, <1>10, <1>11, <1>12 DEF FieldsNext

\* The step of SaveSparesSeen.
SparesSeen ==
  fieldsSave.at = "sent" /\ fieldsSave'.at = "applied" =>
    {k \in FieldKeys : valuesOnServer'[k] # valuesOnServer[k]} \subseteq fieldsSave.typed \cup fieldsSave.missed

\* Only the server's writing takes a save from sent to applied.
LEMMA FieldsStepSpares == FieldsInv /\ FieldsNext => SparesSeen
<1> SUFFICES ASSUME FieldsInv, FieldsNext, fieldsSave.at = "sent", fieldsSave'.at = "applied"
             PROVE  SparesSeen
  BY DEF SparesSeen
<1>1. SetIssueFieldValues
  <2>1. ASSUME NEW values \in AllValues, OthersSaveFields(values) PROVE fieldsSave'.at = "sent"
    BY <2>1 DEF OthersSaveFields, FieldsInv, FieldsTypeOK
  <2>2. CASE UNCHANGED fieldsSave \/ SaveFields \/ RefuseFields \/ FieldsSaved \/ FieldsAnswerLost
    BY <2>2, BlankTypes DEF SaveFields, RefuseFields, FieldsSaved, FieldsAnswerLost
  <2> QED
    BY <2>1, <2>2 DEF FieldsNext, ToggleEditing, TypeInField, AnswerValues, ValuesArrive, ValuesFail, RefetchValues
<1> QED BY <1>1 DEF SetIssueFieldValues, WriteValues, FieldsInv, SparesSeen, FieldsTypeOK

-----------------------------------------------------------------------------
\* An issue is a function of its two fields, whichever is set.
LEMMA IssueFields ==
  /\ \A g \in Issue : g \in [Fields -> Texts \cup SUBSET Boxes] /\ g["priority"] \in Texts /\ g["done"] \in SUBSET Boxes
  /\ \A g \in [Fields -> Texts \cup SUBSET Boxes] :
       g["priority"] \in Texts /\ g["done"] \in SUBSET Boxes => g \in Issue
  /\ \A g \in Issue, f \in Fields : g[f] \in Values(f) /\ \A v \in Values(f) : [g EXCEPT ![f] = v] \in Issue
  /\ NewIssue \in Issue
<1>1. ASSUME NEW g \in Issue PROVE g \in [Fields -> Texts \cup SUBSET Boxes] /\ g["priority"] \in Texts /\ g["done"] \in SUBSET Boxes
  BY DEF Issue, Fields
<1>2. ASSUME NEW g \in [Fields -> Texts \cup SUBSET Boxes], g["priority"] \in Texts, g["done"] \in SUBSET Boxes
      PROVE  g \in Issue
  BY <1>2 DEF Issue, Fields
<1>3. ASSUME NEW g \in Issue, NEW f \in Fields
      PROVE  g[f] \in Values(f) /\ \A v \in Values(f) : [g EXCEPT ![f] = v] \in Issue
  BY DEF Issue, Fields, Values
<1>4. NewIssue \in Issue
  BY IssueEditAssumption DEF NewIssue, Issue
<1> QED BY <1>1, <1>2, <1>3, <1>4

\* The fields a change sets, each to one of its values.
Patches == {g \in UNION {[F -> Texts \cup SUBSET Boxes] : F \in SUBSET Fields} :
              \A f \in DOMAIN g : g[f] \in Values(f)}

Changes == [kind : {"save", "rail", "tick", "over"}, fields : Patches, about : SUBSET (Fields \cup Boxes),
            at : {"sent", "applied", "answered"}, replaced : SUBSET Fields, settled : BOOLEAN]

Forms == [open : BOOLEAN, values : Issue, typed : SUBSET Fields, replaced : SUBSET Fields, save : 0..MaxRequests]

EditTypes ==
  /\ issueOnServer \in Issue /\ issueShown \in Issue
  /\ issueFetch \in [at : {"idle", "asked", "answered"}, issue : Issue]
  /\ form \in Forms
  /\ requests \in Seq(Changes) /\ Len(requests) <= MaxRequests
  /\ mishaps \subseteq Mishaps /\ IsFiniteSet(mishaps) /\ Cardinality(mishaps) \in 0..MaxMishaps

\* The form differs from the copy on show only where the user typed or the copy was replaced;
\* and a save sends only such fields.
FormHonest ==
  /\ form.open => \A f \in Fields \ (form.typed \cup form.replaced) : form.values[f] = issueShown[f]
  /\ \A i \in Requests : requests[i].kind = "save" /\ requests[i].at = "sent" =>
       DOMAIN requests[i].fields \subseteq requests[i].about \cup requests[i].replaced

\* As long as nobody else writes, no refetch fails and no answer is lost, a copy that is not
\* the server's has a change whose answer will replace it.
Calm == mishaps \subseteq {"reconnection"}
Unanswered == \E i \in Requests : requests[i].at = "applied"
CopyFollows ==
  Calm =>
    /\ issueFetch.at = "idle" => issueShown = issueOnServer \/ Unanswered
    /\ issueFetch.at = "answered" => issueFetch.issue = issueOnServer \/ Unanswered

\* A box ticked on a settled page leaves the others as the server has them, until a change
\* sent after it is written.
TickHonest ==
  \A i \in Requests :
    /\ requests[i].kind = "over" <=> requests[i].at = "answered"
    /\ requests[i].kind = "tick" /\ requests[i].at = "sent" /\ requests[i].settled =>
         /\ DOMAIN requests[i].fields = {"done"}
         /\ \A j \in 1..(i - 1) : requests[j].at = "answered"
         /\ Calm /\ (\A j \in Requests : j > i => requests[j].at = "sent") =>
              \A b \in Boxes \ requests[i].about : (b \in requests[i].fields["done"]) = (b \in issueOnServer.done)

EditInv == EditTypes /\ FormHonest /\ CopyFollows /\ TickHonest

\* The requests are numbered from one.
LEMMA RequestFacts ==
  ASSUME requests \in Seq(Changes)
  PROVE  /\ Len(requests) \in Nat /\ Requests = 1..Len(requests) /\ DOMAIN requests = Requests
         /\ \A i \in Requests : requests[i] \in Changes
BY LenProperties, ElementOfSeq DEF Requests

\* Sending adds one request at the end.
LEMMA SendFacts ==
  ASSUME EditTypes, NEW kind \in {"save", "rail", "tick"}, NEW fields \in Patches,
         NEW about \in SUBSET (Fields \cup Boxes), SendChange(kind, fields, about)
  PROVE  /\ requests' \in Seq(Changes) /\ Len(requests') = Len(requests) + 1 /\ Len(requests') <= MaxRequests
         /\ Requests' = Requests \cup {Len(requests) + 1}
         /\ \A i \in Requests : requests'[i] = requests[i]
         /\ requests'[Len(requests) + 1] =
              [kind |-> kind, fields |-> fields, about |-> about, at |-> "sent",
               replaced |-> form.replaced, settled |-> kind = "tick" /\ LooksSettled]
<1> DEFINE new == [kind |-> kind, fields |-> fields, about |-> about, at |-> "sent",
                   replaced |-> form.replaced, settled |-> kind = "tick" /\ LooksSettled]
<1>1. requests \in Seq(Changes) /\ form.replaced \in SUBSET Fields
  BY DEF EditTypes, Forms
<1>2. (kind = "tick" /\ LooksSettled) \in BOOLEAN
  BY DEF LooksSettled
<1>3. new \in Changes
  BY <1>1, <1>2 DEF Changes
<1>4. requests' = Append(requests, new) /\ Len(requests) < MaxRequests
  BY DEF SendChange
<1> HIDE DEF new
<1>5. /\ requests' \in Seq(Changes) /\ Len(requests') = Len(requests) + 1
      /\ \A i \in 1..Len(requests) : requests'[i] = requests[i]
      /\ requests'[Len(requests) + 1] = new
  BY <1>1, <1>3, <1>4, AppendProperties
<1>6. Len(requests) \in Nat
  BY <1>1, LenProperties
<1> QED BY <1>4, <1>5, <1>6, IssueEditAssumption DEF Requests, new

\* A request that is done with changes in its place.
LEMMA OverFacts ==
  ASSUME EditTypes, NEW i \in Requests, NEW at \in {"applied", "answered"},
         requests' = [requests EXCEPT ![i] = Over(i, at)]
  PROVE  /\ requests' \in Seq(Changes) /\ Len(requests') = Len(requests) /\ Requests' = Requests
         /\ \A j \in Requests : j # i => requests'[j] = requests[j]
         /\ requests'[i].at = at
         /\ requests'[i].kind = IF at = "applied" THEN requests[i].kind ELSE "over"
<1>1. requests \in Seq(Changes) /\ requests[i] \in Changes /\ i \in 1..Len(requests)
  BY RequestFacts DEF EditTypes, Requests
<1>2. <<>> \in Patches
  BY DEF Patches
<1>3. Over(i, at) \in Changes
  BY <1>1, <1>2 DEF Over, Changes
<1>4. /\ requests' \in Seq(Changes) /\ Len(requests') = Len(requests)
      /\ \A j \in 1..Len(requests) : requests'[j] = IF j = i THEN Over(i, at) ELSE requests[j]
  BY <1>1, <1>3, ExceptSeq
<1> QED BY <1>1, <1>4 DEF Requests, Over

-----------------------------------------------------------------------------
\* The fields each kind of change sends.
LEMMA SentPatches ==
  ASSUME EditTypes
  PROVE  /\ [f \in ChangedFields(form.values) |-> form.values[f]] \in Patches
         /\ \A v \in Texts : [f \in {"priority"} |-> v] \in Patches
         /\ \A done \in SUBSET Boxes : [f \in {"done"} |-> done] \in Patches
<1>1. [f \in ChangedFields(form.values) |-> form.values[f]] \in Patches
  <2>1. /\ ChangedFields(form.values) \subseteq Fields /\ form.values \in Issue
    BY DEF EditTypes, Forms, ChangedFields
  <2>2. \A f \in Fields : form.values[f] \in Values(f) /\ form.values[f] \in Texts \cup SUBSET Boxes
    BY <2>1, IssueFields DEF Values
  <2> HIDE DEF Values
  <2> QED BY <2>1, <2>2 DEF Patches
<1>2. ASSUME NEW v \in Texts PROVE [f \in {"priority"} |-> v] \in Patches
  BY DEF Patches, Fields, Values
<1>3. ASSUME NEW done \in SUBSET Boxes PROVE [f \in {"done"} |-> done] \in Patches
  BY DEF Patches, Fields, Values
<1> QED BY <1>1, <1>2, <1>3

\* A mishap is one more; only a reconnection leaves the page calm.
LEMMA MishapFacts ==
  ASSUME EditTypes, NEW m \in Mishaps, Mishap(m)
  PROVE  /\ mishaps' \subseteq Mishaps /\ IsFiniteSet(mishaps') /\ Cardinality(mishaps') \in 0..MaxMishaps
         /\ Calm' => Calm /\ m = "reconnection"
<1>1. IsFiniteSet(mishaps') /\ Cardinality(mishaps') = Cardinality(mishaps) + 1
  BY FS_AddElement DEF EditTypes, Mishap
<1>2. Cardinality(mishaps') \in 0..MaxMishaps
  BY <1>1, IssueEditAssumption DEF EditTypes, Mishap
<1>3. mishaps' = mishaps \cup {m}
  BY DEF Mishap
<1> QED BY <1>1, <1>2, <1>3 DEF EditTypes, Calm

LEMMA RefetchTypes ==
  /\ NoFetch \in [at : {"idle", "asked", "answered"}, issue : Issue] /\ NoFetch.at = "idle"
  /\ Refetched \in [at : {"idle", "asked", "answered"}, issue : Issue] /\ Refetched.at = "asked"
<1>1. NoFetch \in [at : {"idle", "asked", "answered"}, issue : Issue] /\ NoFetch.at = "idle"
  BY IssueFields DEF NoFetch
<1> QED BY <1>1 DEF Refetched

LEMMA ClosedFormType == ClosedForm \in Forms /\ ClosedForm.open = FALSE
<1>1. /\ Opened(NewIssue) \in Forms
      /\ Opened(NewIssue) = [open |-> TRUE, values |-> NewIssue, typed |-> {}, replaced |-> {}, save |-> 0]
  BY IssueFields, IssueEditAssumption DEF Opened, Forms
<1> QED BY <1>1 DEF ClosedForm, Forms

LEMMA EditInitInv == EditInit => EditInv
<1> SUFFICES ASSUME EditInit PROVE EditInv
  OBVIOUS
<1>1. requests = <<>> /\ requests \in Seq(Changes) /\ Len(requests) = 0
  BY EmptySeq DEF EditInit
<1>2. mishaps = {} /\ IsFiniteSet(mishaps) /\ Cardinality(mishaps) \in 0..MaxMishaps
  BY FS_EmptySet, IssueEditAssumption DEF EditInit
<1>3. /\ issueOnServer \in Issue /\ issueShown = issueOnServer
      /\ issueFetch \in [at : {"idle", "asked", "answered"}, issue : Issue] /\ issueFetch.at = "idle"
      /\ form \in Forms /\ form.open = FALSE
  BY IssueFields, RefetchTypes, ClosedFormType DEF EditInit
<1>4. Requests = {}
  BY <1>1 DEF Requests
<1> QED
  BY <1>1, <1>2, <1>3, <1>4, IssueEditAssumption
  DEF EditInv, EditTypes, FormHonest, CopyFollows, TickHonest

-----------------------------------------------------------------------------
\* The types, one step for each variable.
LEMMA EditTypesStep == EditTypes /\ EditNext => EditTypes'
<1> SUFFICES ASSUME EditTypes, EditNext PROVE EditTypes'
  OBVIOUS
<1>1. (requests \in Seq(Changes) /\ Len(requests) <= MaxRequests)'
  <2>1. CASE SaveForm
    <3>1. form.typed \in SUBSET (Fields \cup Boxes)
      BY DEF EditTypes, Forms
    <3> QED BY <2>1, <3>1, SentPatches, SendFacts DEF SaveForm
  <2>2. ASSUME NEW v \in Texts, PatchPriority(v) PROVE (requests \in Seq(Changes) /\ Len(requests) <= MaxRequests)'
    <3>1. SendChange("rail", [f \in {"priority"} |-> v], {"priority"})
      BY <2>2 DEF PatchPriority
    <3>2. [f \in {"priority"} |-> v] \in Patches /\ {"priority"} \in SUBSET (Fields \cup Boxes)
      BY SentPatches DEF Fields
    <3> QED BY <3>1, <3>2, SendFacts
  <2>3. ASSUME NEW b \in Boxes, NEW checked \in BOOLEAN, ToggleTask(b, checked)
        PROVE  (requests \in Seq(Changes) /\ Len(requests) <= MaxRequests)'
    <3>1. (IF checked THEN issueShown.done \cup {b} ELSE issueShown.done \ {b}) \in SUBSET Boxes
      BY DEF EditTypes, Issue
    <3> DEFINE ticked == IF checked THEN issueShown.done \cup {b} ELSE issueShown.done \ {b}
    <3>2. SendChange("tick", [f \in {"done"} |-> ticked], {b})
      BY <2>3 DEF ToggleTask
    <3> HIDE DEF ticked
    <3>3. [f \in {"done"} |-> ticked] \in Patches /\ {b} \in SUBSET (Fields \cup Boxes)
      BY <3>1, SentPatches DEF ticked
    <3> QED BY <3>2, <3>3, SendFacts
  <2>4. ASSUME NEW i \in Requests, ServerPatches(i) \/ ServerRefuses(i) \/ ChangeAnswered(i) \/ AnswerLost(i)
        PROVE  (requests \in Seq(Changes) /\ Len(requests) <= MaxRequests)'
    BY <2>4, OverFacts DEF ServerPatches, ServerRefuses, ChangeAnswered, AnswerLost, EditTypes
  <2>5. CASE UNCHANGED requests
    BY <2>5 DEF EditTypes
  <2> QED
    BY <2>1, <2>2, <2>3, <2>4, <2>5
    DEF EditNext, OpenForm, CancelForm, TypeInForm, StrangerEdits, AnswerRefetch, RefetchArrives, RefetchFails,
        RefetchOnReconnect
<1>2. (issueOnServer \in Issue)'
  <2>1. ASSUME NEW i \in Requests, ServerPatches(i) PROVE issueOnServer' \in Issue
    <3>1. requests[i].fields \in Patches
      BY RequestFacts DEF EditTypes, Changes
    <3> DEFINE g == requests[i].fields
    <3>2. \A f \in DOMAIN g : g[f] \in Values(f)
      BY <3>1 DEF Patches
    <3>3. issueOnServer' = [f \in Fields |-> IF f \in DOMAIN g THEN g[f] ELSE issueOnServer[f]]
      BY <2>1 DEF ServerPatches
    <3> HIDE DEF g
    <3>4. \A f \in Fields : issueOnServer'[f] \in Values(f)
      BY <3>2, <3>3, IssueFields DEF EditTypes
    <3> QED BY <3>3, <3>4, IssueFields DEF Values, Fields
  <2>2. ASSUME NEW f \in Fields, NEW v \in Values(f), StrangerEdits(f, v) PROVE issueOnServer' \in Issue
    BY <2>2, IssueFields DEF StrangerEdits, EditTypes
  <2>3. CASE UNCHANGED issueOnServer
    BY <2>3 DEF EditTypes
  <2> QED
    BY <2>1, <2>2, <2>3
    DEF EditNext, OpenForm, CancelForm, SaveForm, TypeInForm, PatchPriority, ToggleTask, ServerRefuses, ChangeAnswered,
        AnswerLost, AnswerRefetch, RefetchArrives, RefetchFails, RefetchOnReconnect
<1>3. (issueShown \in Issue /\ issueFetch \in [at : {"idle", "asked", "answered"}, issue : Issue])'
  <2>1. CASE AnswerRefetch
    BY <2>1 DEF AnswerRefetch, EditTypes
  <2>2. CASE RefetchArrives
    BY <2>2, RefetchTypes DEF RefetchArrives, EditTypes
  <2>3. CASE UNCHANGED issueShown /\ (UNCHANGED issueFetch \/ issueFetch' = NoFetch \/ issueFetch' = Refetched)
    BY <2>3, RefetchTypes DEF EditTypes
  <2> QED
    BY <2>1, <2>2, <2>3
    DEF EditNext, OpenForm, CancelForm, SaveForm, TypeInForm, StrangerEdits, PatchPriority, ToggleTask, ServerPatches,
        ServerRefuses, ChangeAnswered, AnswerLost, RefetchFails, RefetchOnReconnect
<1>4. (form \in Forms)'
  <2>1. CASE OpenForm
    BY <2>1, IssueEditAssumption DEF OpenForm, Opened, Forms, EditTypes
  <2>2. ASSUME NEW f \in Fields, NEW v \in Values(f), TypeInForm(f, v) PROVE form' \in Forms
    <3>1. [form.values EXCEPT ![f] = v] \in Issue
      BY IssueFields DEF EditTypes, Forms
    <3>2. form' = [form EXCEPT !.values = [form.values EXCEPT ![f] = v], !.typed = form.typed \cup {f}]
      BY <2>2 DEF TypeInForm, EditTypes, Forms
    <3> QED BY <3>1, <3>2 DEF EditTypes, Forms
  <2>3. CASE SaveForm
    <3>1. Len(requests') \in 0..MaxRequests
      BY <1>1, RequestFacts, LenProperties, IssueEditAssumption
    <3> QED BY <2>3, <3>1 DEF SaveForm, EditTypes, Forms
  <2>4. CASE RefetchArrives
    BY <2>4 DEF RefetchArrives, EditTypes, Forms
  <2>5. CASE UNCHANGED form \/ form' = ClosedForm
    BY <2>5, ClosedFormType DEF EditTypes
  <2> QED
    BY <2>1, <2>2, <2>3, <2>4, <2>5
    DEF EditNext, CancelForm, StrangerEdits, PatchPriority, ToggleTask, ServerPatches,
        ServerRefuses, ChangeAnswered, AnswerLost, AnswerRefetch, RefetchFails, RefetchOnReconnect
<1>5. (mishaps \subseteq Mishaps /\ IsFiniteSet(mishaps) /\ Cardinality(mishaps) \in 0..MaxMishaps)'
  <2>1. CASE RefetchFails
    BY <2>1, MishapFacts DEF RefetchFails, Mishaps
  <2>2. CASE RefetchOnReconnect
    BY <2>2, MishapFacts DEF RefetchOnReconnect, Mishaps
  <2>3. ASSUME NEW f \in Fields, NEW v \in Values(f), StrangerEdits(f, v)
        PROVE  (mishaps \subseteq Mishaps /\ IsFiniteSet(mishaps) /\ Cardinality(mishaps) \in 0..MaxMishaps)'
    BY <2>3, MishapFacts DEF StrangerEdits, Mishaps
  <2>4. ASSUME NEW i \in Requests, AnswerLost(i)
        PROVE  (mishaps \subseteq Mishaps /\ IsFiniteSet(mishaps) /\ Cardinality(mishaps) \in 0..MaxMishaps)'
    BY <2>4, MishapFacts DEF AnswerLost, Mishaps
  <2>5. CASE UNCHANGED mishaps
    BY <2>5 DEF EditTypes
  <2> QED
    BY <2>1, <2>2, <2>3, <2>4, <2>5
    DEF EditNext, OpenForm, CancelForm, SaveForm, TypeInForm, PatchPriority, ToggleTask, ServerPatches, ServerRefuses,
        ChangeAnswered, AnswerRefetch, RefetchArrives
<1> QED BY <1>1, <1>2, <1>3, <1>4, <1>5 DEF EditTypes

LEMMA FormHonestStep == EditTypes /\ FormHonest /\ EditNext => FormHonest'
<1> SUFFICES ASSUME EditTypes, FormHonest, EditNext PROVE FormHonest'
  OBVIOUS
<1> DEFINE FormKept == form.open => \A f \in Fields \ (form.typed \cup form.replaced) : form.values[f] = issueShown[f]
           SaveKept(i) == requests[i].kind = "save" /\ requests[i].at = "sent" =>
                            DOMAIN requests[i].fields \subseteq requests[i].about \cup requests[i].replaced
<1>1. FormKept'
  <2> USE DEF FormHonest, EditTypes, Forms
  <2>1. CASE OpenForm
    BY <2>1 DEF OpenForm, Opened
  <2>2. ASSUME NEW f \in Fields, NEW v \in Values(f), TypeInForm(f, v) PROVE FormKept'
    <3>1. /\ form'.open = form.open /\ form'.typed = form.typed \cup {f} /\ form'.replaced = form.replaced
          /\ form'.values = [form.values EXCEPT ![f] = v]
      BY <2>2 DEF TypeInForm
    <3>2. \A g \in Fields : g # f => form'.values[g] = form.values[g]
      BY <3>1, IssueFields
    <3> QED BY <2>2, <3>1, <3>2 DEF TypeInForm
  <2>3. CASE SaveForm
    BY <2>3 DEF SaveForm
  <2>4. CASE RefetchArrives
    BY <2>4 DEF RefetchArrives
  <2>5. CASE UNCHANGED issueShown /\ (UNCHANGED form \/ form' = ClosedForm)
    BY <2>5, ClosedFormType
  <2> QED
    BY <2>1, <2>2, <2>3, <2>4, <2>5
    DEF EditNext, CancelForm, StrangerEdits, PatchPriority, ToggleTask, ServerPatches,
        ServerRefuses, ChangeAnswered, AnswerLost, AnswerRefetch, RefetchFails, RefetchOnReconnect
<1>2. ASSUME NEW i \in Requests' PROVE SaveKept(i)'
  <2> USE DEF EditTypes, FormHonest
  <2>1. CASE SaveForm
    <3> DEFINE fields == [f \in ChangedFields(form.values) |-> form.values[f]]
    <3>1. SendChange("save", fields, form.typed) /\ fields \in Patches /\ form.typed \in SUBSET (Fields \cup Boxes)
      BY <2>1, SentPatches DEF SaveForm, Forms
    <3>2. DOMAIN fields \subseteq form.typed \cup form.replaced
      BY <2>1 DEF SaveForm, ChangedFields
    <3> HIDE DEF fields
    <3>3. /\ Requests' = Requests \cup {Len(requests) + 1}
          /\ \A j \in Requests : requests'[j] = requests[j]
          /\ requests'[Len(requests) + 1] =
               [kind |-> "save", fields |-> fields, about |-> form.typed, at |-> "sent",
                replaced |-> form.replaced, settled |-> "save" = "tick" /\ LooksSettled]
      BY <3>1, SendFacts
    <3>4. CASE i \in Requests
      BY <3>3, <3>4
    <3>5. CASE i = Len(requests) + 1
      BY <3>2, <3>3, <3>5
    <3> QED BY <3>3, <3>4, <3>5
  <2>2. ASSUME NEW kind \in {"rail", "tick"}, NEW fields \in Patches,
               NEW about \in SUBSET (Fields \cup Boxes), SendChange(kind, fields, about)
        PROVE  SaveKept(i)'
    <3>1. /\ Requests' = Requests \cup {Len(requests) + 1}
          /\ \A j \in Requests : requests'[j] = requests[j]
          /\ requests'[Len(requests) + 1] =
               [kind |-> kind, fields |-> fields, about |-> about, at |-> "sent",
                replaced |-> form.replaced, settled |-> kind = "tick" /\ LooksSettled]
      <4>1. kind \in {"save", "rail", "tick"}
        OBVIOUS
      <4> QED BY <2>2, <4>1, SendFacts
    <3>2. requests'[Len(requests) + 1].kind # "save"
      BY <3>1
    <3> QED BY <3>1, <3>2
  <2>3. ASSUME NEW v \in Texts, PatchPriority(v) PROVE SaveKept(i)'
    <3>1. [f \in {"priority"} |-> v] \in Patches /\ {"priority"} \in SUBSET (Fields \cup Boxes)
      BY SentPatches DEF Fields
    <3> QED BY <2>2, <2>3, <3>1 DEF PatchPriority
  <2>4. ASSUME NEW b \in Boxes, NEW checked \in BOOLEAN, ToggleTask(b, checked) PROVE SaveKept(i)'
    <3> DEFINE ticked == IF checked THEN issueShown.done \cup {b} ELSE issueShown.done \ {b}
    <3>1. SendChange("tick", [f \in {"done"} |-> ticked], {b})
      BY <2>4 DEF ToggleTask
    <3>2. ticked \in SUBSET Boxes
      BY DEF Issue
    <3> HIDE DEF ticked
    <3>3. [f \in {"done"} |-> ticked] \in Patches /\ {b} \in SUBSET (Fields \cup Boxes)
      BY <3>2, SentPatches
    <3> QED BY <2>2, <3>1, <3>3
  <2>5. ASSUME NEW j \in Requests, ServerPatches(j) \/ ServerRefuses(j) \/ ChangeAnswered(j) \/ AnswerLost(j)
        PROVE  SaveKept(i)'
    <3>1. PICK at \in {"applied", "answered"} : requests' = [requests EXCEPT ![j] = Over(j, at)]
      BY <2>5 DEF ServerPatches, ServerRefuses, ChangeAnswered, AnswerLost
    <3>2. /\ Requests' = Requests /\ requests'[j].at = at
          /\ \A n \in Requests : n # j => requests'[n] = requests[n]
      BY <3>1, OverFacts
    <3> QED BY <3>2
  <2>6. CASE UNCHANGED requests
    BY <2>6 DEF Requests
  <2> QED
    BY <2>1, <2>3, <2>4, <2>5, <2>6
    DEF EditNext, OpenForm, CancelForm, TypeInForm, StrangerEdits, AnswerRefetch, RefetchArrives, RefetchFails,
        RefetchOnReconnect
<1> QED BY <1>1, <1>2 DEF FormHonest

-----------------------------------------------------------------------------
\* The three ways of sending, with what they send.
LEMMA Sends ==
  ASSUME EditTypes, SaveForm \/ (\E v \in Texts : PatchPriority(v))
                    \/ (\E b \in Boxes, checked \in BOOLEAN : ToggleTask(b, checked))
  PROVE  \E kind \in {"save", "rail", "tick"}, fields \in Patches, about \in SUBSET (Fields \cup Boxes) :
           /\ SendChange(kind, fields, about)
           /\ kind = "tick" => /\ DOMAIN fields = {"done"}
                               /\ \A b \in Boxes \ about : (b \in fields["done"]) <=> (b \in issueShown.done)
<1>1. CASE SaveForm
  <2>1. form.typed \in SUBSET (Fields \cup Boxes)
    BY DEF EditTypes, Forms
  <2> QED BY <1>1, <2>1, SentPatches DEF SaveForm
<1>2. ASSUME NEW v \in Texts, PatchPriority(v)
      PROVE  SendChange("rail", [f \in {"priority"} |-> v], {"priority"})
             /\ [f \in {"priority"} |-> v] \in Patches /\ {"priority"} \in SUBSET (Fields \cup Boxes)
  BY <1>2, SentPatches DEF PatchPriority, Fields
<1>3. ASSUME NEW b \in Boxes, NEW checked \in BOOLEAN, ToggleTask(b, checked)
      PROVE  \E fields \in Patches, about \in SUBSET (Fields \cup Boxes) :
               /\ SendChange("tick", fields, about) /\ DOMAIN fields = {"done"}
               /\ \A a \in Boxes \ about : (a \in fields["done"]) <=> (a \in issueShown.done)
  <2> DEFINE ticked == IF checked THEN issueShown.done \cup {b} ELSE issueShown.done \ {b}
             fields == [f \in {"done"} |-> ticked]
  <2>1. SendChange("tick", fields, {b})
    BY <1>3 DEF ToggleTask
  <2>2. ticked \in SUBSET Boxes /\ \A a \in Boxes \ {b} : (a \in ticked) <=> (a \in issueShown.done)
    BY DEF EditTypes, Issue
  <2> HIDE DEF ticked
  <2>3. fields \in Patches /\ DOMAIN fields = {"done"} /\ fields["done"] = ticked
    BY <2>2, SentPatches
  <2> HIDE DEF fields
  <2>4. {b} \in SUBSET (Fields \cup Boxes)
    OBVIOUS
  <2> QED BY <2>1, <2>2, <2>3, <2>4
<1> QED
  <2>1. CASE SaveForm
    BY <2>1, <1>1
  <2>2. CASE \E v \in Texts : PatchPriority(v)
    BY <2>2, <1>2
  <2>3. CASE \E b \in Boxes, checked \in BOOLEAN : ToggleTask(b, checked)
    BY <2>3, <1>3
  <2> QED BY <2>1, <2>2, <2>3

\* The four ways a change comes to an end.
LEMMA Overs ==
  ASSUME EditTypes, NEW i \in Requests, ServerPatches(i) \/ ServerRefuses(i) \/ ChangeAnswered(i) \/ AnswerLost(i)
  PROVE  \E at \in {"applied", "answered"} :
           /\ Requests' = Requests /\ \A j \in Requests : j # i => requests'[j] = requests[j]
           /\ requests'[i].at = at /\ requests'[i].kind = IF at = "applied" THEN requests[i].kind ELSE "over"
           /\ requests[i].at # "answered" /\ (at = "applied" => requests[i].at = "sent")
           /\ ServerPatches(i) => at = "applied"
           /\ ServerRefuses(i) => requests[i].at = "sent"
<1>1. CASE ServerPatches(i)
  BY <1>1, OverFacts DEF ServerPatches, ServerRefuses
<1>2. CASE ServerRefuses(i)
  <2>1. requests' = [requests EXCEPT ![i] = Over(i, "answered")] /\ requests[i].at = "sent"
    BY <1>2 DEF ServerRefuses
  <2> QED BY <1>1, <2>1, OverFacts
<1>3. CASE ChangeAnswered(i) \/ AnswerLost(i)
  <2>1. requests' = [requests EXCEPT ![i] = Over(i, "answered")] /\ requests[i].at = "applied"
    BY <1>3 DEF ChangeAnswered, AnswerLost
  <2> QED BY <2>1, OverFacts DEF ServerPatches, ServerRefuses
<1> QED BY <1>1, <1>2, <1>3

LEMMA CopyFollowsStep == EditTypes /\ CopyFollows /\ EditNext => CopyFollows'
<1> SUFFICES ASSUME EditTypes, CopyFollows, EditNext, Calm' PROVE
      /\ issueFetch'.at = "idle" => issueShown' = issueOnServer' \/ Unanswered'
      /\ issueFetch'.at = "answered" => issueFetch'.issue = issueOnServer' \/ Unanswered'
  BY DEF CopyFollows
<1> DEFINE Follows == /\ issueFetch.at = "idle" => issueShown = issueOnServer \/ Unanswered
                      /\ issueFetch.at = "answered" => issueFetch.issue = issueOnServer \/ Unanswered
<1>1. CASE SaveForm \/ (\E v \in Texts : PatchPriority(v))
           \/ (\E b \in Boxes, checked \in BOOLEAN : ToggleTask(b, checked))
  <2>1. Requests \subseteq Requests' /\ \A i \in Requests : requests'[i] = requests[i]
    BY <1>1, Sends, SendFacts
  <2>2. Unanswered => Unanswered'
    BY <2>1 DEF Unanswered
  <2>3. UNCHANGED <<issueOnServer, issueShown, issueFetch, mishaps>>
    BY <1>1 DEF SaveForm, PatchPriority, ToggleTask
  <2> QED BY <2>2, <2>3 DEF CopyFollows, Calm
<1>2. ASSUME NEW i \in Requests, ServerPatches(i) PROVE Follows'
  <2>1. Unanswered'
    BY <1>2, Overs DEF Unanswered
  <2> QED BY <2>1
<1>3. ASSUME NEW i \in Requests, ServerRefuses(i) PROVE Follows'
  <2>1. Unanswered => Unanswered'
    BY <1>3, Overs DEF Unanswered
  <2> QED BY <1>3, <2>1 DEF CopyFollows, Calm, ServerRefuses
<1>4. ASSUME NEW i \in Requests, ChangeAnswered(i) PROVE Follows'
  BY <1>4, RefetchTypes DEF ChangeAnswered
<1>5. CASE AnswerRefetch
  BY <1>5 DEF AnswerRefetch
<1>6. CASE RefetchArrives
  <2>1. UNCHANGED Unanswered
    BY <1>6 DEF RefetchArrives, Unanswered, Requests
  <2> QED BY <1>6, <2>1, RefetchTypes DEF RefetchArrives, CopyFollows, Calm
<1>7. CASE RefetchOnReconnect
  BY <1>7, RefetchTypes DEF RefetchOnReconnect
<1>8. CASE RefetchFails
  BY <1>8, MishapFacts DEF RefetchFails, Mishaps
<1>9. ASSUME NEW f \in Fields, NEW v \in Values(f), StrangerEdits(f, v) PROVE FALSE
  BY <1>9, MishapFacts DEF StrangerEdits, Mishaps
<1>10. ASSUME NEW i \in Requests, AnswerLost(i) PROVE FALSE
  BY <1>10, MishapFacts DEF AnswerLost, Mishaps
<1>11. CASE UNCHANGED <<issueOnServer, issueShown, issueFetch, requests, mishaps>>
  BY <1>11 DEF CopyFollows, Calm, Unanswered, Requests
<1> QED
  BY <1>1, <1>2, <1>3, <1>4, <1>5, <1>6, <1>7, <1>8, <1>9, <1>10, <1>11
  DEF EditNext, OpenForm, CancelForm, TypeInForm

LEMMA TickHonestStep == EditTypes /\ CopyFollows /\ TickHonest /\ EditNext => TickHonest'
<1> SUFFICES ASSUME EditTypes, CopyFollows, TickHonest, EditNext, NEW i \in Requests'
             PROVE  /\ requests'[i].kind = "over" <=> requests'[i].at = "answered"
                    /\ requests'[i].kind = "tick" /\ requests'[i].at = "sent" /\ requests'[i].settled =>
                         /\ DOMAIN requests'[i].fields = {"done"}
                         /\ \A j \in 1..(i - 1) : requests'[j].at = "answered"
                         /\ Calm' /\ (\A j \in Requests' : j > i => requests'[j].at = "sent") =>
                              \A b \in Boxes \ requests'[i].about :
                                (b \in requests'[i].fields["done"]) = (b \in issueOnServer'.done)
  BY DEF TickHonest
<1> DEFINE Honest(k) ==
      /\ requests[k].kind = "over" <=> requests[k].at = "answered"
      /\ requests[k].kind = "tick" /\ requests[k].at = "sent" /\ requests[k].settled =>
           /\ DOMAIN requests[k].fields = {"done"}
           /\ \A j \in 1..(k - 1) : requests[j].at = "answered"
           /\ Calm /\ (\A j \in Requests : j > k => requests[j].at = "sent") =>
                \A b \in Boxes \ requests[k].about :
                  (b \in requests[k].fields["done"]) = (b \in issueOnServer.done)
<1>a. Requests = 1..Len(requests) /\ Len(requests) \in Nat
  BY RequestFacts DEF EditTypes
<1>b. \A k \in Requests : Honest(k)
  BY DEF TickHonest
<1>1. CASE SaveForm \/ (\E v \in Texts : PatchPriority(v))
           \/ (\E b \in Boxes, checked \in BOOLEAN : ToggleTask(b, checked))
  <2>1. PICK kind \in {"save", "rail", "tick"}, fields \in Patches, about \in SUBSET (Fields \cup Boxes) :
           /\ SendChange(kind, fields, about)
           /\ kind = "tick" => /\ DOMAIN fields = {"done"}
                               /\ \A b \in Boxes \ about : (b \in fields["done"]) <=> (b \in issueShown.done)
    BY <1>1, Sends
  <2>2. /\ Requests' = Requests \cup {Len(requests) + 1}
        /\ \A j \in Requests : requests'[j] = requests[j]
        /\ requests'[Len(requests) + 1] =
              [kind |-> kind, fields |-> fields, about |-> about, at |-> "sent",
               replaced |-> form.replaced, settled |-> kind = "tick" /\ LooksSettled]
    BY <2>1, SendFacts
  <2>3. UNCHANGED <<issueOnServer, issueShown, issueFetch, mishaps>>
    BY <1>1 DEF SaveForm, PatchPriority, ToggleTask
  <2>4. CASE i \in Requests
    <3>1. Honest(i)
      BY <2>4, <1>b
    <3>2. \A j \in 1..(i - 1) : j \in Requests
      BY <2>4, <1>a
    <3>3. Honest(i)'
      BY <2>2, <2>3, <2>4, <3>1, <3>2 DEF Calm
    <3> QED BY <3>3
  <2>5. CASE i = Len(requests) + 1
    <3>1. requests'[i].kind # "over" /\ requests'[i].at = "sent"
      BY <2>2, <2>5
    <3>2. ASSUME kind = "tick", LooksSettled
          PROVE  /\ DOMAIN fields = {"done"}
                 /\ \A j \in 1..(i - 1) : requests'[j].at = "answered"
                 /\ Calm' => \A b \in Boxes \ about : (b \in fields["done"]) = (b \in issueOnServer'.done)
      <4>1. \A j \in Requests : requests[j].at = "answered"
        BY <1>b, <3>2 DEF LooksSettled
      <4>2. \A j \in 1..(i - 1) : requests'[j].at = "answered"
        BY <4>1, <2>2, <2>5, <1>a
      <4>3. ~Unanswered /\ issueFetch.at = "idle"
        BY <4>1, <3>2 DEF Unanswered, LooksSettled
      <4>4. Calm' => issueShown = issueOnServer'
        BY <4>3, <2>3 DEF CopyFollows, Calm
      <4> QED BY <4>2, <4>4, <2>1, <3>2
    <3>3. /\ requests'[i].kind = "tick" => kind = "tick"
          /\ requests'[i].settled => kind = "tick" /\ LooksSettled
          /\ requests'[i].fields = fields /\ requests'[i].about = about
      <4>1. requests'[i] = [kind |-> kind, fields |-> fields, about |-> about, at |-> "sent",
                            replaced |-> form.replaced, settled |-> kind = "tick" /\ LooksSettled]
        BY <2>2, <2>5, Zenon
      <4>2. requests'[i].settled = (kind = "tick" /\ LooksSettled)
        BY <4>1
      <4>3. requests'[i].kind = kind /\ requests'[i].fields = fields /\ requests'[i].about = about
        BY <4>1
      <4> QED BY <4>2, <4>3, Zenon
    <3> QED BY <3>1, <3>2, <3>3
  <2> QED BY <2>2, <2>4, <2>5
<1>2. ASSUME NEW k \in Requests, ServerPatches(k) \/ ServerRefuses(k) \/ ChangeAnswered(k) \/ AnswerLost(k)
      PROVE  Honest(i)'
  <2>1. PICK at \in {"applied", "answered"} :
           /\ Requests' = Requests /\ \A j \in Requests : j # k => requests'[j] = requests[j]
           /\ requests'[k].at = at /\ requests'[k].kind = IF at = "applied" THEN requests[k].kind ELSE "over"
           /\ requests[k].at # "answered" /\ (at = "applied" => requests[k].at = "sent")
    BY <1>2, Overs
  <2>2. CASE i = k
    <3>1. requests'[i].at # "sent"
      BY <2>1, <2>2
    <3>2. requests'[i].kind = "over" <=> requests'[i].at = "answered"
      BY <2>1, <2>2, <1>b
    <3> QED BY <3>1, <3>2
  <2>3. CASE i # k
    <3>1. Honest(i) /\ requests'[i] = requests[i] /\ i \in Requests
      BY <2>1, <2>3, <1>b
    <3>2. CASE requests[i].kind = "tick" /\ requests[i].at = "sent" /\ requests[i].settled
      <4>1. \A j \in 1..(i - 1) : requests[j].at = "answered"
        BY <3>1, <3>2
      <4>2. k > i
        BY <4>1, <2>1, <2>3, <3>1, <1>a
      <4>3. \A j \in 1..(i - 1) : j \in Requests /\ j # k
        BY <4>2, <3>1, <1>a
      <4>4. \A j \in 1..(i - 1) : requests'[j].at = "answered"
        BY <4>1, <4>3, <2>1
      <4>5. ~ \A j \in Requests' : j > i => requests'[j].at = "sent"
        BY <4>2, <2>1
      <4> QED BY <3>1, <4>4, <4>5
    <3>3. CASE ~(requests[i].kind = "tick" /\ requests[i].at = "sent" /\ requests[i].settled)
      BY <3>1, <3>3
    <3> QED BY <3>2, <3>3
  <2> QED BY <2>2, <2>3
<1>3. CASE RefetchOnReconnect \/ RefetchFails
  <2>1. UNCHANGED <<requests, issueOnServer>> /\ (Calm' => Calm)
    BY <1>3, MishapFacts DEF RefetchOnReconnect, RefetchFails, Mishaps
  <2> QED BY <2>1, <1>b DEF Requests
<1>4. ASSUME NEW f \in Fields, NEW v \in Values(f), StrangerEdits(f, v) PROVE Honest(i)'
  <2>1. UNCHANGED requests /\ ~Calm'
    BY <1>4, MishapFacts DEF StrangerEdits, Mishaps
  <2> QED BY <2>1, <1>b DEF Requests
<1>5. CASE UNCHANGED <<issueOnServer, requests, mishaps>>
  BY <1>5, <1>b DEF Requests, Calm
<1> QED
  BY <1>1, <1>2, <1>3, <1>4, <1>5
  DEF EditNext, OpenForm, CancelForm, TypeInForm, AnswerRefetch, RefetchArrives

LEMMA EditStepInv == EditInv /\ EditNext => EditInv'
BY EditTypesStep, FormHonestStep, CopyFollowsStep, TickHonestStep DEF EditInv

LEMMA EditRestInv == EditInv /\ UNCHANGED editVars => EditInv'
BY DEF EditInv, EditTypes, FormHonest, CopyFollows, TickHonest, Calm, Unanswered, Requests, editVars

\* A change gets applied only by the server's writing it.
LEMMA PatchedBy ==
  ASSUME EditTypes, EditNext, NEW i \in Requests, Patched(i)
  PROVE  ServerPatches(i)
<1>1. CASE SaveForm \/ (\E v \in Texts : PatchPriority(v))
           \/ (\E b \in Boxes, checked \in BOOLEAN : ToggleTask(b, checked))
  <2>1. \A j \in Requests : requests'[j] = requests[j]
    BY <1>1, Sends, SendFacts
  <2> QED BY <2>1 DEF Patched
<1>2. ASSUME NEW k \in Requests, ServerPatches(k) \/ ServerRefuses(k) \/ ChangeAnswered(k) \/ AnswerLost(k)
      PROVE  ServerPatches(i)
  <2>1. k = i
    BY <1>2, Overs DEF Patched
  <2>2. ~ServerRefuses(i)
    <3>1. SUFFICES ASSUME ServerRefuses(i) PROVE FALSE
      OBVIOUS
    <3>2. requests' = [requests EXCEPT ![i] = Over(i, "answered")]
      BY <3>1 DEF ServerRefuses
    <3>3. requests'[i].at = "answered"
      BY <3>2, OverFacts
    <3> QED BY <3>3 DEF Patched
  <2>3. ~ChangeAnswered(i) /\ ~AnswerLost(i)
    BY DEF Patched, ChangeAnswered, AnswerLost
  <2> QED BY <1>2, <2>1, <2>2, <2>3
<1>3. CASE UNCHANGED requests
  BY <1>3 DEF Patched
<1> QED
  BY <1>1, <1>2, <1>3
  DEF EditNext, OpenForm, CancelForm, TypeInForm, StrangerEdits, AnswerRefetch, RefetchArrives, RefetchFails,
      RefetchOnReconnect

\* What is written is what was sent.
LEMMA WrittenFields ==
  ASSUME EditTypes, NEW i \in Requests, ServerPatches(i)
  PROVE  Written \subseteq DOMAIN requests[i].fields
<1>1. \A f \in Fields : f \notin DOMAIN requests[i].fields => issueOnServer'[f] = issueOnServer[f]
  BY DEF ServerPatches
<1> QED BY <1>1 DEF Written

\* The steps of SaveSparesUntouched and SettledTickIsAlone.
SparesUntouched ==
  \A i \in Requests : Patched(i) /\ requests[i].kind = "save" =>
    Written \subseteq requests[i].about \cup requests[i].replaced

TickAlone ==
  \A i \in Requests :
    (/\ Patched(i) /\ requests[i].kind = "tick" /\ requests[i].settled
     /\ mishaps \subseteq {"reconnection"}
     /\ \A j \in Requests : j > i => requests[j].at = "sent")
    => \A b \in Boxes \ requests[i].about : (b \in issueOnServer'.done) = (b \in issueOnServer.done)

LEMMA SparesStep == EditInv /\ EditNext => SparesUntouched
<1> SUFFICES ASSUME EditInv, EditNext, NEW i \in Requests, Patched(i), requests[i].kind = "save"
             PROVE  Written \subseteq requests[i].about \cup requests[i].replaced
  BY DEF SparesUntouched
<1>1. Written \subseteq DOMAIN requests[i].fields
  BY PatchedBy, WrittenFields DEF EditInv
<1>2. DOMAIN requests[i].fields \subseteq requests[i].about \cup requests[i].replaced
  BY DEF EditInv, FormHonest, Patched
<1> QED BY <1>1, <1>2

LEMMA TickStep == EditInv /\ EditNext => TickAlone
<1> SUFFICES ASSUME EditInv, EditNext, NEW i \in Requests, Patched(i), requests[i].kind = "tick",
                    requests[i].settled, Calm, \A j \in Requests : j > i => requests[j].at = "sent",
                    NEW b \in Boxes \ requests[i].about
             PROVE  (b \in issueOnServer'.done) = (b \in issueOnServer.done)
  BY DEF TickAlone, Calm
<1>1. ServerPatches(i) /\ requests[i].at = "sent"
  BY PatchedBy DEF EditInv, Patched
<1>2. /\ DOMAIN requests[i].fields = {"done"}
      /\ (b \in requests[i].fields["done"]) = (b \in issueOnServer.done)
  BY <1>1 DEF EditInv, TickHonest
<1>3. issueOnServer' = [f \in Fields |-> IF f \in DOMAIN requests[i].fields THEN requests[i].fields[f]
                                         ELSE issueOnServer[f]]
  BY <1>1 DEF ServerPatches
<1>4. issueOnServer'["done"] = requests[i].fields["done"]
  BY <1>2, <1>3 DEF Fields
<1> QED BY <1>2, <1>4

-----------------------------------------------------------------------------
\* A page that stands still keeps its invariant.
LEMMA PagesAtRest ==
  /\ BoardInv /\ UNCHANGED boardVars => BoardInv'
  /\ QuietInv /\ UNCHANGED boardVars => QuietInv'
  /\ EditInv /\ UNCHANGED editVars => EditInv'
  /\ FieldsInv /\ UNCHANGED fieldsVars => FieldsInv'
<1>1. FieldsInv /\ UNCHANGED fieldsVars => FieldsInv'
  BY DEF FieldsInv, FieldsTypeOK, CopyHonest, fieldsVars
<1>2. QuietInv /\ UNCHANGED boardVars => QuietInv'
  BY QuietRest DEF boardVars
<1> QED BY <1>1, <1>2, BoardRestInv, EditRestInv

IInv == page \in Pages /\ BoardInv /\ QuietInv /\ EditInv /\ FieldsInv

LEMMA InitIInv == Init => IInv
BY BoardInitInv, QuietInit, EditInitInv, FieldsInitInv DEF Init, InitOn, IInv

LEMMA NextIInv == IInv /\ [Next]_vars => IInv'
<1> SUFFICES ASSUME IInv, [Next]_vars PROVE IInv'
  OBVIOUS
<1> USE DEF IInv
<1>1. CASE page = "board" /\ BoardNext /\ UNCHANGED <<page, editVars, fieldsVars>>
  BY <1>1, BoardStepInv, QuietStep, PagesAtRest
<1>2. CASE page = "issue" /\ EditNext /\ UNCHANGED <<page, boardVars, fieldsVars>>
  BY <1>2, EditStepInv, PagesAtRest
<1>3. CASE page = "fields" /\ FieldsNext /\ UNCHANGED <<page, boardVars, editVars>>
  BY <1>3, FieldsStepInv, PagesAtRest
<1>4. CASE UNCHANGED vars
  BY <1>4, PagesAtRest DEF vars
<1> QED BY <1>1, <1>2, <1>3, <1>4 DEF Next

-----------------------------------------------------------------------------
\* The variables of the three pages keep their types: every rank a race of drops leaves is
\* made of the alphabet's letters, every page's order is an order, every change sets fields.
THEOREM EditsTypeCorrect == Spec => []TypeOK
<1>1. EditInv => EditTypeOK
  <2> SUFFICES ASSUME EditInv PROVE EditTypeOK
    OBVIOUS
  <2>1. \A i \in Requests : requests[i].fields \in Patches
    BY RequestFacts DEF EditInv, EditTypes, Changes
  <2>2. \A g \in Patches : DOMAIN g \subseteq Fields
    BY DEF Patches
  <2> QED BY <2>1, <2>2 DEF EditInv, EditTypes, EditTypeOK, Forms
<1>2. IInv => TypeOK
  BY <1>1, BoardInvTypes DEF IInv, TypeOK, FieldsInv
<1> QED BY <1>2, InitIInv, NextIInv, PTL DEF Spec

\* Whatever drags and races made of the ranks of a board of any size, in any alphabet and of
\* any length, a rank fits before, after and between them: ordering never comes to an end.
THEOREM RanksLeaveRoom == Spec => []RankBetweenFits
<1>1. IInv => RankBetweenFits
  BY BoardInvTypes DEF IInv
<1> QED BY <1>1, InitIInv, NextIInv, PTL DEF Spec

\* On a board of any number of cards: a card dropped on a page that was up to date, from below
\* or from another column, into a column that is ordered, lands between the two cards seen on
\* either side of the drop if no other drop met it, in whatever order its own two requests are
\* served.
THEOREM DropsLandInOrder == Spec => []DropLandsInOrder
<1>1. IInv => DropLandsInOrder
  BY QuietLands DEF IInv
<1> QED BY <1>1, InitIInv, NextIInv, PTL DEF Spec

\* Saving the edit form writes no field that was neither typed in nor replaced under it.
THEOREM SavesSpareUntouched == Spec => SaveSparesUntouched
<1>1. IInv /\ [Next]_vars => [SparesUntouched]_editVars
  <2> SUFFICES ASSUME IInv, [Next]_vars, ~UNCHANGED editVars PROVE SparesUntouched
    OBVIOUS
  <2>1. EditNext
    BY DEF Next, vars
  <2> QED BY <2>1, SparesStep DEF IInv
<1>2. [][SparesUntouched]_editVars => SaveSparesUntouched
  BY PTL DEF SaveSparesUntouched, SparesUntouched
<1> QED BY <1>1, <1>2, InitIInv, NextIInv, PTL DEF Spec

\* On an issue of any number of boxes, after any number of changes: a box ticked on a settled
\* page changes that box alone, as long as nobody else writes, no refetch fails, no answer is
\* lost and no later change overtakes it.
THEOREM TicksAreAlone == Spec => SettledTickIsAlone
<1>1. IInv /\ [Next]_vars => [TickAlone]_editVars
  <2> SUFFICES ASSUME IInv, [Next]_vars, ~UNCHANGED editVars PROVE TickAlone
    OBVIOUS
  <2>1. EditNext
    BY DEF Next, vars
  <2> QED BY <2>1, TickStep DEF IInv
<1>2. [][TickAlone]_editVars => SettledTickIsAlone
  BY PTL DEF SettledTickIsAlone, TickAlone
<1> QED BY <1>1, <1>2, InitIInv, NextIInv, PTL DEF Spec

\* Saving the custom fields changes only what was typed, or written by others after the copy
\* on show was answered.
THEOREM SavesSpareSeen == Spec => SaveSparesSeen
<1>1. IInv /\ [Next]_vars => [SparesSeen]_fieldsVars
  <2> SUFFICES ASSUME IInv, [Next]_vars, ~UNCHANGED fieldsVars PROVE SparesSeen
    OBVIOUS
  <2>1. FieldsNext
    BY DEF Next, vars
  <2> QED BY <2>1, FieldsStepSpares DEF IInv
<1>2. [][SparesSeen]_fieldsVars => SaveSparesSeen
  BY PTL DEF SaveSparesSeen, SparesSeen
<1> QED BY <1>1, <1>2, InitIInv, NextIInv, PTL DEF Spec
=============================================================================

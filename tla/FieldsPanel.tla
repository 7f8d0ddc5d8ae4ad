---------------------------- MODULE FieldsPanel ----------------------------
(***************************************************************************)
(* The custom fields of an issue (features/issues/CustomFields.tsx): a      *)
(* draft of all of them, seeded again whenever the values on show change,   *)
(* edited in place and sent whole, while others save theirs.                *)
(***************************************************************************)
EXTENDS Naturals

CONSTANTS
  FieldKeys,
  FieldValues,
  MaxSaves,        \* bound: saves from this page
  MaxIncidents     \* bound: others' saves, reconnections, failed refetches and lost answers

ASSUME FieldsPanelAssumption == FieldValues # {} /\ MaxSaves \in Nat /\ MaxIncidents \in Nat

VARIABLES
  valuesOnServer,
  valuesShown,      \* the copy on show, and the fields written since it was answered
  valuesFetch,      \* its refetch, and once answered the same
  fieldsDraft,      \* the draft; the fields typed in since it was seeded; whether it is open
  fieldsSave,       \* the save under way, with what the page had typed and missed at the click
  saves, incidents

fieldsVars == <<valuesOnServer, valuesShown, valuesFetch, fieldsDraft, fieldsSave, saves, incidents>>

AllValues == [FieldKeys -> FieldValues]
Copies == [values : AllValues, missed : SUBSET FieldKeys]

FieldsTypeOK ==
  /\ valuesOnServer \in AllValues
  /\ valuesShown \in Copies
  /\ valuesFetch \in [at : {"idle", "asked", "answered"}, copy : Copies]
  /\ fieldsDraft \in [values : AllValues, typed : SUBSET FieldKeys, open : BOOLEAN]
  /\ fieldsSave \in [at : {"none", "sent", "applied"}, values : AllValues, typed : SUBSET FieldKeys,
                      missed : SUBSET FieldKeys]
  /\ saves \in 0..MaxSaves /\ incidents \in 0..MaxIncidents

BlankValues == [k \in FieldKeys |-> CHOOSE v \in FieldValues : TRUE]
BlankCopy == [values |-> BlankValues, missed |-> {}]
NoValuesFetch == [at |-> "idle", copy |-> BlankCopy]
NoFieldsSave == [at |-> "none", values |-> BlankValues, typed |-> {}, missed |-> {}]

FieldsInit ==
  /\ valuesOnServer = BlankValues
  /\ valuesShown = BlankCopy
  /\ valuesFetch = NoValuesFetch
  /\ fieldsDraft = [values |-> BlankValues, typed |-> {}, open |-> FALSE]
  /\ fieldsSave = NoFieldsSave
  /\ saves = 0 /\ incidents = 0

-----------------------------------------------------------------------------
Incident == incidents < MaxIncidents /\ incidents' = incidents + 1

\* Edit, and Cancel, which leaves the draft as it is.
ToggleEditing ==
  /\ fieldsDraft' = [fieldsDraft EXCEPT !.open = ~@]
  /\ UNCHANGED <<valuesOnServer, valuesShown, valuesFetch, fieldsSave, saves, incidents>>

TypeInField(k, v) ==
  /\ fieldsDraft.open /\ v # fieldsDraft.values[k]
  /\ fieldsDraft' = [fieldsDraft EXCEPT !.values[k] = v, !.typed = @ \cup {k}]
  /\ UNCHANGED <<valuesOnServer, valuesShown, valuesFetch, fieldsSave, saves, incidents>>

\* Save fields: the whole draft.
SaveFields ==
  /\ fieldsDraft.open /\ fieldsSave.at = "none"
  /\ saves < MaxSaves /\ saves' = saves + 1
  /\ fieldsSave' = [at |-> "sent", values |-> fieldsDraft.values, typed |-> fieldsDraft.typed,
                    missed |-> valuesShown.missed]
  /\ UNCHANGED <<valuesOnServer, valuesShown, valuesFetch, fieldsDraft, incidents>>

\* The server writes every field it is sent, in one transaction; copies taken before miss
\* the fields that changed.
WriteValues(values) ==
  LET changed == {k \in FieldKeys : values[k] # valuesOnServer[k]} IN
  /\ valuesOnServer' = values
  /\ valuesShown' = [valuesShown EXCEPT !.missed = @ \cup changed]
  /\ valuesFetch' = IF valuesFetch.at = "answered"
                    THEN [valuesFetch EXCEPT !.copy.missed = @ \cup changed] ELSE valuesFetch

SetIssueFieldValues ==
  /\ fieldsSave.at = "sent"
  /\ WriteValues(fieldsSave.values)
  /\ fieldsSave' = [NoFieldsSave EXCEPT !.at = "applied"]
  /\ UNCHANGED <<fieldsDraft, saves, incidents>>

RefuseFields ==
  /\ fieldsSave.at = "sent"
  /\ fieldsSave' = NoFieldsSave
  /\ UNCHANGED <<valuesOnServer, valuesShown, valuesFetch, fieldsDraft, saves, incidents>>

\* Somebody saves his own draft.
OthersSaveFields(values) ==
  /\ Incident /\ values # valuesOnServer
  /\ WriteValues(values)
  /\ fieldsSave' = IF fieldsSave.at = "sent"
                   THEN [fieldsSave EXCEPT !.missed = @ \cup {k \in FieldKeys : values[k] # valuesOnServer[k]}]
                   ELSE fieldsSave
  /\ UNCHANGED <<fieldsDraft, saves>>

\* The save is answered: the editor closes, whoever opened it since, and the values are
\* fetched again.
FieldsSaved ==
  /\ fieldsSave.at = "applied"
  /\ fieldsSave' = NoFieldsSave
  /\ fieldsDraft' = [fieldsDraft EXCEPT !.open = FALSE]
  /\ valuesFetch' = [NoValuesFetch EXCEPT !.at = "asked"]
  /\ UNCHANGED <<valuesOnServer, valuesShown, saves, incidents>>

\* The answer to a save the server made is lost: the editor stays open on its draft, and
\* nothing is fetched.
FieldsAnswerLost ==
  /\ fieldsSave.at = "applied" /\ Incident
  /\ fieldsSave' = NoFieldsSave
  /\ UNCHANGED <<valuesOnServer, valuesShown, valuesFetch, fieldsDraft, saves>>

AnswerValues ==
  /\ valuesFetch.at = "asked"
  /\ valuesFetch' = [at |-> "answered", copy |-> [values |-> valuesOnServer, missed |-> {}]]
  /\ UNCHANGED <<valuesOnServer, valuesShown, fieldsDraft, fieldsSave, saves, incidents>>

\* Fault: an editor that is open keeps its draft.
SeededDraft_WhenClosed(values) ==
  IF values = valuesShown.values \/ fieldsDraft.open THEN fieldsDraft
  ELSE [fieldsDraft EXCEPT !.values = values, !.typed = {}]

\* The effect: values that differ from those on show replace the draft, whatever was typed.
SeededDraft(values) ==
  IF values = valuesShown.values THEN fieldsDraft
  ELSE [fieldsDraft EXCEPT !.values = values, !.typed = {}]

ValuesArrive ==
  /\ valuesFetch.at = "answered"
  /\ valuesShown' = valuesFetch.copy
  /\ valuesFetch' = NoValuesFetch
  /\ fieldsDraft' = SeededDraft(valuesFetch.copy.values)
  /\ UNCHANGED <<valuesOnServer, fieldsSave, saves, incidents>>

ValuesFail ==
  /\ valuesFetch.at # "idle" /\ Incident
  /\ valuesFetch' = NoValuesFetch
  /\ UNCHANGED <<valuesOnServer, valuesShown, fieldsDraft, fieldsSave, saves>>

\* The browser is back online, or the issue is opened again.
RefetchValues ==
  /\ valuesFetch.at = "idle" /\ Incident
  /\ valuesFetch' = [NoValuesFetch EXCEPT !.at = "asked"]
  /\ UNCHANGED <<valuesOnServer, valuesShown, fieldsDraft, fieldsSave, saves>>

FieldsNext ==
  \/ ToggleEditing \/ SaveFields
  \/ \E k \in FieldKeys, v \in FieldValues : TypeInField(k, v)
  \/ SetIssueFieldValues \/ RefuseFields \/ FieldsSaved \/ FieldsAnswerLost
  \/ \E values \in AllValues : OthersSaveFields(values)
  \/ AnswerValues \/ ValuesArrive \/ ValuesFail \/ RefetchValues

-----------------------------------------------------------------------------
\* "so opening the editor never starts from a stale copy of what somebody else already
\* changed" (CustomFields.tsx:186): though all fields are sent, a save changes one that its
\* user left alone only if somebody wrote it after the copy on show was answered.
SaveSparesSeen ==
  [][fieldsSave.at = "sent" /\ fieldsSave'.at = "applied" =>
       {k \in FieldKeys : valuesOnServer'[k] # valuesOnServer[k]} \subseteq fieldsSave.typed \cup fieldsSave.missed]_fieldsVars
=============================================================================

------------------------------ MODULE WebEdits ------------------------------
(***************************************************************************)
(* The three places where a page of the web client writes values computed   *)
(* from a copy that may be old: dragging on the board, editing an issue and *)
(* editing its custom fields.  They share no state: a behaviour is one of   *)
(* a single place, the others standing still.                               *)
(***************************************************************************)
EXTENDS Board, IssueEdit, FieldsPanel

VARIABLE page

vars == <<page, boardVars, editVars, fieldsVars>>

Pages == {"board", "issue", "fields"}

TypeOK == page \in Pages /\ BoardTypeOK /\ EditTypeOK /\ FieldsTypeOK

InitOn(pages) ==
  /\ page \in pages
  /\ BoardInit /\ EditInit /\ FieldsInit
  /\ page # "board" => /\ \A c \in Cards : rankOf[c] = NoRank
                       /\ columnOf = CHOOSE f \in [Cards -> Columns] : TRUE

Init == InitOn(Pages)

Next ==
  \/ page = "board" /\ BoardNext /\ UNCHANGED <<page, editVars, fieldsVars>>
  \/ page = "issue" /\ EditNext /\ UNCHANGED <<page, boardVars, fieldsVars>>
  \/ page = "fields" /\ FieldsNext /\ UNCHANGED <<page, boardVars, editVars>>

Spec == Init /\ [][Next]_vars
=============================================================================

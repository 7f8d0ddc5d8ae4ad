------------------------------ MODULE WebParts ------------------------------
(***************************************************************************)
(* The parts of the web client that run on their own: the comment composer, *)
(* the list's filter, the choice of the project, the board's loading loop   *)
(* and the session.  They share no state: a behaviour is one of a single    *)
(* part, the others standing still.                                         *)
(***************************************************************************)
EXTENDS Composer, ListView, ProjectChoice, BoardLoad, Session

VARIABLE part

vars == <<part, composerVars, listVars, choiceVars, loadVars, sessionVars>>

Parts == {"composer", "list", "choice", "load", "session"}

TypeOK == part \in Parts /\ ComposerTypeOK /\ ListTypeOK /\ ChoiceTypeOK /\ LoadTypeOK /\ SessionTypeOK

\* Only the list starts in more than one way.
Init ==
  /\ part \in Parts
  /\ ComposerInit /\ ListInit /\ ChoiceInit /\ LoadInit /\ SessionInit
  /\ part # "list" => ~linked

InComposer(step) == part = "composer" /\ step /\ UNCHANGED <<part, listVars, choiceVars, loadVars, sessionVars>>
InList(step) == part = "list" /\ step /\ UNCHANGED <<part, composerVars, choiceVars, loadVars, sessionVars>>
InChoice(step) == part = "choice" /\ step /\ UNCHANGED <<part, composerVars, listVars, loadVars, sessionVars>>
InLoad(step) == part = "load" /\ step /\ UNCHANGED <<part, composerVars, listVars, choiceVars, sessionVars>>
InSession(step) == part = "session" /\ step /\ UNCHANGED <<part, composerVars, listVars, choiceVars, loadVars>>

Next ==
  \/ InComposer(ComposerNext)
  \/ InList(ListNext)
  \/ InChoice(ChoiceNext)
  \/ InLoad(LoadNext)
  \/ InSession(SessionNext)

\* Uploads end, requests are answered or fail, the badge's interval fires and the access
\* cookie expires; nothing else is promised.
Fairness ==
  /\ WF_vars(InComposer(UploadStep))
  /\ WF_vars(InLoad(PageArrives \/ PageFails))
  /\ \A r \in Requesters : WF_vars(InSession(SessionStepOf(r)))
  /\ WF_vars(InSession(Poll))
  /\ WF_vars(InSession(AccessExpires))

Spec == Init /\ [][Next]_vars /\ Fairness

\* The loop of Board.tsx:46-72 ends, and a board none of whose further pages failed is then
\* shown whole (or, when even its first did, not at all), however refetches and pages took each
\* other's place.
BoardLoads == part = "load" => <>[]LoadedWhole
=============================================================================

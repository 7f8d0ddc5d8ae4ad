------------------------------ MODULE Composer ------------------------------
(***************************************************************************)
(* Writing a comment (IssueDetail.tsx): text is typed while pasted images   *)
(* upload.  Each image leaves a placeholder that carries its file name, and *)
(* whoever finishes replaces the first placeholder of that name; several    *)
(* pastes upload side by side, the files of one paste in turn.              *)
(***************************************************************************)
EXTENDS Naturals, Sequences, SequencesExt

CONSTANTS
  FileNames,    \* names of pasted files; a screenshot in the clipboard has always the same
  MaxMarks,     \* bound: the marks a draft holds
  MaxPastes     \* bound: pastes, and files in one

ASSUME ComposerAssumption == MaxMarks \in Nat /\ MaxPastes \in Nat

VARIABLES
  draft,        \* the text: runs of typing, placeholders, images, notes of a failed upload
  pastes,       \* for each paste, the files it has yet to upload, the first under way
  posting       \* the comment under way to the server

composerVars == <<draft, pastes, posting>>

Mark(kind, name) == [kind |-> kind, name |-> name]
Typing == Mark("typing", "")
Placeholder(name) == Mark("placeholder", name)

Kinds == {"typing", "placeholder", "image", "failed"}
Marks == [kind : Kinds, name : FileNames \cup {""}]

ComposerTypeOK ==
  /\ draft \in Seq(Marks)
  /\ \A p \in DOMAIN pastes : pastes[p] \in Seq(FileNames)
  /\ posting \in BOOLEAN

ComposerInit == draft = <<>> /\ pastes = <<>> /\ posting = FALSE

-----------------------------------------------------------------------------
InsertMark(s, at, mark) == SubSeq(s, 1, at) \o <<mark>> \o SubSeq(s, at + 1, Len(s))

\* Typing anywhere, and erasing anything, a placeholder included.
Type(at) ==
  /\ Len(draft) < MaxMarks /\ at \in 0..Len(draft)
  /\ draft' = InsertMark(draft, at, Typing)
  /\ UNCHANGED <<pastes, posting>>

Erase(at) ==
  /\ at \in DOMAIN draft
  /\ draft' = RemoveAt(draft, at)
  /\ UNCHANGED <<pastes, posting>>

\* onPaste and onDrop: the first file's placeholder goes in at the caret.
Paste(files, caret) ==
  /\ Len(pastes) < MaxPastes /\ Len(draft) < MaxMarks
  /\ caret \in 0..Len(draft)
  /\ draft' = InsertMark(draft, caret, Placeholder(files[1]))
  /\ pastes' = Append(pastes, files)
  /\ UNCHANGED posting

\* String.replace: the first occurrence, if there is one.
ReplaceFirst(s, old, new) ==
  IF \E n \in DOMAIN s : s[n] = old THEN ReplaceAt(s, SelectInSeq(s, LAMBDA m : m = old), new) ELSE s

\* Fault: a failed upload leaves its placeholder.
Outcome_Forgotten(name, ok) == IF ok THEN Mark("image", name) ELSE Placeholder(name)

\* What a placeholder turns into.
Outcome(name, ok) == Mark(IF ok THEN "image" ELSE "failed", name)

\* An upload ends, well or badly; the next file of the same paste gets its placeholder, at
\* wherever the caret then is.
UploadEnds(p, ok, caret) ==
  LET name == Head(pastes[p])
      rest == Tail(pastes[p])
      settled == ReplaceFirst(draft, Placeholder(name), Outcome(name, ok))
  IN
  /\ pastes[p] # <<>>
  /\ caret \in IF rest = <<>> THEN {0} ELSE 0..Len(settled)
  /\ draft' = IF rest = <<>> THEN settled ELSE InsertMark(settled, caret, Placeholder(rest[1]))
  /\ pastes' = [pastes EXCEPT ![p] = rest]
  /\ UNCHANGED posting

\* The Comment button sends the draft as it stands, placeholders and all.
Post ==
  /\ draft # <<>> /\ ~posting
  /\ posting' = TRUE
  /\ UNCHANGED <<draft, pastes>>

\* The comment is in: the box is emptied, of what was typed since as well.
Posted ==
  /\ posting
  /\ posting' = FALSE
  /\ draft' = <<>>
  /\ UNCHANGED pastes

PostRefused ==
  /\ posting
  /\ posting' = FALSE
  /\ UNCHANGED <<draft, pastes>>

UploadStep == \E p \in DOMAIN pastes, ok \in BOOLEAN, caret \in 0..Len(draft) : UploadEnds(p, ok, caret)

ComposerNext ==
  \/ \E at \in 0..Len(draft) : Type(at) \/ Erase(at)
  \/ \E caret \in 0..Len(draft), n \in 1..MaxPastes : \E files \in [1..n -> FileNames] : Paste(files, caret)
  \/ UploadStep
  \/ Post \/ Posted \/ PostRefused

-----------------------------------------------------------------------------
Placeholders(name) == {n \in DOMAIN draft : draft[n] = Placeholder(name)}
Uploads(name) == {p \in DOMAIN pastes : pastes[p] # <<>> /\ pastes[p][1] = name}

\* "a failed upload leaves a visible comment rather than silently eating the paragraph"
\* (IssueDetail.tsx:652): a name has no more placeholders than uploads that will replace
\* them, whatever was typed, erased or posted meanwhile and whoever replaced whose.
PlaceholderPerUpload ==
  \A name \in FileNames : Cardinality(Placeholders(name)) <= Cardinality(Uploads(name))

\* So no placeholder stays in the text for good.
PlaceholdersGo == []<>(\A name \in FileNames : Placeholders(name) = {})
=============================================================================

--------------------------- MODULE Composer_proofs ---------------------------
(***************************************************************************)
(* A name has no more placeholders than uploads that will replace them,     *)
(* whatever is pasted, typed, erased and posted and however long the draft. *)
(* Placeholders are counted: three lemmas say how each edit of the draft    *)
(* changes the number of occurrences of a mark.                             *)
(***************************************************************************)
EXTENDS Composer, CountingFacts, SequenceTheorems

-----------------------------------------------------------------------------
\* Where a mark stands in a text.
Occurrences(s, mark) == {n \in DOMAIN s : s[n] = mark}

LEMMA OccurrencesFinite ==
  ASSUME NEW S, NEW s \in Seq(S), NEW mark
  PROVE  IsFiniteSet(Occurrences(s, mark)) /\ Cardinality(Occurrences(s, mark)) \in Nat
<1>1. Len(s) \in Nat /\ DOMAIN s = 1..Len(s)
  BY LenProperties
<1>2. IsFiniteSet(1..Len(s))
  BY <1>1, FS_Interval
<1>3. Occurrences(s, mark) \in SUBSET (1..Len(s))
  BY <1>1 DEF Occurrences
<1>4. IsFiniteSet(Occurrences(s, mark))
  BY <1>2, <1>3, FS_Subset
<1> QED BY <1>4, FS_CardinalityType

\* A mark inserted is one occurrence more of it, and none of any other.
LEMMA InsertOccurrences ==
  ASSUME NEW S, NEW s \in Seq(S), NEW at \in 0..Len(s), NEW new \in S, NEW mark
  PROVE  /\ InsertMark(s, at, new) \in Seq(S)
         /\ Len(InsertMark(s, at, new)) = Len(s) + 1
         /\ Cardinality(Occurrences(InsertMark(s, at, new), mark)) =
              Cardinality(Occurrences(s, mark)) + (IF new = mark THEN 1 ELSE 0)
<1> DEFINE t == InsertMark(s, at, new)
           Old == Occurrences(s, mark)
           Kept == Occurrences(t, mark) \ {at + 1}
           Place(n) == IF n <= at THEN n ELSE n + 1
           f == [n \in Old |-> Place(n)]
<1>1. /\ t \in Seq(S) /\ Len(t) = Len(s) + 1
      /\ \A n \in 1..Len(t) : t[n] = IF n <= at THEN s[n] ELSE IF n = at + 1 THEN new ELSE s[n - 1]
  <2>0. \A i \in 1..Len(s) : s[i] \in S
    BY ElementOfSeq
  <2>1. /\ SubSeq(s, 1, at) \in Seq(S) /\ Len(SubSeq(s, 1, at)) = at
        /\ \A i \in 1..at : SubSeq(s, 1, at)[i] = s[i]
    BY <2>0, SubSeqProperties
  <2>2. /\ SubSeq(s, at + 1, Len(s)) \in Seq(S) /\ Len(SubSeq(s, at + 1, Len(s))) = Len(s) - at
        /\ \A i \in 1..(Len(s) - at) : SubSeq(s, at + 1, Len(s))[i] = s[at + i]
    BY <2>0, SubSeqProperties
  <2>3. <<new>> \in Seq(S) /\ Len(<<new>>) = 1 /\ <<new>>[1] = new
    OBVIOUS
  <2>4. /\ SubSeq(s, 1, at) \o <<new>> \in Seq(S) /\ Len(SubSeq(s, 1, at) \o <<new>>) = at + 1
        /\ \A i \in 1..(at + 1) : (SubSeq(s, 1, at) \o <<new>>)[i] = IF i <= at THEN s[i] ELSE new
    BY <2>1, <2>3, ConcatProperties
  <2> DEFINE A == SubSeq(s, 1, at) \o <<new>>
             B == SubSeq(s, at + 1, Len(s))
  <2>5. t = A \o B
    BY DEF InsertMark
  <2>6. A \in Seq(S) /\ Len(A) = at + 1 /\ B \in Seq(S) /\ Len(B) = Len(s) - at
    BY <2>2, <2>4
  <2>7. /\ t \in Seq(S) /\ Len(t) = Len(A) + Len(B)
        /\ \A i \in 1..(Len(A) + Len(B)) : t[i] = IF i <= Len(A) THEN A[i] ELSE B[i - Len(A)]
    <3> HIDE DEF A, B, t
    <3> QED BY <2>5, <2>6, ConcatProperties
  <2>8. Len(t) = Len(s) + 1
    <3>1. Len(s) \in Nat
      BY LenProperties
    <3> HIDE DEF A, B, t
    <3> QED BY <3>1, <2>6, <2>7
  <2>9. ASSUME NEW n \in 1..Len(t)
        PROVE  t[n] = IF n <= at THEN s[n] ELSE IF n = at + 1 THEN new ELSE s[n - 1]
    <3>1. CASE n <= at + 1
      <4>1. t[n] = A[n]
        <5> HIDE DEF A, B, t
        <5> QED BY <3>1, <2>6, <2>7
      <4> QED BY <3>1, <4>1, <2>4
    <3>2. CASE ~(n <= at + 1)
      <4>1. t[n] = B[n - (at + 1)]
        <5> HIDE DEF A, B, t
        <5> QED BY <3>2, <2>6, <2>7
      <4>2. n - (at + 1) \in 1..(Len(s) - at) /\ at + (n - (at + 1)) = n - 1
        <5> HIDE DEF A, B, t
        <5> QED BY <3>2, <2>8
      <4>3. B[n - (at + 1)] = s[at + (n - (at + 1))]
        BY <4>2, <2>2
      <4>4. t[n] = s[n - 1]
        BY <4>1, <4>2, <4>3
      <4> HIDE DEF A, B, t
      <4> QED BY <3>2, <4>4
    <3> QED BY <3>1, <3>2
  <2> QED BY <2>7, <2>8, <2>9
<1>2. f \in Bijection(Old, Kept)
  <2>1. DOMAIN s = 1..Len(s) /\ DOMAIN t = 1..Len(t)
    BY <1>1, LenProperties
  <2>2. \A n \in Old : Place(n) \in Kept
    BY <1>1, <2>1 DEF Occurrences
  <2>3. \A m \in Kept : \E n \in Old : Place(n) = m
    <3> TAKE m \in Kept
    <3>1. CASE m <= at
      BY <3>1, <1>1, <2>1 DEF Occurrences
    <3>2. CASE ~(m <= at)
      <4>1. m - 1 \in Old /\ Place(m - 1) = m
        BY <3>2, <1>1, <2>1 DEF Occurrences
      <4> QED BY <4>1
    <3> QED BY <3>1, <3>2
  <2>4. \A m, n \in Old : Place(m) = Place(n) => m = n
    BY <2>1 DEF Occurrences
  <2>5. f \in [Old -> Kept]
    BY <2>2
  <2> HIDE DEF Old, Kept
  <2>6. f \in Surjection(Old, Kept)
    BY <2>3, <2>5 DEF Surjection
  <2>7. f \in Injection(Old, Kept)
    BY <2>4, <2>5 DEF Injection, IsInjective
  <2> QED BY <2>6, <2>7 DEF Bijection
<1>3. IsFiniteSet(Kept) /\ Cardinality(Kept) = Cardinality(Old)
  BY <1>2, OccurrencesFinite, FS_Bijection DEF ExistsBijection
<1>4. Occurrences(t, mark) = IF new = mark THEN Kept \cup {at + 1} ELSE Kept
  BY <1>1, LenProperties DEF Occurrences
<1>5. Cardinality(Occurrences(t, mark)) = Cardinality(Old) + (IF new = mark THEN 1 ELSE 0)
  <2>1. at + 1 \notin Kept /\ Cardinality(Kept) \in Nat
    BY <1>3, OccurrencesFinite
  <2> HIDE DEF Kept
  <2>2. Cardinality(Kept \cup {at + 1}) = Cardinality(Kept) + 1
    BY <1>3, <2>1, FS_AddElement
  <2> QED BY <1>3, <1>4, <2>1, <2>2
<1> QED BY <1>1, <1>5

\* Erasing adds no occurrence.
LEMMA RemoveOccurrences ==
  ASSUME NEW S, NEW s \in Seq(S), NEW at \in DOMAIN s, NEW mark
  PROVE  /\ RemoveAt(s, at) \in Seq(S)
         /\ Cardinality(Occurrences(RemoveAt(s, at), mark)) <= Cardinality(Occurrences(s, mark))
<1> DEFINE t == RemoveAt(s, at)
           Place(n) == IF n < at THEN n ELSE n + 1
           f == [n \in Occurrences(t, mark) |-> Place(n)]
<1>0. at \in 1..Len(s) /\ DOMAIN s = 1..Len(s)
  BY LenProperties
<1>1. /\ t \in Seq(S) /\ Len(t) = Len(s) - 1
      /\ \A n \in 1..Len(t) : t[n] = s[Place(n)]
  <2>0. \A i \in 1..Len(s) : s[i] \in S
    BY ElementOfSeq
  <2>1. /\ SubSeq(s, 1, at - 1) \in Seq(S) /\ Len(SubSeq(s, 1, at - 1)) = at - 1
        /\ \A i \in 1..(at - 1) : SubSeq(s, 1, at - 1)[i] = s[i]
    BY <1>0, <2>0, SubSeqProperties
  <2>2. /\ SubSeq(s, at + 1, Len(s)) \in Seq(S) /\ Len(SubSeq(s, at + 1, Len(s))) = Len(s) - at
        /\ \A i \in 1..(Len(s) - at) : SubSeq(s, at + 1, Len(s))[i] = s[at + i]
    BY <1>0, <2>0, SubSeqProperties
  <2> DEFINE A == SubSeq(s, 1, at - 1)
             B == SubSeq(s, at + 1, Len(s))
  <2>5. t = A \o B
    BY DEF RemoveAt
  <2>6. A \in Seq(S) /\ Len(A) = at - 1 /\ B \in Seq(S) /\ Len(B) = Len(s) - at
    BY <2>1, <2>2
  <2>7. /\ t \in Seq(S) /\ Len(t) = Len(A) + Len(B)
        /\ \A i \in 1..(Len(A) + Len(B)) : t[i] = IF i <= Len(A) THEN A[i] ELSE B[i - Len(A)]
    <3> HIDE DEF A, B, t
    <3> QED BY <2>5, <2>6, ConcatProperties
  <2>8. Len(t) = Len(s) - 1
    <3> HIDE DEF A, B, t
    <3> QED BY <1>0, <2>6, <2>7
  <2>9. ASSUME NEW n \in 1..Len(t) PROVE t[n] = s[Place(n)]
    <3>1. CASE n < at
      <4>1. t[n] = A[n]
        <5> HIDE DEF A, B, t
        <5> QED BY <1>0, <3>1, <2>6, <2>7
      <4>2. n \in 1..(at - 1)
        BY <1>0, <3>1
      <4> QED BY <3>1, <4>1, <4>2, <2>1
    <3>2. CASE ~(n < at)
      <4>1. t[n] = B[n - (at - 1)]
        <5> HIDE DEF A, B, t
        <5> QED BY <1>0, <3>2, <2>6, <2>7
      <4>2. n - (at - 1) \in 1..(Len(s) - at) /\ at + (n - (at - 1)) = n + 1
        <5> HIDE DEF A, B, t
        <5> QED BY <1>0, <3>2, <2>8
      <4>3. B[n - (at - 1)] = s[at + (n - (at - 1))]
        BY <4>2, <2>2
      <4>4. t[n] = s[n + 1]
        BY <4>1, <4>2, <4>3
      <4> HIDE DEF A, B, t
      <4> QED BY <3>2, <4>4
    <3> QED BY <3>1, <3>2
  <2> QED BY <2>7, <2>8, <2>9
<1>2. f \in Injection(Occurrences(t, mark), Occurrences(s, mark))
  <2>1. DOMAIN t = 1..Len(t)
    BY <1>1, LenProperties
  <2>2. \A n \in Occurrences(t, mark) : Place(n) \in Occurrences(s, mark)
    BY <1>0, <1>1, <2>1 DEF Occurrences
  <2>3. \A m, n \in Occurrences(t, mark) : Place(m) = Place(n) => m = n
    BY <1>0, <2>1 DEF Occurrences
  <2>4. f \in [Occurrences(t, mark) -> Occurrences(s, mark)]
    BY <2>2
  <2> QED BY <2>3, <2>4 DEF Injection, IsInjective
<1> QED BY <1>1, <1>2, OccurrencesFinite, FS_Injection

\* Replacing the first of a mark by another is one occurrence less, if there was one; of a
\* third mark there are as many as before.
LEMMA ReplaceOccurrences ==
  ASSUME NEW S, NEW s \in Seq(S), NEW old \in S, NEW new \in S, NEW mark \in S, new # mark
  PROVE  /\ ReplaceFirst(s, old, new) \in Seq(S)
         /\ Len(ReplaceFirst(s, old, new)) = Len(s)
         /\ Cardinality(Occurrences(ReplaceFirst(s, old, new), mark)) =
              IF mark = old /\ Occurrences(s, old) # {} THEN Cardinality(Occurrences(s, mark)) - 1
              ELSE Cardinality(Occurrences(s, mark))
<1> DEFINE t == ReplaceFirst(s, old, new)
           I == {i \in 1..Len(s) : s[i] = old}
<1>0. DOMAIN s = 1..Len(s) /\ I = Occurrences(s, old)
  BY LenProperties DEF Occurrences
<1>1. CASE I = {}
  BY <1>0, <1>1 DEF ReplaceFirst, Occurrences
<1>2. CASE I # {}
  <2>1. PICK first \in I : first = SelectInSeq(s, LAMBDA m : m = old)
    <3>1. \E x \in I : \A y \in I : x <= y
      <4>1. I \in SUBSET Nat
        BY LenProperties
      <4> HIDE DEF I
      <4> QED BY <1>2, <4>1, LeastNatural
    <3> QED BY <1>2, <3>1 DEF SelectInSeq, Min
  <2>2. t = [s EXCEPT ![first] = new]
    BY <1>0, <1>2, <2>1 DEF ReplaceFirst, ReplaceAt
  <2>3. t \in Seq(S) /\ Len(t) = Len(s) /\ DOMAIN t = DOMAIN s
    BY <2>1, <2>2, ExceptSeq
  <2>4. Occurrences(t, mark) = IF mark = old THEN Occurrences(s, mark) \ {first} ELSE Occurrences(s, mark)
    BY <1>0, <2>1, <2>2, <2>3 DEF Occurrences
  <2>5. mark = old => first \in Occurrences(s, mark)
    BY <1>0, <2>1 DEF Occurrences
  <2>6. IsFiniteSet(Occurrences(s, mark))
    BY OccurrencesFinite
  <2>7. mark = old => Cardinality(Occurrences(s, mark) \ {first}) = Cardinality(Occurrences(s, mark)) - 1
    BY <2>5, <2>6, FS_RemoveElement
  <2> QED BY <1>0, <1>2, <2>3, <2>4, <2>7
<1> QED BY <1>1, <1>2

-----------------------------------------------------------------------------
LEMMA MarkKinds ==
  /\ Typing \in Marks
  /\ \A name \in FileNames, ok \in BOOLEAN : Placeholder(name) \in Marks /\ Outcome(name, ok) \in Marks
  /\ \A name, other \in FileNames, ok \in BOOLEAN :
       Typing # Placeholder(name) /\ Outcome(other, ok) # Placeholder(name)
  /\ \A name, other \in FileNames : Placeholder(name) = Placeholder(other) => name = other
BY DEF Typing, Placeholder, Outcome, Mark, Marks, Kinds

ComposerInv ==
  /\ ComposerTypeOK
  /\ pastes \in Seq(Seq(FileNames))
  /\ PlaceholderPerUpload

LEMMA ComposerInitInv == ComposerInit => ComposerInv
<1> SUFFICES ASSUME ComposerInit PROVE ComposerInv
  OBVIOUS
<1>1. draft \in Seq(Marks) /\ pastes \in Seq(Seq(FileNames))
  BY EmptySeq DEF ComposerInit
<1>2. posting \in BOOLEAN
  BY DEF ComposerInit
<1>3. DOMAIN pastes = {}
  BY DEF ComposerInit
<1>4. ComposerTypeOK
  BY <1>1, <1>2, <1>3 DEF ComposerTypeOK
<1>5. ASSUME NEW name \in FileNames PROVE Cardinality(Placeholders(name)) <= Cardinality(Uploads(name))
  <2>1. Placeholders(name) = {} /\ Uploads(name) = {}
    BY <1>3 DEF ComposerInit, Placeholders, Uploads
  <2> QED BY <2>1, FS_EmptySet
<1> QED BY <1>1, <1>4, <1>5 DEF ComposerInv, PlaceholderPerUpload

LEMMA UploadsFinite ==
  ASSUME pastes \in Seq(Seq(FileNames)), NEW name
  PROVE  /\ DOMAIN pastes = 1..Len(pastes) /\ Len(pastes) \in Nat
         /\ IsFiniteSet(Uploads(name)) /\ Cardinality(Uploads(name)) \in Nat
<1>1. DOMAIN pastes = 1..Len(pastes) /\ Len(pastes) \in Nat
  BY LenProperties
<1>2. IsFiniteSet(1..Len(pastes)) /\ Uploads(name) \in SUBSET (1..Len(pastes))
  BY <1>1, FS_Interval DEF Uploads
<1>3. IsFiniteSet(Uploads(name))
  BY <1>2, FS_Subset
<1> QED BY <1>1, <1>3, FS_CardinalityType

\* A step that leaves the pastes alone and adds no placeholder.
LEMMA DraftOnly ==
  ASSUME ComposerInv, UNCHANGED pastes, draft' \in Seq(Marks), posting' \in BOOLEAN,
         \A name \in FileNames : Cardinality(Occurrences(draft', Placeholder(name))) <=
                                   Cardinality(Occurrences(draft, Placeholder(name)))
  PROVE  ComposerInv'
<1>1. ComposerTypeOK' /\ (pastes \in Seq(Seq(FileNames)))'
  BY DEF ComposerInv, ComposerTypeOK
<1>2. ASSUME NEW name \in FileNames
      PROVE  Cardinality(Placeholders(name)') <= Cardinality(Uploads(name)')
  <2>1. /\ Placeholders(name) = Occurrences(draft, Placeholder(name))
        /\ Placeholders(name)' = Occurrences(draft', Placeholder(name))
    BY DEF Placeholders, Occurrences
  <2>2. Uploads(name)' = Uploads(name)
    BY DEF Uploads
  <2>3. /\ Cardinality(Placeholders(name)) \in Nat /\ Cardinality(Placeholders(name)') \in Nat
        /\ Cardinality(Uploads(name)) \in Nat
    BY <2>1, OccurrencesFinite, UploadsFinite DEF ComposerInv, ComposerTypeOK
  <2>4. Cardinality(Placeholders(name)) <= Cardinality(Uploads(name))
    BY DEF ComposerInv, PlaceholderPerUpload
  <2> QED BY <2>1, <2>2, <2>3, <2>4
<1> QED BY <1>1, <1>2 DEF ComposerInv, PlaceholderPerUpload

LEMMA PasteStep ==
  ASSUME ComposerInv, NEW caret \in 0..Len(draft), NEW n \in 1..MaxPastes, NEW files \in [1..n -> FileNames],
         Paste(files, caret)
  PROVE  ComposerInv'
<1>1. draft \in Seq(Marks) /\ pastes \in Seq(Seq(FileNames)) /\ posting \in BOOLEAN
  BY DEF ComposerInv, ComposerTypeOK
<1>2. files \in Seq(FileNames) /\ files # <<>> /\ files[1] \in FileNames /\ Len(files) = n
  BY ComposerAssumption
<1>3. /\ draft' = InsertMark(draft, caret, Placeholder(files[1]))
      /\ pastes' = Append(pastes, files) /\ posting' = posting
  BY DEF Paste
<1>4. /\ pastes' \in Seq(Seq(FileNames)) /\ Len(pastes') = Len(pastes) + 1
      /\ \A p \in 1..Len(pastes) : pastes'[p] = pastes[p]
      /\ pastes'[Len(pastes) + 1] = files
  BY <1>1, <1>2, <1>3, AppendProperties
<1>5. DOMAIN pastes = 1..Len(pastes) /\ Len(pastes) \in Nat /\ DOMAIN pastes' = 1..Len(pastes')
  BY <1>1, <1>4, LenProperties
<1>6. draft' \in Seq(Marks)
  BY <1>1, <1>2, <1>3, MarkKinds, InsertOccurrences
<1>7. ASSUME NEW name \in FileNames
      PROVE  Cardinality(Placeholders(name)') <= Cardinality(Uploads(name)')
  <2>1. /\ Placeholders(name) = Occurrences(draft, Placeholder(name))
        /\ Placeholders(name)' = Occurrences(draft', Placeholder(name))
    BY DEF Placeholders, Occurrences
  <2>2. Cardinality(Placeholders(name)') =
          Cardinality(Placeholders(name)) + (IF files[1] = name THEN 1 ELSE 0)
    <3>1. Placeholder(files[1]) = Placeholder(name) <=> files[1] = name
      BY <1>2, MarkKinds
    <3>2. Placeholder(files[1]) \in Marks
      BY <1>2, MarkKinds
    <3>3. Cardinality(Occurrences(InsertMark(draft, caret, Placeholder(files[1])), Placeholder(name))) =
            Cardinality(Occurrences(draft, Placeholder(name)))
              + (IF Placeholder(files[1]) = Placeholder(name) THEN 1 ELSE 0)
      BY <1>1, <3>2, InsertOccurrences
    <3> QED BY <1>3, <2>1, <3>1, <3>3
  <2>3. Uploads(name)' = IF files[1] = name THEN Uploads(name) \cup {Len(pastes) + 1} ELSE Uploads(name)
    BY <1>2, <1>4, <1>5 DEF Uploads
  <2>4. Len(pastes) + 1 \notin Uploads(name)
    BY <1>5 DEF Uploads
  <2>5. IsFiniteSet(Uploads(name)) /\ Cardinality(Uploads(name)) \in Nat /\ Cardinality(Placeholders(name)) \in Nat
    BY <1>1, <2>1, UploadsFinite, OccurrencesFinite
  <2>6. Cardinality(Uploads(name) \cup {Len(pastes) + 1}) = Cardinality(Uploads(name)) + 1
    BY <2>4, <2>5, FS_AddElement
  <2>7. Cardinality(Placeholders(name)) <= Cardinality(Uploads(name))
    BY DEF ComposerInv, PlaceholderPerUpload
  <2> QED BY <2>2, <2>3, <2>5, <2>6, <2>7
<1> QED
  BY <1>1, <1>3, <1>4, <1>5, <1>6, <1>7 DEF ComposerInv, ComposerTypeOK, PlaceholderPerUpload

\* The upload that ends takes one placeholder of its name away, if there is one; the next file
\* of the paste brings its own.
LEMMA UploadEndsStep ==
  ASSUME ComposerInv, NEW p \in DOMAIN pastes, NEW ok \in BOOLEAN, NEW caret \in Nat, UploadEnds(p, ok, caret)
  PROVE  ComposerInv'
<1> DEFINE done == Head(pastes[p])
           rest == Tail(pastes[p])
           settled == ReplaceFirst(draft, Placeholder(done), Outcome(done, ok))
<1>1. draft \in Seq(Marks) /\ pastes \in Seq(Seq(FileNames)) /\ posting \in BOOLEAN
  BY DEF ComposerInv, ComposerTypeOK
<1>2. DOMAIN pastes = 1..Len(pastes) /\ Len(pastes) \in Nat /\ pastes[p] \in Seq(FileNames) /\ pastes[p] # <<>>
  BY <1>1, LenProperties, ElementOfSeq DEF UploadEnds
<1>3. /\ done \in FileNames /\ rest \in Seq(FileNames) /\ pastes[p][1] = done
      /\ rest # <<>> => rest[1] \in FileNames
  <2>1. done \in FileNames /\ rest \in Seq(FileNames) /\ pastes[p][1] = done
    BY <1>2, HeadTailProperties
  <2>2. rest # <<>> => Len(rest) \in Nat \ {0}
    BY <2>1, EmptySeq
  <2> HIDE DEF rest
  <2> QED BY <2>1, <2>2, ElementOfSeq
<1>4. /\ rest # <<>> => caret \in 0..Len(settled)
      /\ draft' = IF rest = <<>> THEN settled ELSE InsertMark(settled, caret, Placeholder(rest[1]))
      /\ pastes' = [pastes EXCEPT ![p] = rest] /\ posting' = posting
  BY DEF UploadEnds
<1> HIDE DEF rest, done
<1>5. /\ Placeholder(done) \in Marks /\ Outcome(done, ok) \in Marks
      /\ rest # <<>> => Placeholder(rest[1]) \in Marks
      /\ \A name \in FileNames : Placeholder(name) \in Marks /\ Outcome(done, ok) # Placeholder(name)
  BY <1>3, MarkKinds
<1>6. /\ pastes' \in Seq(Seq(FileNames)) /\ Len(pastes') = Len(pastes)
      /\ \A q \in DOMAIN pastes : pastes'[q] = IF q = p THEN rest ELSE pastes[q]
  BY <1>1, <1>2, <1>3, <1>4, ExceptSeq
<1>7. DOMAIN pastes' = DOMAIN pastes
  BY <1>2, <1>6, LenProperties
<1>8. settled \in Seq(Marks)
  BY <1>1, <1>3, <1>5, ReplaceOccurrences
<1> HIDE DEF settled
<1>9. draft' \in Seq(Marks)
  BY <1>4, <1>5, <1>8, InsertOccurrences
<1>10. ASSUME NEW name \in FileNames
       PROVE  Cardinality(Placeholders(name)') <= Cardinality(Uploads(name)')
  <2> DEFINE mark == Placeholder(name)
             Left == Uploads(name) \ {p}
  <2>1. /\ Placeholders(name) = Occurrences(draft, mark)
        /\ Placeholders(name)' = Occurrences(draft', mark)
    BY DEF Placeholders, Occurrences
  <2>2. mark \in Marks /\ mark # Outcome(done, ok)
    BY <1>5
  <2>3. Placeholder(done) = mark <=> done = name
    BY <1>3, MarkKinds
  <2>4. rest # <<>> => (Placeholder(rest[1]) = mark <=> rest[1] = name)
    BY <1>3, MarkKinds
  <2> HIDE DEF mark
  <2>5. /\ IsFiniteSet(Uploads(name)) /\ Cardinality(Uploads(name)) \in Nat
        /\ Cardinality(Occurrences(draft, mark)) \in Nat
        /\ Cardinality(Occurrences(settled, mark)) \in Nat
    BY <1>1, <1>8, UploadsFinite, OccurrencesFinite
  <2>6. Cardinality(Occurrences(draft, mark)) <= Cardinality(Uploads(name))
    BY <2>1 DEF ComposerInv, PlaceholderPerUpload
  <2>7. IsFiniteSet(Left) /\ Cardinality(Left) = Cardinality(Uploads(name)) - (IF done = name THEN 1 ELSE 0)
    <3>1. p \in Uploads(name) <=> done = name
      BY <1>2, <1>3 DEF Uploads
    <3> QED BY <2>5, <3>1, FS_RemoveElement
  <2>8. Cardinality(Occurrences(settled, mark)) <= Cardinality(Left)
    <3>1. Cardinality(Occurrences(settled, mark)) =
            IF done = name /\ Occurrences(draft, mark) # {} THEN Cardinality(Occurrences(draft, mark)) - 1
            ELSE Cardinality(Occurrences(draft, mark))
      <4>1. Cardinality(Occurrences(ReplaceFirst(draft, Placeholder(done), Outcome(done, ok)), mark)) =
              IF mark = Placeholder(done) /\ Occurrences(draft, Placeholder(done)) # {}
              THEN Cardinality(Occurrences(draft, mark)) - 1 ELSE Cardinality(Occurrences(draft, mark))
        <5>1. Placeholder(done) \in Marks /\ Outcome(done, ok) \in Marks /\ Outcome(done, ok) # mark /\ mark \in Marks
          BY <1>5, <2>2
        <5> QED BY <1>1, <5>1, ReplaceOccurrences
      <4> QED BY <2>3, <4>1 DEF settled
    <3>2. Occurrences(draft, mark) = {} => Cardinality(Occurrences(draft, mark)) = 0
      BY FS_EmptySet
    <3>3. done = name => 1 <= Cardinality(Uploads(name))
      <4>1. done = name => Uploads(name) # {}
        BY <1>2, <1>3 DEF Uploads
      <4> QED BY <2>5, <4>1, FS_EmptySet
    <3> QED BY <2>5, <2>6, <2>7, <3>1, <3>2, <3>3
  <2>9. CASE rest # <<>> /\ rest[1] = name
    <3>1. Uploads(name)' = Left \cup {p}
      BY <1>6, <1>7, <2>9 DEF Uploads
    <3>2. Cardinality(Left \cup {p}) = Cardinality(Left) + 1
      BY <2>7, FS_AddElement
    <3>3. Cardinality(Occurrences(draft', mark)) = Cardinality(Occurrences(settled, mark)) + 1
      BY <1>4, <1>5, <1>8, <2>4, <2>9, InsertOccurrences
    <3> QED BY <2>1, <2>5, <2>7, <2>8, <3>1, <3>2, <3>3
  <2>10. CASE ~(rest # <<>> /\ rest[1] = name)
    <3>1. Uploads(name)' = Left
      BY <1>6, <1>7, <2>10 DEF Uploads
    <3>2. Cardinality(Occurrences(draft', mark)) = Cardinality(Occurrences(settled, mark))
      <4>1. CASE rest = <<>>
        BY <1>4, <4>1
      <4>2. CASE rest # <<>>
        BY <1>4, <1>5, <1>8, <2>4, <2>5, <2>10, <4>2, InsertOccurrences
      <4> QED BY <4>1, <4>2
    <3> QED BY <2>1, <2>8, <3>1, <3>2
  <2> QED BY <2>9, <2>10
<1>11. ComposerTypeOK'
  BY <1>1, <1>3, <1>4, <1>6, <1>7, <1>9, ElementOfSeq, <1>2 DEF ComposerTypeOK
<1> QED BY <1>6, <1>10, <1>11 DEF ComposerInv, PlaceholderPerUpload

LEMMA ComposerStepInv == ComposerInv /\ ComposerNext => ComposerInv'
<1> SUFFICES ASSUME ComposerInv, ComposerNext PROVE ComposerInv'
  OBVIOUS
<1>1. draft \in Seq(Marks) /\ posting \in BOOLEAN /\ Len(draft) \in Nat
  BY LenProperties DEF ComposerInv, ComposerTypeOK
<1>2. ASSUME NEW name \in FileNames PROVE Cardinality(Occurrences(draft, Placeholder(name))) \in Nat
  BY <1>1, OccurrencesFinite
<1>3. ASSUME NEW at \in 0..Len(draft), Type(at) PROVE ComposerInv'
  <2>1. draft' = InsertMark(draft, at, Typing) /\ UNCHANGED <<pastes, posting>>
    BY <1>3 DEF Type
  <2>2. draft' \in Seq(Marks)
    BY <1>1, <2>1, MarkKinds, InsertOccurrences
  <2>3. ASSUME NEW name \in FileNames
        PROVE  Cardinality(Occurrences(draft', Placeholder(name))) <= Cardinality(Occurrences(draft, Placeholder(name)))
    <3>1. Typing \in Marks /\ Typing # Placeholder(name)
      BY MarkKinds
    <3>2. Cardinality(Occurrences(draft', Placeholder(name))) = Cardinality(Occurrences(draft, Placeholder(name))) + 0
      BY <1>1, <2>1, <3>1, InsertOccurrences
    <3> QED BY <1>2, <3>2
  <2> QED BY <1>1, <2>1, <2>2, <2>3, DraftOnly
<1>4. ASSUME NEW at \in 0..Len(draft), Erase(at) PROVE ComposerInv'
  <2>1. at \in DOMAIN draft /\ draft' = RemoveAt(draft, at) /\ UNCHANGED <<pastes, posting>>
    BY <1>4 DEF Erase
  <2> QED BY <1>1, <2>1, RemoveOccurrences, DraftOnly
<1>5. ASSUME NEW caret \in 0..Len(draft), NEW n \in 1..MaxPastes, NEW files \in [1..n -> FileNames],
             Paste(files, caret)
      PROVE  ComposerInv'
  BY <1>5, PasteStep
<1>6. CASE UploadStep
  <2>1. PICK p \in DOMAIN pastes, ok \in BOOLEAN, caret \in 0..Len(draft) : UploadEnds(p, ok, caret)
    BY <1>6 DEF UploadStep
  <2>2. caret \in Nat
    OBVIOUS
  <2> QED BY <2>1, <2>2, UploadEndsStep
<1>7. CASE Post \/ PostRefused
  <2>1. UNCHANGED <<draft, pastes>> /\ posting' \in BOOLEAN
    BY <1>7 DEF Post, PostRefused
  <2> QED BY <1>1, <1>2, <2>1, DraftOnly
<1>8. CASE Posted
  <2>1. draft' = <<>> /\ UNCHANGED pastes /\ posting' \in BOOLEAN
    BY <1>8 DEF Posted
  <2>2. draft' \in Seq(Marks)
    BY <2>1, EmptySeq
  <2>3. ASSUME NEW name \in FileNames
        PROVE  Cardinality(Occurrences(draft', Placeholder(name))) <= Cardinality(Occurrences(draft, Placeholder(name)))
    <3>1. Occurrences(draft', Placeholder(name)) = {}
      BY <2>1 DEF Occurrences
    <3> QED BY <1>2, <3>1, FS_EmptySet
  <2> QED BY <2>1, <2>2, <2>3, DraftOnly
<1> QED BY <1>3, <1>4, <1>5, <1>6, <1>7, <1>8 DEF ComposerNext
=============================================================================

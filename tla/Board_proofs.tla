----------------------------- MODULE Board_proofs -----------------------------
(***************************************************************************)
(* Between any two ranks of any board another fits.  First the order of     *)
(* ranks, then the keys rankAfter, rankBefore and rankMid write, for every  *)
(* alphabet and every length; then the rows of cards, whose n-th is found   *)
(* by counting; then the invariant of the board, which also says that every *)
(* key a drop has read is a rank the board can hold; last, that on a column *)
(* in order a card lands in the gap it was dropped into.                    *)
(***************************************************************************)
EXTENDS Board, CountingFacts, SequenceTheorems

-----------------------------------------------------------------------------
\* The strings over the alphabet and its floor.
Words == Seq(0..Letters)

\* What is known of a word: its length, its letters, and -1 past its end.
LEMMA WordFacts ==
  ASSUME NEW s \in Words
  PROVE  /\ Len(s) \in Nat /\ DOMAIN s = 1..Len(s)
         /\ \A i \in 1..Len(s) : s[i] \in 0..Letters /\ s[i] \in Nat
         /\ \A i \in Nat : i > Len(s) => byteAt(s, i, -1) = -1
         /\ \A i \in 1..Len(s) : byteAt(s, i, -1) = s[i]
         /\ \A i \in Nat : i # 0 => byteAt(s, i, -1) \in Int
<1>1. /\ Len(s) \in Nat /\ DOMAIN s = 1..Len(s) /\ \A i \in 1..Len(s) : s[i] \in 0..Letters
  BY LenProperties, ElementOfSeq DEF Words
<1>2. \A i \in 1..Len(s) : s[i] \in 0..Letters /\ s[i] \in Nat
  BY <1>1
<1>3. \A i \in Nat : i > Len(s) => byteAt(s, i, -1) = -1
  BY <1>1 DEF byteAt
<1>4. \A i \in 1..Len(s) : byteAt(s, i, -1) = s[i]
  BY <1>1 DEF byteAt
<1>5. ASSUME NEW i \in Nat, i # 0 PROVE byteAt(s, i, -1) \in Int
  <2>1. i > Len(s) \/ i \in 1..Len(s)
    BY <1>1, <1>5
  <2> QED BY <1>2, <1>3, <1>4, <2>1
<1> QED BY <1>1, <1>2, <1>3, <1>4, <1>5

\* What sorts before what: they agree up to a place where the one is lower or has ended.
LEMMA SortsBeforeAt ==
  ASSUME NEW s \in Words, NEW t \in Words
  PROVE  /\ \A i \in 1..Len(t) : (\A j \in 1..(i - 1) : byteAt(s, j, -1) = byteAt(t, j, -1))
                                 /\ byteAt(s, i, -1) < byteAt(t, i, -1) => SortsBefore(s, t)
         /\ SortsBefore(s, t) => \E i \in 1..Len(t) : (\A j \in 1..(i - 1) : byteAt(s, j, -1) = byteAt(t, j, -1))
                                                     /\ byteAt(s, i, -1) < byteAt(t, i, -1)
<1>1. \A j \in 1..Len(t) : byteAt(t, j, -1) = t[j]
  BY WordFacts
<1>2. Len(t) \in Nat
  BY WordFacts
<1>3. ASSUME NEW i \in 1..Len(t)
      PROVE  /\ byteAt(t, i, -1) = t[i]
             /\ \A j \in 1..(i - 1) : byteAt(t, j, -1) = t[j]
  BY <1>1, <1>2
<1> QED BY <1>3 DEF SortsBefore

\* Words are in a row: of two different ones, one sorts before the other.
LEMMA SortsBeforeOrder ==
  /\ \A s \in Words : ~SortsBefore(s, s)
  /\ \A s, t, u \in Words : SortsBefore(s, t) /\ SortsBefore(t, u) => SortsBefore(s, u)
  /\ \A s, t \in Words : s = t \/ SortsBefore(s, t) \/ SortsBefore(t, s)
<1>1. ASSUME NEW s \in Words, SortsBefore(s, s) PROVE FALSE
  <2>1. PICK i \in 1..Len(s) : byteAt(s, i, -1) < byteAt(s, i, -1)
    BY <1>1, SortsBeforeAt
  <2> QED BY <2>1, WordFacts
<1>2. ASSUME NEW s \in Words, NEW t \in Words, NEW u \in Words, SortsBefore(s, t), SortsBefore(t, u)
      PROVE  SortsBefore(s, u)
  <2>1. PICK i \in 1..Len(t) : /\ \A j \in 1..(i - 1) : byteAt(s, j, -1) = byteAt(t, j, -1)
                               /\ byteAt(s, i, -1) < byteAt(t, i, -1)
    BY <1>2, SortsBeforeAt
  <2>2. PICK k \in 1..Len(u) : /\ \A j \in 1..(k - 1) : byteAt(t, j, -1) = byteAt(u, j, -1)
                               /\ byteAt(t, k, -1) < byteAt(u, k, -1)
    BY <1>2, SortsBeforeAt
  <2>3. Len(t) \in Nat /\ Len(u) \in Nat /\ i \in Nat /\ k \in Nat /\ i >= 1 /\ k >= 1 /\ k <= Len(u)
    BY WordFacts
  <2>a. byteAt(s, i, -1) \in Int /\ byteAt(t, i, -1) \in Int /\ byteAt(t, k, -1) \in Int /\ byteAt(u, k, -1) \in Int
    <3>1. i # 0 /\ k # 0
      BY <2>3
    <3>2. \A w \in Words : \A n \in Nat : n # 0 => byteAt(w, n, -1) \in Int
      BY WordFacts
    <3> QED BY <2>3, <3>1, <3>2
  <2>4. CASE i < k
    <3>1. i \in 1..Len(u) /\ i \in 1..(k - 1) /\ \A j \in 1..(i - 1) : j \in 1..(k - 1)
      BY <2>3, <2>4
    <3>2. byteAt(s, i, -1) < byteAt(u, i, -1)
      BY <2>1, <2>2, <3>1
    <3>3. \A j \in 1..(i - 1) : byteAt(s, j, -1) = byteAt(u, j, -1)
      BY <2>1, <2>2, <3>1
    <3> QED BY <3>1, <3>2, <3>3, SortsBeforeAt
  <2>5. CASE i = k
    <3>1. byteAt(s, i, -1) < byteAt(u, i, -1)
      BY <2>1, <2>2, <2>5, <2>a
    <3>2. \A j \in 1..(i - 1) : byteAt(s, j, -1) = byteAt(u, j, -1)
      BY <2>1, <2>2, <2>5
    <3> QED BY <2>5, <3>1, <3>2, SortsBeforeAt
  <2>6. CASE k < i
    <3>1. k \in 1..(i - 1) /\ \A j \in 1..(k - 1) : j \in 1..(i - 1)
      BY <2>3, <2>6
    <3>2. byteAt(s, k, -1) < byteAt(u, k, -1)
      BY <2>1, <2>2, <3>1
    <3>3. \A j \in 1..(k - 1) : byteAt(s, j, -1) = byteAt(u, j, -1)
      BY <2>1, <2>2, <3>1
    <3> QED BY <3>2, <3>3, SortsBeforeAt
  <2> QED BY <2>3, <2>4, <2>5, <2>6
<1>3. ASSUME NEW s \in Words, NEW t \in Words, s # t PROVE SortsBefore(s, t) \/ SortsBefore(t, s)
  <2> DEFINE Differ == {i \in Nat \ {0} : byteAt(s, i, -1) # byteAt(t, i, -1)}
  <2>1. Differ # {}
    <3> SUFFICES ASSUME \A i \in Nat \ {0} : byteAt(s, i, -1) = byteAt(t, i, -1) PROVE FALSE
      OBVIOUS
    <3>1. Len(s) \in Nat /\ Len(t) \in Nat
      BY WordFacts
    <3>2. Len(s) <= Len(t)
      <4> SUFFICES ASSUME Len(s) > Len(t) PROVE FALSE
        BY <3>1
      <4>1. Len(s) \in Nat \ {0} /\ Len(s) \in 1..Len(s)
        BY <3>1
      <4>2. byteAt(s, Len(s), -1) \in Nat /\ byteAt(t, Len(s), -1) = -1
        BY <4>1, WordFacts
      <4> QED BY <4>1, <4>2
    <3>3. Len(t) <= Len(s)
      <4> SUFFICES ASSUME Len(t) > Len(s) PROVE FALSE
        BY <3>1
      <4>1. Len(t) \in Nat \ {0} /\ Len(t) \in 1..Len(t)
        BY <3>1
      <4>2. byteAt(t, Len(t), -1) \in Nat /\ byteAt(s, Len(t), -1) = -1
        BY <4>1, WordFacts
      <4> QED BY <4>1, <4>2
    <3>4. Len(s) = Len(t)
      BY <3>1, <3>2, <3>3
    <3>5. \A i \in 1..Len(s) : s[i] = t[i]
      BY <3>4, WordFacts
    <3>6. s \in Seq(0..Letters) /\ t \in Seq(0..Letters)
      BY DEF Words
    <3>7. s = t
      BY <3>4, <3>5, <3>6, SeqEqual
    <3> QED BY <1>3, <3>7
  <2>2. PICK i \in Differ : \A j \in Differ : i <= j
    <3>1. Differ \in SUBSET Nat
      OBVIOUS
    <3> HIDE DEF Differ
    <3> QED BY <2>1, <3>1, LeastNatural
  <2>3. i \in Nat \ {0} /\ byteAt(s, i, -1) # byteAt(t, i, -1)
    OBVIOUS
  <2>4. \A j \in 1..(i - 1) : byteAt(s, j, -1) = byteAt(t, j, -1)
    BY <2>2, <2>3
  <2>5. byteAt(s, i, -1) \in Int /\ byteAt(t, i, -1) \in Int
    BY <2>3, WordFacts
  <2>6. Len(s) \in Nat /\ Len(t) \in Nat
    BY WordFacts
  <2>7. ASSUME i > Len(s) PROVE byteAt(s, i, -1) = -1
    BY <2>3, <2>7, WordFacts
  <2>8. ASSUME i > Len(t) PROVE byteAt(t, i, -1) = -1
    BY <2>3, <2>8, WordFacts
  <2>9. byteAt(s, i, -1) >= -1 /\ byteAt(t, i, -1) >= -1
    <3>1. i \in 1..Len(s) => byteAt(s, i, -1) \in Nat
      BY WordFacts
    <3>2. i \in 1..Len(t) => byteAt(t, i, -1) \in Nat
      BY WordFacts
    <3> QED BY <3>1, <3>2, <2>3, <2>6, <2>7, <2>8
  <2>10. CASE byteAt(s, i, -1) < byteAt(t, i, -1)
    <3>1. i \in 1..Len(t)
      BY <2>3, <2>5, <2>6, <2>8, <2>9, <2>10
    <3> QED BY <2>4, <2>10, <3>1, SortsBeforeAt
  <2>11. CASE byteAt(t, i, -1) < byteAt(s, i, -1)
    <3>1. i \in 1..Len(s)
      BY <2>3, <2>5, <2>6, <2>7, <2>9, <2>11
    <3> QED BY <2>4, <2>11, <3>1, SortsBeforeAt
  <2> QED BY <2>3, <2>5, <2>10, <2>11
<1> QED BY <1>1, <1>2, <1>3

-----------------------------------------------------------------------------
\* A word given letter by letter.
LEMMA FunctionIsWord ==
  ASSUME NEW n \in Nat, NEW f \in [1..n -> 0..Letters]
  PROVE  f \in Words /\ Len(f) = n
<1>1. f \in Seq(0..Letters)
  BY SeqDef
<1>2. DOMAIN f = 1..n /\ DOMAIN f = 1..Len(f) /\ Len(f) \in Nat
  BY <1>1, LenProperties
<1> QED BY <1>1, <1>2 DEF Words

\* A word sorts before another from the first place where it is lower or has ended.
LEMMA DifferAt ==
  ASSUME NEW s \in Words, NEW t \in Words, NEW i \in 1..Len(t),
         \A j \in 1..(i - 1) : j <= Len(s) /\ s[j] = t[j], i > Len(s) \/ s[i] < t[i]
  PROVE  SortsBefore(s, t)
<1>1. Len(s) \in Nat /\ Len(t) \in Nat /\ t[i] \in Nat
  BY WordFacts
<1>2. \A j \in 1..(i - 1) : byteAt(s, j, -1) = t[j]
  BY <1>1 DEF byteAt
<1>3. byteAt(s, i, -1) < t[i]
  BY <1>1 DEF byteAt
<1> QED BY <1>2, <1>3 DEF SortsBefore

\* The ranks something can be placed before: they do not end in the floor.
ProperRanks == {r \in Words : r # NoRank /\ r[Len(r)] # 0}

\* A single letter above the floor is a rank.
LEMMA LetterRank ==
  ASSUME NEW n \in 1..Letters
  PROVE  <<n>> \in ProperRanks /\ <<n>> \in Words /\ Len(<<n>>) = 1 /\ <<n>>[1] = n
<1>1. n \in 0..Letters /\ n # 0
  BY RankAssumption
<1>2. <<n>> \in Seq(0..Letters)
  BY <1>1
<1> QED BY <1>1, <1>2 DEF ProperRanks, Words, NoRank

\* A rank has a last letter, and it is not the floor.
LEMMA ProperFacts ==
  ASSUME NEW r \in ProperRanks
  PROVE  /\ r \in Words /\ Len(r) \in Nat \ {0} /\ Len(r) \in 1..Len(r)
         /\ r[Len(r)] \in 1..Letters
<1>1. r \in Words /\ r # <<>> /\ r[Len(r)] # 0
  BY DEF ProperRanks, NoRank
<1>2. Len(r) \in Nat \ {0}
  BY <1>1, EmptySeq DEF Words
<1>3. r[Len(r)] \in 0..Letters
  BY <1>1, <1>2, WordFacts
<1> QED BY <1>1, <1>2, <1>3, RankAssumption

\* Two words, one after the other.
LEMMA JoinWords ==
  ASSUME NEW s \in Words, NEW t \in Words
  PROVE  /\ s \o t \in Words /\ Len(s \o t) = Len(s) + Len(t)
         /\ \A i \in 1..Len(s) : (s \o t)[i] = s[i]
         /\ \A i \in 1..Len(t) : (s \o t)[Len(s) + i] = t[i]
<1>1. Len(s) \in Nat /\ Len(t) \in Nat
  BY WordFacts
<1>2. /\ s \o t \in Words /\ Len(s \o t) = Len(s) + Len(t)
      /\ \A i \in 1..(Len(s) + Len(t)) : (s \o t)[i] = IF i <= Len(s) THEN s[i] ELSE t[i - Len(s)]
  BY ConcatProperties DEF Words
<1>3. ASSUME NEW i \in 1..Len(s) PROVE (s \o t)[i] = s[i]
  BY <1>1, <1>2
<1>4. ASSUME NEW i \in 1..Len(t) PROVE (s \o t)[Len(s) + i] = t[i]
  <2>1. Len(s) + i \in 1..(Len(s) + Len(t)) /\ ~(Len(s) + i <= Len(s)) /\ (Len(s) + i) - Len(s) = i
    BY <1>1
  <2> QED BY <1>2, <2>1
<1> QED BY <1>2, <1>3, <1>4

\* What follows a common beginning decides the order, and the end of the whole is its end.
LEMMA JoinOrder ==
  ASSUME NEW s \in Words, NEW t \in Words, NEW u \in Words, SortsBefore(t, u)
  PROVE  SortsBefore(s \o t, s \o u)
<1>1. PICK i \in 1..Len(u) : (\A j \in 1..(i - 1) : byteAt(t, j, -1) = u[j]) /\ byteAt(t, i, -1) < u[i]
  BY DEF SortsBefore
<1>2. Len(s) \in Nat /\ Len(t) \in Nat /\ Len(u) \in Nat
  BY WordFacts
<1>3. \A j \in 1..Len(u) : u[j] \in Nat
  BY WordFacts
<1>4. ASSUME NEW j \in 1..(i - 1) PROVE j <= Len(t) /\ t[j] = u[j]
  <2>1. j \in 1..Len(u)
    BY <1>2
  <2>2. u[j] \in Nat
    BY <1>3, <2>1
  <2>3. byteAt(t, j, -1) = u[j]
    BY <1>1
  <2> QED BY <2>2, <2>3 DEF byteAt
<1>5. i > Len(t) \/ t[i] < u[i]
  BY <1>1, <1>2 DEF byteAt
<1> DEFINE k == Len(s) + i
<1>6. k \in 1..Len(s \o u) /\ (s \o u)[k] = u[i]
  BY <1>2, JoinWords
<1>7. ASSUME NEW j \in 1..(k - 1) PROVE j <= Len(s \o t) /\ (s \o t)[j] = (s \o u)[j]
  <2>1. CASE j <= Len(s)
    BY <2>1, <1>2, JoinWords
  <2>2. CASE j > Len(s)
    <3>1. j - Len(s) \in 1..(i - 1) /\ j = Len(s) + (j - Len(s))
      BY <1>2, <2>2
    <3>2. j - Len(s) \in 1..Len(t) /\ j - Len(s) \in 1..Len(u) /\ t[j - Len(s)] = u[j - Len(s)]
      BY <1>2, <1>4, <3>1
    <3>3. (s \o t)[Len(s) + (j - Len(s))] = t[j - Len(s)] /\ (s \o u)[Len(s) + (j - Len(s))] = u[j - Len(s)]
      BY <3>2, JoinWords
    <3>4. j <= Len(s \o t)
      BY <3>2, <1>2, JoinWords
    <3> QED BY <3>1, <3>2, <3>3, <3>4
  <2> QED BY <1>2, <2>1, <2>2
<1>8. k > Len(s \o t) \/ (s \o t)[k] < (s \o u)[k]
  <2>1. CASE i > Len(t)
    BY <2>1, <1>2, JoinWords
  <2>2. CASE i <= Len(t)
    <3>1. i \in 1..Len(t) /\ t[i] < u[i]
      BY <1>2, <1>5, <2>2
    <3> QED BY <3>1, <1>6, JoinWords
  <2> QED BY <1>2, <2>1, <2>2
<1>9. s \o t \in Words /\ s \o u \in Words
  BY JoinWords
<1> HIDE DEF k
<1> QED BY <1>6, <1>7, <1>8, <1>9, DifferAt

\* A rank stays one whatever stands before it.
LEMMA JoinProper ==
  ASSUME NEW s \in Words, NEW r \in ProperRanks
  PROVE  s \o r \in ProperRanks
<1>1. r \in Words /\ Len(r) \in Nat \ {0} /\ Len(r) \in 1..Len(r) /\ r[Len(r)] \in 1..Letters
  BY ProperFacts
<1>2. s \o r \in Words /\ Len(s \o r) = Len(s) + Len(r) /\ (s \o r)[Len(s) + Len(r)] = r[Len(r)]
  BY <1>1, JoinWords
<1>3. Len(s \o r) # 0
  BY <1>1, <1>2, WordFacts
<1> QED BY <1>1, <1>2, <1>3, EmptySeq, RankAssumption DEF ProperRanks, NoRank

\* A key after any rank.
LEMMA RankAfterFits ==
  ASSUME NEW r \in ProperRanks \cup {NoRank}
  PROVE  rankAfter(r) \in ProperRanks /\ SortsBefore(r, rankAfter(r))
<1>1. CASE r = NoRank
  <2>1. rankAfter(r) = <<FirstRank>> /\ <<FirstRank>> \in ProperRanks /\ <<FirstRank>> \in Words /\ Len(<<FirstRank>>) = 1
    BY <1>1, RankAssumption, LetterRank DEF rankAfter
  <2>2. r \in Words /\ Len(r) = 0
    BY <1>1, EmptySeq DEF NoRank, Words
  <2> QED BY <2>1, <2>2, DifferAt
<1>2. CASE r # NoRank /\ r[Len(r)] \in 1..(Letters - 1)
  <2> DEFINE n == Len(r)
             v == (r[n] - 1 + Letters) \div 2 + 1
             t == [r EXCEPT ![n] = v]
  <2>1. r \in ProperRanks /\ r \in Words /\ n \in Nat \ {0} /\ n \in 1..n
    BY <1>2, ProperFacts
  <2>2. v \in 1..Letters /\ v > r[n]
    BY <1>2, RankAssumption
  <2>3. rankAfter(r) = t
    BY <1>2 DEF rankAfter
  <2> HIDE DEF v
  <2>4. t \in Words /\ Len(t) = n /\ \A j \in 1..n : t[j] = IF j = n THEN v ELSE r[j]
    BY <2>1, <2>2, ExceptSeq DEF Words
  <2>5. t[n] = v
    BY <2>1, <2>4
  <2>6. t \in ProperRanks
    BY <2>1, <2>2, <2>4, <2>5, EmptySeq DEF ProperRanks, NoRank
  <2>7. \A j \in 1..(n - 1) : j <= n /\ r[j] = t[j]
    BY <2>1, <2>4
  <2> HIDE DEF t
  <2>8. SortsBefore(r, t)
    BY <2>1, <2>2, <2>4, <2>5, <2>7, DifferAt
  <2> QED BY <2>3, <2>6, <2>8
<1>3. CASE r # NoRank /\ r[Len(r)] \notin 1..(Letters - 1)
  <2>1. r \in Words /\ Len(r) \in Nat
    BY <1>3, ProperFacts
  <2>2. <<FirstRank>> \in ProperRanks /\ <<FirstRank>> \in Words /\ Len(<<FirstRank>>) = 1
    BY RankAssumption, LetterRank
  <2>3. rankAfter(r) = r \o <<FirstRank>>
    BY <1>3 DEF rankAfter
  <2>4. r \o <<FirstRank>> \in ProperRanks
    BY <2>1, <2>2, JoinProper
  <2>5. SortsBefore(r, r \o <<FirstRank>>)
    <3> DEFINE t == r \o <<FirstRank>>
    <3>1. t \in Words /\ Len(t) = Len(r) + 1 /\ \A j \in 1..Len(r) : t[j] = r[j]
      BY <2>1, <2>2, JoinWords
    <3> HIDE DEF t
    <3>2. Len(r) + 1 \in 1..Len(t) /\ \A j \in 1..(Len(r) + 1 - 1) : j <= Len(r) /\ r[j] = t[j]
      BY <2>1, <3>1
    <3>3. SortsBefore(r, t)
      BY <2>1, <3>1, <3>2, DifferAt
    <3> QED BY <3>3 DEF t
  <2> QED BY <2>3, <2>4, <2>5
<1> QED BY <1>1, <1>2, <1>3

-----------------------------------------------------------------------------
\* A key before any rank.
LEMMA RankBeforeFits ==
  ASSUME NEW r \in ProperRanks
  PROVE  rankBefore(r) \in ProperRanks /\ SortsBefore(rankBefore(r), r)
<1> DEFINE NoRoom(n) == /\ \A i \in 1..n : r[i] <= 1
                        /\ n = Len(r) \/ r[n + 1] > 1
           full == CHOOSE n \in 0..Len(r) : NoRoom(n)
           low == [i \in 1..full |-> 0]
           last == IF full = Len(r) THEN <<FirstRank>> ELSE <<(r[full + 1] - 1) \div 2 + 1>>
<1>1. /\ r \in Words /\ Len(r) \in Nat \ {0} /\ Len(r) \in 1..Len(r) /\ r[Len(r)] \in 1..Letters
      /\ \A i \in 1..Len(r) : r[i] \in 0..Letters /\ r[i] \in Nat
  BY ProperFacts, WordFacts
<1>2. \E n \in 0..Len(r) : NoRoom(n)
  <2> DEFINE Room == {i \in 1..Len(r) : r[i] > 1}
  <2>1. CASE Room = {}
    BY <1>1, <2>1
  <2>2. CASE Room # {}
    <3>1. Room \in SUBSET Nat
      OBVIOUS
    <3>2. PICK m \in Room : \A i \in Room : m <= i
      <4> HIDE DEF Room
      <4> QED BY <2>2, <3>1, LeastNatural
    <3>3. m \in 1..Len(r) /\ r[m] > 1 /\ \A i \in 1..Len(r) : i < m => ~(r[i] > 1)
      BY <3>2
    <3>4. \A i \in 1..(m - 1) : r[i] <= 1
      BY <1>1, <3>3
    <3>5. m - 1 \in 0..Len(r) /\ (m - 1) + 1 = m
      BY <1>1, <3>3
    <3> QED BY <3>3, <3>4, <3>5
  <2> QED BY <2>1, <2>2
<1>3. full \in 0..Len(r) /\ NoRoom(full)
  <2> HIDE DEF NoRoom
  <2> QED BY <1>2
<1> HIDE DEF full
<1>4. low \in Words /\ Len(low) = full /\ \A i \in 1..full : low[i] = 0
  <2>1. full \in Nat /\ low \in [1..full -> 0..Letters]
    BY <1>1, <1>3, RankAssumption
  <2> QED BY <2>1, FunctionIsWord
<1>5. last \in ProperRanks /\ Len(last) = 1 /\ (full # Len(r) => last[1] < r[full + 1])
  <2>1. CASE full = Len(r)
    BY <2>1, RankAssumption, LetterRank
  <2>2. CASE full # Len(r)
    <3> DEFINE half == (r[full + 1] - 1) \div 2 + 1
    <3>1. full + 1 \in 1..Len(r) /\ r[full + 1] > 1
      BY <1>1, <1>3, <2>2
    <3>2. r[full + 1] \in 0..Letters
      BY <1>1, <3>1
    <3>3. half \in 1..Letters /\ half < r[full + 1]
      BY <3>1, <3>2, RankAssumption
    <3> HIDE DEF half
    <3>4. <<half>> \in ProperRanks /\ Len(<<half>>) = 1 /\ <<half>>[1] = half
      BY <3>3, LetterRank
    <3>5. last = <<half>>
      BY <2>2 DEF half
    <3> QED BY <3>3, <3>4, <3>5
  <2> QED BY <2>1, <2>2
<1>6. rankBefore(r) = low \o last
  BY DEF rankBefore, full
<1> HIDE DEF low, last
<1> DEFINE t == low \o last
<1>7. last \in Words
  BY <1>5, ProperFacts
<1>8. /\ t \in Words /\ Len(t) = full + 1 /\ \A i \in 1..full : t[i] = 0
      /\ t[full + 1] = last[1]
  <2>1. full \in Nat /\ 1 \in 1..Len(last)
    BY <1>1, <1>3, <1>5
  <2>2. t \in Words /\ Len(t) = full + 1
    <3>1. low \in Words /\ last \in Words /\ Len(low) = full /\ Len(last) = 1
      BY <1>4, <1>5, <1>7
    <3>2. low \o last \in Words /\ Len(low \o last) = Len(low) + Len(last)
      BY <3>1, JoinWords
    <3> QED BY <3>1, <3>2
  <2>3. \A i \in 1..full : t[i] = 0
    BY <1>4, <1>7, JoinWords
  <2>4. t[full + 1] = last[1]
    BY <1>4, <1>7, <2>1, JoinWords
  <2> QED BY <2>2, <2>3, <2>4
<1>9. t \in ProperRanks
  BY <1>4, <1>5, JoinProper
<1> HIDE DEF t
<1>10. SortsBefore(t, r)
  <2> DEFINE Ones == {i \in 1..full : r[i] = 1}
  <2>1. CASE Ones = {}
    <3>1. \A i \in 1..full : r[i] = 0
      BY <1>1, <1>3, <2>1
    <3>2. full # Len(r)
      BY <1>1, <3>1
    <3>3. PICK m \in 1..Len(r) : m = full + 1
      BY <1>1, <1>3, <3>2
    <3>4. \A j \in 1..(m - 1) : j <= Len(t) /\ t[j] = r[j]
      BY <1>1, <1>3, <1>8, <3>1, <3>3
    <3>5. t[m] < r[m]
      BY <1>5, <1>8, <3>2, <3>3
    <3> QED BY <1>1, <1>8, <3>4, <3>5, DifferAt
  <2>2. CASE Ones # {}
    <3>1. Ones \in SUBSET Nat
      BY <1>1, <1>3
    <3>2. PICK m \in Ones : \A i \in Ones : m <= i
      <4> HIDE DEF Ones
      <4> QED BY <2>2, <3>1, LeastNatural
    <3>3. m \in 1..full /\ r[m] = 1 /\ \A i \in 1..full : i < m => r[i] # 1
      BY <3>2
    <3>4. \A i \in 1..(m - 1) : r[i] = 0 /\ t[i] = 0 /\ i <= Len(t)
      BY <1>1, <1>3, <1>8, <3>3
    <3>5. m \in 1..Len(r) /\ t[m] < r[m]
      BY <1>1, <1>3, <1>8, <3>3
    <3> QED BY <1>1, <1>8, <3>4, <3>5, DifferAt
  <2> QED BY <2>1, <2>2
<1> QED BY <1>6, <1>9, <1>10 DEF t

-----------------------------------------------------------------------------
\* The place where rankMid parts from its upper neighbour.
Parts(prev, next, i) ==
  /\ byteAt(prev, i, 0) # next[i]
  /\ \A j \in 1..(i - 1) : byteAt(prev, j, 0) = next[j]

\* The place where two ordered words first differ.
LEMMA PartsSomewhere ==
  ASSUME NEW prev \in ProperRanks, NEW next \in ProperRanks, SortsBefore(prev, next)
  PROVE  /\ \E i \in 1..Len(next) : Parts(prev, next, i)
         /\ \A i \in 1..Len(next) : Parts(prev, next, i) =>
              byteAt(prev, i, 0) \in 0..Letters /\ next[i] \in 1..Letters /\ byteAt(prev, i, 0) < next[i]
<1>1. /\ prev \in Words /\ Len(prev) \in Nat \ {0} /\ \A j \in 1..Len(prev) : prev[j] \in 0..Letters /\ prev[j] \in Nat
      /\ next \in Words /\ Len(next) \in Nat \ {0} /\ \A j \in 1..Len(next) : next[j] \in 0..Letters /\ next[j] \in Nat
      /\ Len(next) \in 1..Len(next) /\ next[Len(next)] # 0
  <2>1. next[Len(next)] \in 1..Letters
    BY ProperFacts
  <2>2. next[Len(next)] # 0
    BY <2>1, RankAssumption
  <2> QED BY <2>2, ProperFacts, WordFacts
<1>2. PICK k \in 1..Len(next) : (\A j \in 1..(k - 1) : byteAt(prev, j, -1) = next[j]) /\ byteAt(prev, k, -1) < next[k]
  BY DEF SortsBefore
<1>3. ASSUME NEW j \in 1..(k - 1) PROVE j <= Len(prev) /\ prev[j] = next[j] /\ byteAt(prev, j, 0) = next[j]
  <2>1. j \in 1..Len(next) /\ byteAt(prev, j, -1) = next[j]
    BY <1>1, <1>2
  <2>2. next[j] \in Nat
    BY <1>1, <2>1
  <2> QED BY <2>1, <2>2 DEF byteAt
<1>4. CASE k <= Len(prev)
  <2>1. byteAt(prev, k, 0) = prev[k] /\ prev[k] < next[k] /\ k \in 1..Len(prev)
    BY <1>1, <1>2, <1>4 DEF byteAt
  <2>2. prev[k] \in 0..Letters /\ next[k] \in 0..Letters
    BY <1>1, <2>1
  <2>3. Parts(prev, next, k)
    BY <1>3, <2>1, <2>2 DEF Parts
  <2>4. ASSUME NEW i \in 1..Len(next), Parts(prev, next, i) PROVE i = k
    <3>1. ~(i < k)
      BY <1>1, <1>3, <2>4 DEF Parts
    <3>2. ~(k < i)
      <4>1. SUFFICES ASSUME k < i PROVE FALSE
        OBVIOUS
      <4>2. k \in 1..(i - 1)
        BY <1>1, <4>1
      <4>3. byteAt(prev, k, 0) = next[k]
        BY <2>4, <4>2 DEF Parts
      <4> QED BY <2>1, <2>2, <4>3
    <3> QED BY <1>1, <3>1, <3>2
  <2>5. next[k] \in 1..Letters
    BY <2>1, <2>2, RankAssumption
  <2> QED BY <2>1, <2>2, <2>3, <2>4, <2>5
<1>5. CASE k > Len(prev)
  <2>1. k = Len(prev) + 1
    <3>1. k - 1 <= Len(prev)
      <4>1. SUFFICES ASSUME k - 1 > Len(prev) PROVE FALSE
        BY <1>1
      <4>2. k - 1 \in 1..(k - 1)
        BY <1>1, <4>1
      <4> QED BY <1>1, <1>3, <4>1, <4>2
    <3> QED BY <1>1, <1>5, <3>1
  <2>2. ASSUME NEW i \in 1..Len(next), Parts(prev, next, i)
        PROVE  i > Len(prev) /\ byteAt(prev, i, 0) = 0 /\ next[i] # 0
    <3>1. i > Len(prev)
      <4>1. SUFFICES ASSUME i <= Len(prev) PROVE FALSE
        BY <1>1
      <4>2. i \in 1..(k - 1)
        BY <1>1, <2>1, <4>1
      <4> QED BY <1>3, <2>2, <4>2 DEF Parts
    <3>2. byteAt(prev, i, 0) = 0
      BY <1>1, <3>1 DEF byteAt
    <3> QED BY <2>2, <3>1, <3>2 DEF Parts
  <2>3. ASSUME NEW i \in 1..Len(next), Parts(prev, next, i)
        PROVE  byteAt(prev, i, 0) \in 0..Letters /\ next[i] \in 1..Letters /\ byteAt(prev, i, 0) < next[i]
    <3>1. byteAt(prev, i, 0) = 0 /\ next[i] # 0 /\ next[i] \in 0..Letters
      BY <1>1, <2>2, <2>3
    <3> QED BY <3>1, RankAssumption
  <2>4. \E i \in 1..Len(next) : Parts(prev, next, i)
    <3> DEFINE Above0 == {i \in 1..Len(next) : i > Len(prev) /\ next[i] # 0}
    <3>1. Above0 # {} /\ Above0 \in SUBSET Nat
      <4>1. Len(next) \in Above0
        BY <1>1, <1>5
      <4> QED BY <4>1
    <3>2. PICK i \in Above0 : \A j \in Above0 : i <= j
      <4> HIDE DEF Above0
      <4> QED BY <3>1, LeastNatural
    <3>3. i \in 1..Len(next) /\ i > Len(prev) /\ next[i] # 0
      OBVIOUS
    <3>4. byteAt(prev, i, 0) # next[i]
      BY <1>1, <3>3 DEF byteAt
    <3>5. ASSUME NEW j \in 1..(i - 1) PROVE byteAt(prev, j, 0) = next[j]
      <4>1. CASE j <= Len(prev)
        <5>1. j \in 1..(k - 1)
          BY <1>1, <2>1, <4>1
        <5> QED BY <1>3, <5>1
      <4>2. CASE j > Len(prev)
        <5>1. j \in 1..Len(next) /\ j \notin Above0
          BY <1>1, <3>2, <3>3
        <5>2. next[j] = 0
          BY <4>2, <5>1
        <5> QED BY <1>1, <4>2, <5>2 DEF byteAt
      <4> QED BY <1>1, <4>1, <4>2
    <3> QED BY <3>3, <3>4, <3>5 DEF Parts
  <2> QED BY <2>3, <2>4
<1> QED BY <1>1, <1>4, <1>5

\* The beginning of a rank, and what is left of it.
LEMMA PieceOfWord ==
  ASSUME NEW s \in Words, NEW m \in Nat \ {0}, NEW n \in 0..Len(s)
  PROVE  /\ SubSeq(s, m, n) \in Words /\ Len(SubSeq(s, m, n)) = IF m <= n THEN n - m + 1 ELSE 0
         /\ \A j \in 1..(n - m + 1) : SubSeq(s, m, n)[j] = s[m + j - 1]
<1>1. Len(s) \in Nat /\ \A j \in 1..Len(s) : s[j] \in 0..Letters
  BY WordFacts
<1>2. \A j \in m..n : s[j] \in 0..Letters
  BY <1>1
<1>3. m \in Int /\ n \in Int
  BY <1>1
<1> QED BY <1>2, <1>3, SubSeqProperties DEF Words

\* A key between two ordered ranks.
LEMMA RankMidFits ==
  ASSUME NEW prev \in ProperRanks, NEW next \in ProperRanks, SortsBefore(prev, next)
  PROVE  /\ rankMid(prev, next) \in ProperRanks
         /\ SortsBefore(prev, rankMid(prev, next)) /\ SortsBefore(rankMid(prev, next), next)
<1> DEFINE i == CHOOSE i \in 1..Len(next) : Parts(prev, next, i)
           lo == byteAt(prev, i, 0)
           hi == next[i]
           head == SubSeq(next, 1, i - 1)
           rest == SubSeq(prev, i + 1, Len(prev))
           mid == (lo + hi - 2) \div 2 + 1
           tail == IF hi > 0 /\ hi - lo >= 2 THEN <<mid>> ELSE <<lo>> \o rankAfter(rest)
           t == head \o tail
<1>1. i \in 1..Len(next) /\ Parts(prev, next, i)
  BY PartsSomewhere
<1>2. rankMid(prev, next) = t
  BY DEF rankMid, Parts
<1> HIDE DEF i
<1>3. lo \in 0..Letters /\ hi \in 1..Letters /\ lo < hi
  BY <1>1, PartsSomewhere
<1>4. /\ prev \in Words /\ Len(prev) \in Nat \ {0} /\ prev[Len(prev)] \in 1..Letters
      /\ \A j \in 1..Len(prev) : prev[j] \in 0..Letters /\ prev[j] \in Nat
      /\ next \in Words /\ Len(next) \in Nat \ {0}
      /\ \A j \in 1..Len(next) : next[j] \in 0..Letters /\ next[j] \in Nat
  BY ProperFacts, WordFacts
<1>5. head \in Words /\ Len(head) = i - 1 /\ \A j \in 1..(i - 1) : head[j] = next[j]
  <2>1. i - 1 \in 0..Len(next) /\ 1 \in Nat \ {0}
    BY <1>1, <1>4
  <2>2. /\ head \in Words /\ Len(head) = (IF 1 <= i - 1 THEN (i - 1) - 1 + 1 ELSE 0)
        /\ \A j \in 1..((i - 1) - 1 + 1) : head[j] = next[1 + j - 1]
    BY <1>4, <2>1, PieceOfWord
  <2> HIDE DEF head
  <2>3. Len(head) = i - 1
    BY <1>1, <2>1, <2>2
  <2>4. ASSUME NEW j \in 1..(i - 1) PROVE head[j] = next[j]
    <3>1. j \in 1..((i - 1) - 1 + 1) /\ 1 + j - 1 = j
      BY <1>1
    <3> QED BY <2>2, <3>1
  <2> QED BY <2>2, <2>3, <2>4
<1>6. \A j \in 1..(i - 1) : head[j] = byteAt(prev, j, 0)
  BY <1>1, <1>5 DEF Parts
<1>7. rest \in ProperRanks \cup {NoRank} /\ Len(rest) \in Nat
      /\ (i <= Len(prev) => Len(rest) = Len(prev) - i /\ \A j \in 1..Len(rest) : rest[j] = prev[i + j])
  <2>1. i + 1 \in Nat \ {0} /\ Len(prev) \in 0..Len(prev)
    BY <1>1, <1>4
  <2>2. /\ rest \in Words /\ Len(rest) = (IF i + 1 <= Len(prev) THEN Len(prev) - (i + 1) + 1 ELSE 0)
        /\ \A j \in 1..(Len(prev) - (i + 1) + 1) : rest[j] = prev[(i + 1) + j - 1]
    BY <1>4, <2>1, PieceOfWord
  <2> HIDE DEF rest
  <2>3. CASE i + 1 <= Len(prev)
    <3>1. Len(rest) = Len(prev) - i /\ Len(rest) \in Nat \ {0}
      BY <1>1, <1>4, <2>2, <2>3
    <3>2. ASSUME NEW j \in 1..Len(rest) PROVE rest[j] = prev[i + j]
      <4>1. j \in 1..(Len(prev) - (i + 1) + 1) /\ (i + 1) + j - 1 = i + j
        BY <1>1, <1>4, <3>1
      <4> QED BY <2>2, <4>1
    <3>3. rest[Len(rest)] = prev[Len(prev)]
      <4>1. Len(rest) \in 1..Len(rest) /\ i + Len(rest) = Len(prev)
        BY <1>1, <1>4, <3>1
      <4> QED BY <3>2, <4>1
    <3>4. rest # <<>>
      BY <3>1, EmptySeq
    <3>5. prev[Len(prev)] # 0
      BY <1>4, RankAssumption
    <3> QED BY <2>2, <3>1, <3>2, <3>3, <3>4, <3>5 DEF ProperRanks, NoRank
  <2>4. CASE ~(i + 1 <= Len(prev))
    <3>1. Len(rest) = 0
      BY <2>2, <2>4
    <3>2. rest = <<>>
      BY <2>2, <3>1, EmptySeq DEF Words
    <3>3. i <= Len(prev) => Len(rest) = Len(prev) - i
      BY <1>1, <1>4, <2>4, <3>1
    <3> QED BY <3>1, <3>2, <3>3 DEF NoRank
  <2> QED BY <2>3, <2>4
<1> HIDE DEF rest, head
<1>8. rankAfter(rest) \in ProperRanks /\ SortsBefore(rest, rankAfter(rest))
  BY <1>7, RankAfterFits
<1> DEFINE after == rankAfter(rest)
<1>9. after \in ProperRanks /\ after \in Words /\ SortsBefore(rest, after) /\ rest \in Words
  <2>1. rest \in Words
    BY <1>7, ProperFacts, EmptySeq DEF NoRank, Words
  <2> QED BY <1>8, <2>1, ProperFacts
<1> HIDE DEF after
<1>10. <<lo>> \in Words /\ Len(<<lo>>) = 1 /\ <<lo>>[1] = lo
  BY <1>3 DEF Words
<1>11. /\ tail \in ProperRanks /\ tail \in Words /\ Len(tail) \in Nat \ {0}
       /\ lo <= tail[1] /\ tail[1] < hi /\ (hi - lo >= 2 => lo < tail[1])
       /\ (hi - lo < 2 => tail = <<lo>> \o after)
  <2>1. CASE hi - lo >= 2
    <3>1. tail = <<mid>>
      BY <1>3, <2>1, RankAssumption
    <3>2. mid \in 1..Letters /\ lo < mid /\ mid < hi /\ mid \in Nat
      <4> HIDE DEF lo, hi
      <4> QED BY <1>3, <2>1, RankAssumption
    <3>3. <<mid>> \in ProperRanks /\ <<mid>> \in Words /\ Len(<<mid>>) = 1 /\ <<mid>>[1] = mid
      <4> HIDE DEF mid
      <4> QED BY <3>2, LetterRank
    <3>4. ~(hi - lo < 2)
      BY <1>3, <2>1
    <3> HIDE DEF mid, tail, lo, hi
    <3>5. tail[1] = mid /\ lo <= mid
      BY <1>3, <3>1, <3>2, <3>3
    <3> QED BY <3>1, <3>2, <3>3, <3>4, <3>5
  <2>2. CASE hi - lo < 2
    <3>1. tail = <<lo>> \o after
      BY <2>2, <1>3 DEF after
    <3>2. tail \in ProperRanks
      BY <1>9, <1>10, <3>1, JoinProper
    <3>3. tail[1] = lo
      <4>1. 1 \in 1..Len(<<lo>>)
        BY <1>10
      <4> HIDE DEF lo, tail
      <4> QED BY <1>9, <1>10, <3>1, <4>1, JoinWords
    <3>4. ~(hi - lo >= 2)
      BY <1>3, <2>2
    <3>5. tail \in Words /\ Len(tail) \in Nat \ {0}
      BY <3>2, ProperFacts
    <3> HIDE DEF tail, lo, hi
    <3> QED BY <1>3, <3>1, <3>2, <3>3, <3>4, <3>5
  <2>3. hi - lo >= 2 \/ hi - lo < 2
    BY <1>3
  <2> QED BY <2>1, <2>2, <2>3
<1> HIDE DEF tail
<1>12. /\ t \in ProperRanks /\ t \in Words /\ i \in 1..Len(t) /\ Len(t) = (i - 1) + Len(tail)
       /\ t[i] = tail[1] /\ \A j \in 1..(i - 1) : t[j] = head[j]
  <2>1. t \in ProperRanks /\ t \in Words /\ Len(t) = (i - 1) + Len(tail)
    BY <1>5, <1>11, JoinProper, JoinWords
  <2>2. \A j \in 1..(i - 1) : t[j] = head[j]
    BY <1>5, <1>11, JoinWords
  <2>3. 1 \in 1..Len(tail) /\ Len(head) + 1 = i
    BY <1>1, <1>5, <1>11
  <2>4. t[Len(head) + 1] = tail[1]
    BY <1>5, <1>11, <2>3, JoinWords
  <2>5. i \in 1..Len(t)
    BY <1>1, <1>11, <2>1
  <2> QED BY <2>1, <2>2, <2>3, <2>4, <2>5
<1> HIDE DEF t
<1>13. SortsBefore(t, next)
  <2>1. \A j \in 1..(i - 1) : j <= Len(t) /\ t[j] = next[j]
    BY <1>1, <1>4, <1>5, <1>11, <1>12
  <2>2. t[i] < next[i]
    BY <1>11, <1>12
  <2> QED BY <1>1, <1>4, <1>12, <2>1, <2>2, DifferAt
<1>14. SortsBefore(prev, t)
  <2>1. CASE i > Len(prev)
    <3>1. PICK m \in 1..Len(t) : m = Len(prev) + 1
      BY <1>1, <1>4, <1>12, <2>1
    <3>2. ASSUME NEW j \in 1..(m - 1) PROVE j <= Len(prev) /\ prev[j] = t[j]
      <4>1. j \in 1..(i - 1) /\ j <= Len(prev)
        BY <1>1, <1>4, <2>1, <3>1
      <4> QED BY <1>6, <1>12, <4>1 DEF byteAt
    <3>3. m > Len(prev)
      BY <1>4, <3>1
    <3> QED BY <1>4, <1>12, <3>2, <3>3, DifferAt
  <2>2. CASE i <= Len(prev) /\ hi - lo >= 2
    <3>1. ASSUME NEW j \in 1..(i - 1) PROVE j <= Len(prev) /\ prev[j] = t[j]
      <4>1. j <= Len(prev)
        BY <1>1, <1>4, <2>2
      <4> QED BY <1>6, <1>12, <4>1 DEF byteAt
    <3>2. prev[i] < t[i]
      BY <1>11, <1>12, <2>2 DEF byteAt
    <3> QED BY <1>4, <1>12, <3>1, <3>2, DifferAt
  <2>3. CASE i <= Len(prev) /\ hi - lo < 2
    <3> DEFINE w == head \o (<<lo>> \o rest)
    <3>1. /\ <<lo>> \o rest \in Words /\ Len(<<lo>> \o rest) = 1 + Len(rest) /\ (<<lo>> \o rest)[1] = lo
          /\ \A j \in 1..Len(rest) : (<<lo>> \o rest)[1 + j] = rest[j]
      <4>1. 1 \in 1..Len(<<lo>>)
        BY <1>10
      <4> HIDE DEF lo
      <4>2. <<lo>> \o rest \in Words /\ Len(<<lo>> \o rest) = Len(<<lo>>) + Len(rest)
        BY <1>9, <1>10, JoinWords
      <4>3. (<<lo>> \o rest)[1] = <<lo>>[1]
        BY <1>9, <1>10, <4>1, JoinWords
      <4>4. \A j \in 1..Len(rest) : (<<lo>> \o rest)[Len(<<lo>>) + j] = rest[j]
        BY <1>9, <1>10, JoinWords
      <4> QED BY <1>10, <4>2, <4>3, <4>4
    <3> DEFINE u == <<lo>> \o rest
    <3>2. u \in Words /\ Len(u) = 1 + Len(rest) /\ u[1] = lo /\ \A j \in 1..Len(rest) : u[1 + j] = rest[j]
      BY <3>1
    <3>3. SortsBefore(u, tail)
      BY <1>9, <1>10, <1>11, <2>3, JoinOrder
    <3> HIDE DEF u
    <3>4. SortsBefore(head \o u, t)
      BY <1>5, <1>11, <3>2, <3>3, JoinOrder DEF t
    <3>5. head \o u = prev
      <4>1. /\ head \o u \in Words /\ Len(head \o u) = (i - 1) + (1 + Len(rest))
            /\ \A j \in 1..(i - 1) : (head \o u)[j] = head[j]
            /\ \A j \in 1..(1 + Len(rest)) : (head \o u)[(i - 1) + j] = u[j]
        <5>1. head \in Words /\ u \in Words /\ Len(head) = i - 1 /\ Len(u) = 1 + Len(rest)
          BY <1>5, <3>2
        <5>2. /\ head \o u \in Words /\ Len(head \o u) = Len(head) + Len(u)
              /\ \A j \in 1..Len(head) : (head \o u)[j] = head[j]
              /\ \A j \in 1..Len(u) : (head \o u)[Len(head) + j] = u[j]
          BY <5>1, JoinWords
        <5> QED BY <5>1, <5>2
      <4>2. Len(head \o u) = Len(prev)
        <5>1. Len(rest) = Len(prev) - i /\ i \in Int /\ Len(prev) \in Int
          BY <1>1, <1>4, <1>7, <2>3
        <5>2. Len(head \o u) = (i - 1) + (1 + Len(rest))
          BY <4>1
        <5> QED BY <5>1, <5>2
      <4>3. ASSUME NEW j \in 1..Len(prev) PROVE (head \o u)[j] = prev[j]
        <5>1. CASE j < i
          <6>1. j \in 1..(i - 1) /\ byteAt(prev, j, 0) = prev[j]
            BY <1>1, <5>1 DEF byteAt
          <6> QED BY <1>6, <4>1, <6>1
        <5>2. CASE j = i
          <6>1. 1 \in 1..(1 + Len(rest)) /\ (i - 1) + 1 = j
            BY <1>1, <1>7, <5>2
          <6>2. (head \o u)[j] = lo
            BY <3>2, <4>1, <6>1
          <6> QED BY <2>3, <5>2, <6>2 DEF byteAt
        <5>3. CASE j > i
          <6>1. j - i \in 1..Len(rest) /\ (i - 1) + (1 + (j - i)) = j /\ 1 + (j - i) \in 1..(1 + Len(rest)) /\ i + (j - i) = j
            BY <1>1, <1>4, <1>7, <2>3, <5>3
          <6>2. (head \o u)[j] = u[1 + (j - i)]
            BY <4>1, <6>1
          <6>3. u[1 + (j - i)] = rest[j - i]
            BY <3>2, <6>1
          <6>4. rest[j - i] = prev[i + (j - i)]
            BY <1>7, <2>3, <6>1
          <6> QED BY <6>1, <6>2, <6>3, <6>4
        <5>4. i \in Int /\ j \in Int
          BY <1>1
        <5>5. j < i \/ j = i \/ j > i
          BY <5>4
        <5> QED BY <5>1, <5>2, <5>3, <5>5
      <4>4. head \o u \in Seq(0..Letters) /\ prev \in Seq(0..Letters)
        BY <1>4, <4>1 DEF Words
      <4> QED BY <4>2, <4>3, <4>4, SeqEqual
    <3> QED BY <3>4, <3>5
  <2>4. i <= Len(prev) \/ i > Len(prev)
    BY <1>1, <1>4
  <2>5. hi - lo >= 2 \/ hi - lo < 2
    BY <1>3
  <2> QED BY <2>1, <2>2, <2>3, <2>4, <2>5
<1> QED BY <1>2, <1>12, <1>13, <1>14

-----------------------------------------------------------------------------
\* Two ranks in hand, or one, or none, RankBetween writes a rank.
LEMMA RankBetweenProper ==
  ASSUME NEW prev \in ProperRanks \cup {NoRank}, NEW next \in ProperRanks \cup {NoRank}
  PROVE  RankBetween(prev, next) \in ProperRanks
<1>1. <<FirstRank>> \in ProperRanks
  BY RankAssumption, LetterRank
<1>2. next \in ProperRanks => rankBefore(next) \in ProperRanks
  BY RankBeforeFits
<1>3. rankAfter(prev) \in ProperRanks
  BY RankAfterFits
<1>4. prev \in ProperRanks /\ next \in ProperRanks /\ SortsBefore(prev, next) => rankMid(prev, next) \in ProperRanks
  BY RankMidFits
<1> QED BY <1>1, <1>2, <1>3, <1>4 DEF RankBetween

\* And it lies where it was asked for.
LEMMA RankBetweenIsBetween ==
  /\ \A r \in ProperRanks : SortsBefore(RankBetween(NoRank, r), r) /\ SortsBefore(r, RankBetween(r, NoRank))
  /\ \A r, s \in ProperRanks : SortsBefore(r, s) =>
       SortsBefore(r, RankBetween(r, s)) /\ SortsBefore(RankBetween(r, s), s)
<1>1. NoRank \notin ProperRanks
  BY DEF ProperRanks
<1>2. ASSUME NEW r \in ProperRanks
      PROVE  SortsBefore(RankBetween(NoRank, r), r) /\ SortsBefore(r, RankBetween(r, NoRank))
  <2>1. RankBetween(NoRank, r) = rankBefore(r) /\ RankBetween(r, NoRank) = rankAfter(r)
    BY <1>1 DEF RankBetween
  <2> QED BY <2>1, RankBeforeFits, RankAfterFits
<1>3. ASSUME NEW r \in ProperRanks, NEW s \in ProperRanks, SortsBefore(r, s)
      PROVE  SortsBefore(r, RankBetween(r, s)) /\ SortsBefore(RankBetween(r, s), s)
  <2>1. RankBetween(r, s) = rankMid(r, s)
    BY <1>1, <1>3 DEF RankBetween
  <2> QED BY <1>3, <2>1, RankMidFits
<1> QED BY <1>2, <1>3

-----------------------------------------------------------------------------
\* The n-th of a finite set in order is the one with n - 1 before it, and there is one for each n.
LEMMA InOrderFacts ==
  ASSUME NEW T, NEW before \in Orders(T), NEW S \in SUBSET T, IsFiniteSet(S)
  PROVE  /\ Cardinality(S) \in Nat
         /\ InOrder(S, before) \in [1..Cardinality(S) -> S]
         /\ \A c \in S : \E n \in 1..Cardinality(S) : InOrder(S, before)[n] = c
         /\ \A m, n \in 1..Cardinality(S) : m < n => <<InOrder(S, before)[m], InOrder(S, before)[n]>> \in before
<1> DEFINE Earlier(c) == {d \in S : <<d, c>> \in before}
           count == [c \in S |-> Cardinality(Earlier(c))]
           N == Cardinality(S)
           s == InOrder(S, before)
<1>1. /\ \A c, d \in T : <<c, d>> \in before <=> c # d /\ <<d, c>> \notin before
      /\ \A c, d, e \in T : <<c, d>> \in before /\ <<d, e>> \in before => <<c, e>> \in before
  BY DEF Orders
<1>2. N \in Nat
  BY FS_CardinalityType
<1>3. ASSUME NEW c \in S
      PROVE  /\ IsFiniteSet(Earlier(c)) /\ Cardinality(Earlier(c)) \in Nat /\ Cardinality(Earlier(c)) \in 0..(N - 1)
             /\ count[c] = Cardinality(Earlier(c))
  <2>1. Earlier(c) \in SUBSET S /\ Earlier(c) # S
    BY <1>1
  <2> HIDE DEF Earlier
  <2>2. IsFiniteSet(Earlier(c)) /\ Cardinality(Earlier(c)) <= N /\ N # Cardinality(Earlier(c))
    BY <2>1, FS_Subset
  <2>3. Cardinality(Earlier(c)) \in Nat
    BY <2>2, FS_CardinalityType
  <2> QED BY <1>2, <2>2, <2>3
<1>4. ASSUME NEW c \in S, NEW d \in S, <<c, d>> \in before PROVE count[c] < count[d]
  <2>1. Earlier(c) \in SUBSET Earlier(d) /\ c \in Earlier(d) /\ c \notin Earlier(c)
    BY <1>1, <1>4
  <2>2. IsFiniteSet(Earlier(d))
    BY <1>3
  <2>3. Cardinality(Earlier(c)) <= Cardinality(Earlier(d)) /\ Cardinality(Earlier(d)) # Cardinality(Earlier(c))
    <3> HIDE DEF Earlier
    <3> QED BY <2>1, <2>2, FS_Subset
  <2> HIDE DEF Earlier
  <2> QED BY <1>3, <2>3
<1>5. \A c \in S : count[c] \in 0..(N - 1) /\ count[c] \in Nat
  BY <1>3
<1>6. \A c, d \in S : count[c] = count[d] => c = d
  <2> SUFFICES ASSUME NEW c \in S, NEW d \in S, count[c] = count[d], c # d PROVE FALSE
    OBVIOUS
  <2>1. <<c, d>> \in before \/ <<d, c>> \in before
    BY <1>1
  <2> HIDE DEF count
  <2> QED BY <1>4, <1>5, <2>1
<1>7. count \in Injection(S, 0..(N - 1))
  <2>1. count \in [S -> 0..(N - 1)]
    BY <1>5
  <2> HIDE DEF count
  <2> QED BY <1>6, <2>1 DEF Injection, IsInjective
<1>8. count \in Surjection(S, 0..(N - 1))
  <2>1. IsFiniteSet(0..(N - 1)) /\ Cardinality(0..(N - 1)) = N
    BY <1>2, FS_Interval
  <2> HIDE DEF count
  <2> QED BY <1>7, <2>1, FS_Injection
<1>9. ASSUME NEW n \in 1..N PROVE s[n] \in S /\ count[s[n]] = n - 1
  <2>1. n - 1 \in 0..(N - 1)
    BY <1>2
  <2>2. PICK c \in S : count[c] = n - 1
    <3> HIDE DEF count
    <3> QED BY <1>8, <2>1 DEF Surjection
  <2>3. s[n] = CHOOSE e \in S : Cardinality({d \in S : <<d, e>> \in before}) = n - 1
    <3>1. s = [m \in 1..N |-> CHOOSE e \in S : Cardinality({d \in S : <<d, e>> \in before}) = m - 1]
      BY DEF InOrder
    <3> HIDE DEF s, N
    <3> QED BY <3>1, Zenon
  <2>4. \E e \in S : Cardinality({d \in S : <<d, e>> \in before}) = n - 1
    BY <1>3, <2>2, Zenon
  <2>5. s[n] \in S /\ Cardinality({d \in S : <<d, s[n]>> \in before}) = n - 1
    <3> DEFINE Nth(e) == Cardinality({d \in S : <<d, e>> \in before}) = n - 1
    <3>1. s[n] = (CHOOSE e \in S : Nth(e)) /\ \E e \in S : Nth(e)
      BY <2>3, <2>4, Zenon
    <3> HIDE DEF s, Nth
    <3>2. s[n] \in S /\ Nth(s[n])
      BY <3>1
    <3> QED BY <3>2 DEF Nth
  <2>6. Earlier(s[n]) = {d \in S : <<d, s[n]>> \in before}
    OBVIOUS
  <2> HIDE DEF s, Earlier, count
  <2> QED BY <1>3, <2>5, <2>6
<1>10. s \in [1..N -> S]
  <2> DEFINE nth(n) == CHOOSE e \in S : Cardinality({d \in S : <<d, e>> \in before}) = n - 1
  <2>1. s = [n \in 1..N |-> nth(n)]
    BY DEF InOrder
  <2> HIDE DEF nth
  <2> HIDE DEF s
  <2> QED BY <1>9, <2>1
<1> HIDE DEF s, count
<1>11. ASSUME NEW c \in S PROVE \E n \in 1..N : s[n] = c
  <2>1. count[c] + 1 \in 1..N /\ (count[c] + 1) - 1 = count[c]
    BY <1>2, <1>5
  <2>2. s[count[c] + 1] \in S /\ count[s[count[c] + 1]] = count[c]
    BY <1>9, <2>1
  <2> QED BY <1>6, <2>1, <2>2
<1>12. ASSUME NEW m \in 1..N, NEW n \in 1..N, m < n PROVE <<s[m], s[n]>> \in before
  <2>1. s[m] \in S /\ s[n] \in S /\ count[s[m]] = m - 1 /\ count[s[n]] = n - 1
    BY <1>9
  <2>2. s[m] # s[n] /\ ~(count[s[n]] < count[s[m]])
    BY <2>1, <1>2, <1>12
  <2> QED BY <1>1, <1>4, <2>1, <2>2
<1> QED BY <1>2, <1>10, <1>11, <1>12 DEF s

\* A finite set can be put in a row.
LEMMA SomeOrder ==
  ASSUME NEW S, IsFiniteSet(S)
  PROVE  \E before : before \in Orders(S)
<1>1. PICK f \in Bijection(S, 1..Cardinality(S)) : TRUE
  <2>1. Cardinality(S) \in Nat
    BY FS_CardinalityType
  <2>2. IsFiniteSet(1..Cardinality(S)) /\ Cardinality(1..Cardinality(S)) = Cardinality(S)
    BY <2>1, FS_Interval
  <2> QED BY <2>2, FS_SameCardinalityBij DEF ExistsBijection
<1>2. /\ \A c \in S : f[c] \in Int
      /\ \A c, d \in S : f[c] = f[d] => c = d
  <2>1. Cardinality(S) \in Nat
    BY FS_CardinalityType
  <2> QED BY <2>1 DEF Bijection, Injection, IsInjective
<1> DEFINE before == {cd \in S \X S : f[cd[1]] < f[cd[2]]}
<1>3. \A c, d \in S : <<c, d>> \in before <=> f[c] < f[d]
  OBVIOUS
<1>4. before \in SUBSET (S \X S)
  OBVIOUS
<1> HIDE DEF before
<1>5. ASSUME NEW c \in S, NEW d \in S PROVE <<c, d>> \in before <=> c # d /\ <<d, c>> \notin before
  BY <1>2, <1>3
<1>6. ASSUME NEW c \in S, NEW d \in S, NEW e \in S, <<c, d>> \in before, <<d, e>> \in before
      PROVE  <<c, e>> \in before
  BY <1>2, <1>3, <1>6
<1>7. before \in Orders(S)
  BY <1>4, <1>5, <1>6 DEF Orders
<1> QED BY <1>7

-----------------------------------------------------------------------------
\* What the rank column holds, and what a drop names.
Keys == ProperRanks \cup {NoRank}
Aims == Cards \cup {NoRank}

DropRecords ==
  [card : Cards, column : Columns, move : {"sent", "done"}, rank : {"sent", "read", "done"},
   after : Aims, before : Aims, prev : Keys, next : Keys, above : Aims, below : Aims,
   down : BOOLEAN, quiet : BOOLEAN]

\* Every key that is stored, or that a drop has read, is NoRank or a rank something fits before.
BoardInv ==
  /\ rankOf \in [Cards -> Keys]
  /\ columnOf \in [Cards -> Columns]
  /\ fresher \in Orders(Cards)
  /\ copy \in [People -> [order : Orders(Cards), column : [Cards -> Columns]]]
  /\ drops \in Seq(DropRecords) /\ Len(drops) <= MaxDrops

\* A key is a word, and no rank is empty.
LEMMA KeysAreWords == Keys \subseteq Words /\ NoRank \notin ProperRanks
<1>1. NoRank \in Words
  BY EmptySeq DEF NoRank, Words
<1> QED BY <1>1 DEF Keys, ProperRanks

\* The board's query puts the cards in a row, whatever their ranks are.
LEMMA BoardOrderIsOrder ==
  ASSUME rankOf \in [Cards -> Keys], fresher \in Orders(Cards)
  PROVE  BoardOrder \in Orders(Cards)
<1>1. /\ \A c, d \in Cards : <<c, d>> \in fresher <=> c # d /\ <<d, c>> \notin fresher
      /\ \A c, d, e \in Cards : <<c, d>> \in fresher /\ <<d, e>> \in fresher => <<c, e>> \in fresher
  BY DEF Orders
<1>2. \A c \in Cards : rankOf[c] \in Words
  BY KeysAreWords
<1>3. BoardOrder \in SUBSET (Cards \X Cards) /\ \A c, d \in Cards : <<c, d>> \in BoardOrder <=> Above(c, d)
  BY DEF BoardOrder
<1>4. ASSUME NEW c \in Cards, NEW d \in Cards PROVE Above(c, d) <=> c # d /\ ~Above(d, c)
  BY <1>1, <1>2, SortsBeforeOrder DEF Above
<1>5. ASSUME NEW c \in Cards, NEW d \in Cards, NEW e \in Cards, Above(c, d), Above(d, e) PROVE Above(c, e)
  BY <1>1, <1>2, <1>5, SortsBeforeOrder DEF Above
<1> QED BY <1>3, <1>4, <1>5 DEF Orders

\* Neighbours and gaps are cards, or none.
LEMMA CardsShown ==
  ASSUME NEW S \in SUBSET Cards, NEW before \in Orders(Cards), NEW n
  PROVE  CardAt(InOrder(S, before), n) \in Aims
<1>1. IsFiniteSet(S)
  BY BoardAssumption, FS_Subset
<1>2. InOrder(S, before) \in [1..Cardinality(S) -> S]
  BY <1>1, InOrderFacts
<1> HIDE DEF InOrder
<1> QED BY <1>2 DEF CardAt, Aims

\* However a board was ordered by dragging, every card got a rank.
LEMMA OrderedRanks ==
  ASSUME fresher \in Orders(Cards), NEW where \in {"top", "end", "second"}
  PROVE  Ordered(InOrder(Cards, fresher), where) \in [Cards -> ProperRanks]
<1> DEFINE s == InOrder(Cards, fresher)
           n == Cardinality(Cards)
           first == <<FirstRank>>
           step == [r \in ProperRanks |-> DraggedTo(where, first, r)]
           Solves(f) == f = [i \in DOMAIN s |-> IF i = 1 THEN first ELSE DraggedTo(where, f[1], f[i - 1])]
           rank == CHOOSE f : Solves(f)
<1>1. n \in Nat /\ s \in [1..n -> Cards] /\ (\A c \in Cards : \E m \in 1..n : s[m] = c)
  BY BoardAssumption, InOrderFacts
<1>2. Ordered(s, where) = [c \in Cards |-> rank[Place(c, s)]]
  BY DEF Ordered
<1> HIDE DEF s, n
<1>3. first \in ProperRanks
  BY RankAssumption, LetterRank
<1> HIDE DEF first
<1>4. ASSUME NEW e \in ProperRanks, NEW r \in ProperRanks PROVE DraggedTo(where, e, r) \in ProperRanks
  BY RankBetweenProper DEF DraggedTo
<1>5. \E f : Solves(f)
  <2>1. step \in [ProperRanks -> ProperRanks]
    BY <1>3, <1>4
  <2> HIDE DEF step
  <2>a. Iterations(ProperRanks, first, step, n) # {}
    BY <1>1, <1>3, <2>1, IterationExists
  <2>2. PICK f \in [1..n -> ProperRanks] : \A i \in 1..n : f[i] = IF i = 1 THEN first ELSE step[f[i - 1]]
    BY <2>a DEF Iterations
  <2>3. ASSUME NEW i \in 1..n PROVE f[i] = IF i = 1 THEN first ELSE DraggedTo(where, f[1], f[i - 1])
    <3>1. CASE i = 1
      BY <2>2, <3>1
    <3>2. CASE i # 1
      <4>1. i - 1 \in 1..n /\ 1 \in 1..n
        BY <1>1, <3>2
      <4>2. f[1] = first /\ f[i - 1] \in ProperRanks /\ f[i] = step[f[i - 1]]
        BY <2>2, <3>2, <4>1
      <4> QED BY <3>2, <4>2 DEF step
    <3> QED BY <3>1, <3>2
  <2>4. DOMAIN s = 1..n
    BY <1>1
  <2> DEFINE g == [i \in DOMAIN s |-> IF i = 1 THEN first ELSE DraggedTo(where, f[1], f[i - 1])]
  <2>5. f = g
    <3>1. f = [i \in 1..n |-> f[i]]
      OBVIOUS
    <3>2. \A i \in 1..n : f[i] = g[i]
      BY <2>3, <2>4
    <3>3. g = [i \in 1..n |-> g[i]]
      BY <2>4
    <3> HIDE DEF g
    <3> QED BY <3>1, <3>2, <3>3
  <2>6. Solves(f)
    BY <2>5
  <2> HIDE DEF Solves
  <2> QED BY <2>6
<1>6. Solves(rank)
  <2> HIDE DEF Solves
  <2> QED BY <1>5
<1>7. \A i \in 1..n : rank[i] = IF i = 1 THEN first ELSE DraggedTo(where, rank[1], rank[i - 1])
  <2>1. DOMAIN s = 1..n
    BY <1>1
  <2> HIDE DEF rank
  <2> QED BY <1>6, <2>1
<1> HIDE DEF rank
<1>8. \A i \in 1..n : rank[i] \in ProperRanks
  <2> DEFINE Improper == {i \in 1..n : rank[i] \notin ProperRanks}
  <2> SUFFICES ASSUME Improper # {} PROVE FALSE
    OBVIOUS
  <2>1. PICK m \in Improper : \A i \in Improper : m <= i
    <3>1. Improper \in SUBSET Nat
      OBVIOUS
    <3> HIDE DEF Improper
    <3> QED BY <3>1, LeastNatural
  <2>2. m \in 1..n /\ rank[m] \notin ProperRanks
    OBVIOUS
  <2>3. m # 1
    BY <1>3, <1>7, <2>2
  <2>4. m - 1 \in 1..n /\ 1 \in 1..n /\ ~(m <= m - 1) /\ ~(m <= 1)
    BY <1>1, <2>2, <2>3
  <2>5. rank[m - 1] \in ProperRanks /\ rank[1] \in ProperRanks
    BY <2>1, <2>4
  <2> QED BY <1>4, <1>7, <2>2, <2>3, <2>5
<1>9. ASSUME NEW c \in Cards PROVE Place(c, s) \in 1..n
  <2>1. DOMAIN s = 1..n
    BY <1>1
  <2>2. \E m \in DOMAIN s : s[m] = c
    BY <1>1, <2>1
  <2> QED BY <2>1, <2>2 DEF Place
<1> QED BY <1>2, <1>8, <1>9 DEF s

LEMMA BoardInitInv == BoardInit => BoardInv
<1> SUFFICES ASSUME BoardInit PROVE BoardInv
  OBVIOUS
<1>1. fresher \in Orders(Cards)
  BY BoardAssumption, SomeOrder DEF BoardInit
<1>2. rankOf \in [Cards -> Keys]
  <2>1. CASE rankOf = [c \in Cards |-> NoRank]
    BY <2>1 DEF Keys
  <2>2. ASSUME NEW where \in {"top", "end", "second"}, rankOf = Ordered(InOrder(Cards, fresher), where)
        PROVE  rankOf \in [Cards -> Keys]
    <3>1. rankOf \in [Cards -> ProperRanks]
      BY <1>1, <2>2, OrderedRanks
    <3> QED BY <3>1 DEF Keys
  <2> QED BY <2>1, <2>2 DEF BoardInit
<1>3. columnOf \in [Cards -> Columns]
  BY DEF BoardInit
<1>4. copy \in [People -> [order : Orders(Cards), column : [Cards -> Columns]]]
  <2>1. BoardOrder \in Orders(Cards)
    BY <1>1, <1>2, BoardOrderIsOrder
  <2> QED BY <1>3, <2>1 DEF BoardInit
<1>5. drops \in Seq(DropRecords) /\ Len(drops) <= MaxDrops
  <2>1. drops = <<>>
    BY DEF BoardInit
  <2> QED BY <2>1, EmptySeq, BoardAssumption
<1> QED BY <1>1, <1>2, <1>3, <1>4, <1>5 DEF BoardInv

\* A drop changed in place.
LEMMA DropEdited ==
  ASSUME drops \in Seq(DropRecords), NEW i \in Drops, NEW d \in DropRecords,
         drops' = [drops EXCEPT ![i] = d]
  PROVE  drops' \in Seq(DropRecords) /\ Len(drops') = Len(drops)
BY ExceptSeq DEF Drops

LEMMA BoardStepInv == BoardInv /\ BoardNext => BoardInv'
<1> SUFFICES ASSUME BoardInv, BoardNext PROVE BoardInv'
  OBVIOUS
<1>1. ASSUME NEW p \in People, ReloadBoard(p) PROVE BoardInv'
  <2>1. BoardOrder \in Orders(Cards)
    BY BoardOrderIsOrder DEF BoardInv
  <2>2. [order |-> BoardOrder, column |-> columnOf] \in [order : Orders(Cards), column : [Cards -> Columns]]
    BY <2>1 DEF BoardInv
  <2> QED BY <1>1, <2>2 DEF ReloadBoard, BoardInv
<1>2. ASSUME NEW p \in People, NEW c \in Cards, NEW col \in Columns, NEW gap, Drop(p, c, col, gap) PROVE BoardInv'
  <2>1. copy[p].order \in Orders(Cards) /\ Shown(p, col) \in SUBSET Cards /\ Shown(p, col) \ {c} \in SUBSET Cards
    BY DEF BoardInv, Shown
  <2> DEFINE cards == InOrder(Shown(p, col), copy[p].order)
             aim == Neighbours(p, col, c, gap)
             down == \E n \in 1..gap : cards[n] = c
             new == [card |-> c, column |-> col,
                     move |-> IF copy[p].column[c] = col THEN "done" ELSE "sent",
                     rank |-> "sent", after |-> aim.after, before |-> aim.before,
                     prev |-> NoRank, next |-> NoRank,
                     above |-> CardAt(cards, gap), below |-> CardAt(cards, gap + 1),
                     down |-> down, quiet |-> UpToDate(p)]
  <2>2. drops' = Append(drops, new) /\ Len(drops) < MaxDrops
    BY <1>2 DEF Drop
  <2>3. CardAt(cards, gap) \in Aims /\ CardAt(cards, gap + 1) \in Aims
    BY <2>1, CardsShown
  <2>4. aim.after \in Aims /\ aim.before \in Aims
    BY <2>1, CardsShown DEF Neighbours
  <2>5. down \in BOOLEAN /\ UpToDate(p) \in BOOLEAN
    BY DEF UpToDate
  <2> HIDE DEF cards, aim, down
  <2>6. new \in DropRecords
    BY <2>3, <2>4, <2>5 DEF DropRecords, Keys
  <2> HIDE DEF new
  <2>7. drops' \in Seq(DropRecords) /\ Len(drops') = Len(drops) + 1
    BY <2>2, <2>6, AppendProperties DEF BoardInv
  <2>8. Len(drops) \in Nat
    BY LenProperties DEF BoardInv
  <2>9. Len(drops') <= MaxDrops
    BY <2>2, <2>7, <2>8, BoardAssumption
  <2>10. UNCHANGED <<rankOf, columnOf, fresher, copy>>
    BY <1>2 DEF Drop
  <2> QED BY <2>7, <2>9, <2>10 DEF BoardInv
<1>3. ASSUME NEW i \in Drops, MoveCard(i) \/ RefuseMove(i) \/ NeighbourRanks(i) \/ SetIssueRank(i) PROVE BoardInv'
  <2>1. drops[i] \in DropRecords
    BY ElementOfSeq DEF BoardInv, Drops
  <2> DEFINE RankAt(c) == IF c = NoRank THEN NoRank ELSE rankOf[c]
  <2>2. \A c \in Aims : RankAt(c) \in Keys
    BY BoardAssumption DEF BoardInv, Keys, Aims
  <2>3. drops' \in Seq(DropRecords) /\ Len(drops') = Len(drops)
    <3>1. CASE MoveCard(i)
      <4>1. drops' = [drops EXCEPT ![i] = [drops[i] EXCEPT !.move = "done"]]
        BY <3>1 DEF MoveCard
      <4>2. [drops[i] EXCEPT !.move = "done"] \in DropRecords
        BY <2>1 DEF DropRecords
      <4> QED BY <4>1, <4>2, DropEdited DEF BoardInv
    <3>2. CASE RefuseMove(i)
      <4>1. drops' = [drops EXCEPT ![i] = [drops[i] EXCEPT !.move = "done", !.quiet = FALSE]]
        BY <3>2 DEF RefuseMove, BoardInv
      <4>2. [drops[i] EXCEPT !.move = "done", !.quiet = FALSE] \in DropRecords
        BY <2>1 DEF DropRecords
      <4> QED BY <4>1, <4>2, DropEdited DEF BoardInv
    <3>3. CASE NeighbourRanks(i)
      <4> DEFINE d == [drops[i] EXCEPT !.rank = "read", !.prev = RankAt(drops[i].after), !.next = RankAt(drops[i].before)]
      <4>1. drops' = [drops EXCEPT ![i] = d]
        BY <3>3 DEF NeighbourRanks, BoardInv
      <4>2. RankAt(drops[i].after) \in Keys /\ RankAt(drops[i].before) \in Keys
        BY <2>1, <2>2 DEF DropRecords
      <4> HIDE DEF RankAt
      <4>3. d \in DropRecords
        BY <2>1, <4>2 DEF DropRecords
      <4> HIDE DEF d
      <4> QED BY <4>1, <4>3, DropEdited DEF BoardInv
    <3>4. CASE SetIssueRank(i)
      <4>1. drops' = [drops EXCEPT ![i] = [drops[i] EXCEPT !.rank = "done"]]
        BY <3>4 DEF SetIssueRank
      <4>2. [drops[i] EXCEPT !.rank = "done"] \in DropRecords
        BY <2>1 DEF DropRecords
      <4> QED BY <4>1, <4>2, DropEdited DEF BoardInv
    <3> QED BY <1>3, <3>1, <3>2, <3>3, <3>4
  <2>4. (rankOf \in [Cards -> Keys])'
    <3>1. CASE SetIssueRank(i)
      <4>1. RankBetween(drops[i].prev, drops[i].next) \in Keys
        BY <2>1, RankBetweenProper DEF DropRecords, Keys
      <4> QED BY <3>1, <4>1 DEF SetIssueRank, BoardInv
    <3>2. CASE UNCHANGED rankOf
      BY <3>2 DEF BoardInv
    <3> QED BY <1>3, <3>1, <3>2 DEF MoveCard, RefuseMove, NeighbourRanks
  <2>5. (columnOf \in [Cards -> Columns])' /\ (fresher \in Orders(Cards))'
    <3>1. CASE MoveCard(i)
      <4> DEFINE c == drops[i].card
      <4>1. c \in Cards /\ drops[i].column \in Columns
        BY <2>1 DEF DropRecords
      <4>2. columnOf' \in [Cards -> Columns]
        BY <3>1, <4>1 DEF MoveCard, BoardInv
      <4>3. fresher' = {cd \in fresher : c \notin {cd[1], cd[2]}} \cup ({c} \X (Cards \ {c}))
        BY <3>1 DEF MoveCard
      <4> HIDE DEF c
      <4>4. fresher' \in Orders(Cards)
        <5>1. /\ fresher \in SUBSET (Cards \X Cards)
              /\ \A d, e \in Cards : <<d, e>> \in fresher <=> d # e /\ <<e, d>> \notin fresher
              /\ \A d, e, f \in Cards : <<d, e>> \in fresher /\ <<e, f>> \in fresher => <<d, f>> \in fresher
          BY DEF BoardInv, Orders
        <5>2. fresher' \in SUBSET (Cards \X Cards)
          BY <4>1, <4>3, <5>1
        <5>3. \A d, e \in Cards : <<d, e>> \in fresher' <=>
                 IF d = c THEN e # c ELSE e # c /\ <<d, e>> \in fresher
          BY <4>1, <4>3
        <5> QED BY <4>1, <5>1, <5>2, <5>3 DEF Orders
      <4> QED BY <4>2, <4>4
    <3>2. CASE UNCHANGED <<columnOf, fresher>>
      BY <3>2 DEF BoardInv
    <3> QED BY <1>3, <3>1, <3>2 DEF SetIssueRank, RefuseMove, NeighbourRanks
  <2>6. UNCHANGED copy
    BY <1>3 DEF MoveCard, SetIssueRank, RefuseMove, NeighbourRanks
  <2> QED BY <2>3, <2>4, <2>5, <2>6 DEF BoardInv
<1> QED BY <1>1, <1>2, <1>3 DEF BoardNext

LEMMA BoardRestInv == BoardInv /\ UNCHANGED boardVars => BoardInv'
BY DEF BoardInv, boardVars

LEMMA BoardInvTypes == BoardInv => BoardTypeOK /\ RankBetweenFits
<1> SUFFICES ASSUME BoardInv PROVE BoardTypeOK /\ RankBetweenFits
  OBVIOUS
<1>1. BoardTypeOK
  BY KeysAreWords DEF BoardInv, BoardTypeOK, Words
<1>2. Ranks \subseteq ProperRanks
  BY DEF BoardInv, Ranks, Keys
<1>3. \A r \in ProperRanks : r[Len(r)] # 0
  BY DEF ProperRanks
<1> QED BY <1>1, <1>2, <1>3, RankBetweenIsBetween DEF RankBetweenFits

-----------------------------------------------------------------------------
\* The cards of the column a drop goes to, without its own.
Others(d) == {x \in Cards \ {d.card} : columnOf[x] = d.column}

\* What rankIssue finds for a neighbour.
KeyAt(c) == IF c = NoRank THEN NoRank ELSE rankOf[c]

\* The neighbours a drop names are two cards of that column with nothing between them, or its ends.
AimsAtGap(d) ==
  /\ {d.after, d.before} \subseteq Others(d) \cup {NoRank}
  /\ d.after # NoRank /\ d.before # NoRank => Above(d.after, d.before)
  /\ \A x \in Others(d) :
       \/ d.after # NoRank /\ (x = d.after \/ Above(x, d.after))
       \/ d.before # NoRank /\ (x = d.before \/ Above(d.before, x))

\* Unless the card came from above, those neighbours are the cards seen on either side of it.
SeenFromBelow(d) == ~d.down => d.above = d.after /\ d.below \in {NoRank, d.before, d.card}

\* Of the last drop, if it was made on a page that was up to date and met no other: the others
\* are done, it is aimed at a gap that is still there, and what it read and wrote is what stands
\* on the two sides of that gap.
QuietInv ==
  \A i \in Drops : i = Len(drops) /\ drops[i].quiet =>
    /\ \A j \in Drops : j # i => drops[j].move = "done" /\ drops[j].rank = "done"
    /\ AimsAtGap(drops[i]) /\ SeenFromBelow(drops[i])
    /\ drops[i].rank = "read" => /\ drops[i].prev = KeyAt(drops[i].after)
                                 /\ drops[i].next = KeyAt(drops[i].before)
    /\ drops[i].rank = "done" =>
         rankOf[drops[i].card] = RankBetween(KeyAt(drops[i].after), KeyAt(drops[i].before))

-----------------------------------------------------------------------------
\* In a row each has its place.
LEMMA PlaceFacts ==
  ASSUME NEW T, NEW before \in Orders(T), NEW S \in SUBSET T, IsFiniteSet(S)
  PROVE  LET s == InOrder(S, before) IN
         /\ Len(s) = Cardinality(S) /\ Len(s) \in Nat /\ DOMAIN s = 1..Len(s)
         /\ \A n \in 1..Len(s) : s[n] \in S /\ Place(s[n], s) = n
         /\ \A c \in S : Place(c, s) \in 1..Len(s) /\ s[Place(c, s)] = c
<1> DEFINE s == InOrder(S, before)
<1>1. /\ Cardinality(S) \in Nat /\ s \in [1..Cardinality(S) -> S]
      /\ \A c \in S : \E n \in 1..Cardinality(S) : s[n] = c
      /\ \A m, n \in 1..Cardinality(S) : m < n => <<s[m], s[n]>> \in before
  BY InOrderFacts
<1> HIDE DEF s
<1>2. Len(s) = Cardinality(S) /\ DOMAIN s = 1..Len(s) /\ Len(s) \in Nat
  <2>1. s \in Seq(S)
    BY <1>1, SeqDef
  <2>2. Len(s) \in Nat /\ DOMAIN s = 1..Len(s)
    BY <2>1, LenProperties
  <2>3. DOMAIN s = 1..Cardinality(S)
    BY <1>1
  <2> QED BY <1>1, <2>2, <2>3
<1>3. \A m, n \in 1..Len(s) : s[m] = s[n] => m = n
  <2> SUFFICES ASSUME NEW m \in 1..Len(s), NEW n \in 1..Len(s), s[m] = s[n], m < n PROVE FALSE
    BY <1>2
  <2>1. <<s[m], s[m]>> \in before /\ s[m] \in T
    BY <1>1, <1>2
  <2> QED BY <2>1 DEF Orders
<1>4. ASSUME NEW n \in 1..Len(s) PROVE s[n] \in S /\ Place(s[n], s) = n
  <2>1. s[n] \in S
    BY <1>1, <1>2
  <2> DEFINE c == s[n]
             P(m) == s[m] = c
  <2>2. Place(c, s) = (CHOOSE m \in DOMAIN s : P(m)) /\ \E m \in DOMAIN s : P(m)
    BY <1>2 DEF Place
  <2>3. \A m \in DOMAIN s : P(m) => m = n
    BY <1>2, <1>3
  <2> HIDE DEF P
  <2>4. Place(c, s) = n
    BY <2>2, <2>3
  <2> QED BY <2>1, <2>4
<1>5. ASSUME NEW c \in S PROVE Place(c, s) \in 1..Len(s) /\ s[Place(c, s)] = c
  BY <1>1, <1>2, <1>4
<1> QED BY <1>2, <1>4, <1>5 DEF s

\* In a row of the elements of S, c comes after a, and every other is before a or after c.
NothingBetween(a, c, S, before) ==
  <<a, c>> \in before /\ \A x \in S : x = a \/ x = c \/ <<x, a>> \in before \/ <<c, x>> \in before

\* c stands right after a.
NextTo(a, c, s) ==
  /\ Place(c, s) > 1 /\ s[Place(c, s) - 1] = a
  /\ Place(a, s) < Len(s) /\ s[Place(a, s) + 1] = c

\* Two with nothing between stand side by side.
LEMMA SideBySide ==
  \A before \in Orders(Cards) : \A S \in SUBSET Cards : IsFiniteSet(S) =>
    \A a, c \in S : NothingBetween(a, c, S, before) => NextTo(a, c, InOrder(S, before))
<1> SUFFICES ASSUME NEW before \in Orders(Cards), NEW S \in SUBSET Cards, IsFiniteSet(S),
                    NEW a \in S, NEW c \in S, NothingBetween(a, c, S, before)
             PROVE  NextTo(a, c, InOrder(S, before))
  BY Zenon
<1> DEFINE s == InOrder(S, before)
           m == Place(a, s)
           n == Place(c, s)
<1>1. /\ Len(s) = Cardinality(S) /\ Len(s) \in Nat
      /\ m \in 1..Len(s) /\ s[m] = a /\ n \in 1..Len(s) /\ s[n] = c
      /\ \A k \in 1..Len(s) : s[k] \in S
  BY PlaceFacts
<1>2. \A k, l \in 1..Len(s) : k < l => <<s[k], s[l]>> \in before
  BY <1>1, InOrderFacts
<1> HIDE DEF s, m, n
<1>3. /\ \A d, e \in Cards : <<d, e>> \in before <=> d # e /\ <<e, d>> \notin before
      /\ \A d, e, f \in Cards : <<d, e>> \in before /\ <<e, f>> \in before => <<d, f>> \in before
  BY DEF Orders
<1>6. <<a, c>> \in before /\ \A x \in S : x = a \/ x = c \/ <<x, a>> \in before \/ <<c, x>> \in before
  BY DEF NothingBetween
<1>4. m < n
  <2>1. m # n
    BY <1>1, <1>3, <1>6
  <2>2. ~(n < m)
    BY <1>1, <1>2, <1>3, <1>6
  <2> QED BY <1>1, <2>1, <2>2
<1>5. n = m + 1
  <2> SUFFICES ASSUME m + 1 < n PROVE FALSE
    BY <1>1, <1>4
  <2>1. m + 1 \in 1..Len(s) /\ m < m + 1
    BY <1>1
  <2> DEFINE x == s[m + 1]
  <2>2. x \in S /\ <<a, x>> \in before /\ <<x, c>> \in before
    BY <1>1, <1>2, <2>1
  <2> HIDE DEF x
  <2> QED BY <1>3, <1>6, <2>2
<1> QED BY <1>1, <1>4, <1>5 DEF s, m, n, NextTo

\* One taken out of a row leaves those before it where they are.
LEMMA SamePlaces ==
  \A before \in Orders(Cards) : \A S \in SUBSET Cards : IsFiniteSet(S) =>
    \A c : \A n \in 1..Cardinality(S) : (\A m \in 1..n : InOrder(S, before)[m] # c) =>
      /\ n \in 1..Cardinality(S \ {c})
      /\ InOrder(S \ {c}, before)[n] = InOrder(S, before)[n]
<1> SUFFICES ASSUME NEW before \in Orders(Cards), NEW S \in SUBSET Cards, IsFiniteSet(S), NEW c,
                    NEW n \in 1..Cardinality(S), \A m \in 1..n : InOrder(S, before)[m] # c
             PROVE  /\ n \in 1..Cardinality(S \ {c})
                    /\ InOrder(S \ {c}, before)[n] = InOrder(S, before)[n]
  BY Zenon
<1> DEFINE s == InOrder(S, before)
           R == S \ {c}
           r == InOrder(R, before)
<1>1. /\ Len(s) = Cardinality(S) /\ Len(s) \in Nat
      /\ \A k \in 1..Len(s) : s[k] \in S /\ Place(s[k], s) = k
      /\ \A k, l \in 1..Len(s) : k < l => <<s[k], s[l]>> \in before
      /\ \A x \in S : \E k \in 1..Len(s) : s[k] = x
  BY PlaceFacts, InOrderFacts
<1>2. IsFiniteSet(R) /\ R \in SUBSET Cards
  BY FS_Subset
<1> HIDE DEF R
<1>3. /\ Len(r) = Cardinality(R) /\ Len(r) \in Nat
      /\ \A k \in 1..Len(r) : r[k] \in R /\ Place(r[k], r) = k
      /\ \A k, l \in 1..Len(r) : k < l => <<r[k], r[l]>> \in before
      /\ \A x \in R : \E k \in 1..Len(r) : r[k] = x
  BY <1>2, PlaceFacts, InOrderFacts
<1>4. /\ \A d, e \in Cards : <<d, e>> \in before <=> d # e /\ <<e, d>> \notin before
      /\ \A d, e, f \in Cards : <<d, e>> \in before /\ <<e, f>> \in before => <<d, f>> \in before
  BY DEF Orders
<1>5. \A m \in 1..n : s[m] \in R
  BY <1>1 DEF R
<1> HIDE DEF s, r
\* The first place where the rows differ.
<1>6. \A m \in 1..n : m \in 1..Len(r) /\ r[m] = s[m]
  <2> DEFINE Differ == {m \in 1..n : ~(m \in 1..Len(r) /\ r[m] = s[m])}
  <2> SUFFICES ASSUME Differ # {} PROVE FALSE
    OBVIOUS
  <2>1. PICK m \in Differ : \A k \in Differ : m <= k
    <3>1. Differ \in SUBSET Nat
      OBVIOUS
    <3> HIDE DEF Differ
    <3> QED BY <3>1, LeastNatural
  <2>2. m \in 1..n /\ m \in 1..Len(s) /\ \A k \in 1..n : k < m => k \in 1..Len(r) /\ r[k] = s[k]
    BY <1>1, <2>1
  <2>3. PICK l \in 1..Len(r) : r[l] = s[m]
    BY <1>3, <1>5, <2>2
  <2>4. ~(l < m)
    <3>1. SUFFICES ASSUME l < m PROVE FALSE
      OBVIOUS
    <3>2. r[l] = s[l] /\ l \in 1..Len(s)
      BY <1>1, <2>2, <3>1
    <3>3. Place(s[l], s) = l /\ Place(s[m], s) = m
      BY <1>1, <2>2, <3>2
    <3> QED BY <2>3, <3>1, <3>2, <3>3
  <2>5. ~(m < l)
    <3>1. SUFFICES ASSUME m < l PROVE FALSE
      OBVIOUS
    <3>2. m \in 1..Len(r)
      BY <2>2, <2>3, <3>1
    <3>3. r[m] \in R /\ <<r[m], s[m]>> \in before
      BY <1>3, <2>3, <3>1, <3>2
    <3>4. PICK k \in 1..Len(s) : s[k] = r[m]
      BY <1>1, <3>3 DEF R
    <3>5. k < m
      <4>1. k # m
        BY <1>4, <1>5, <2>2, <3>3, <3>4 DEF R
      <4>2. ~(m < k)
        <5>1. SUFFICES ASSUME m < k PROVE FALSE
          OBVIOUS
        <5>2. <<s[m], s[k]>> \in before /\ s[m] \in Cards /\ s[k] \in Cards
          BY <1>1, <2>2, <5>1
        <5> QED BY <1>4, <3>3, <3>4, <5>2
      <4> QED BY <1>1, <2>2, <4>1, <4>2
    <3>6. r[k] = s[k] /\ k \in 1..Len(r)
      BY <1>1, <2>2, <3>5
    <3>7. Place(r[k], r) = k /\ Place(r[m], r) = m
      BY <1>3, <3>2, <3>6
    <3> QED BY <3>4, <3>5, <3>6, <3>7, <2>2
  <2>6. l = m
    BY <1>3, <2>2, <2>3, <2>4, <2>5
  <2> QED BY <2>1, <2>3, <2>6
<1>7. n \in 1..n
  BY <1>1
<1> QED BY <1>3, <1>6, <1>7 DEF s, r, R

\* A new drop on a page that shows the board as it is.
LEMMA DropAims ==
  ASSUME BoardInv, NEW p \in People, NEW c \in Cards, NEW col \in Columns, NEW gap \in Nat,
         gap \in 0..Len(InOrder(Shown(p, col), copy[p].order)),
         copy[p] = [order |-> BoardOrder, column |-> columnOf],
         NEW d, d.card = c, d.column = col,
         d.after = Neighbours(p, col, c, gap).after, d.before = Neighbours(p, col, c, gap).before
  PROVE  AimsAtGap(d)
<1> DEFINE S == {x \in Cards : columnOf[x] = col}
           R == S \ {c}
           r == InOrder(R, BoardOrder)
           target == IF gap < Len(r) THEN gap ELSE Len(r)
<1>1. BoardOrder \in Orders(Cards)
  BY BoardOrderIsOrder DEF BoardInv
<1>2. IsFiniteSet(R) /\ R \in SUBSET Cards
  BY BoardAssumption, FS_Subset
<1>3. Shown(p, col) = S /\ copy[p].order = BoardOrder /\ Others(d) = R
  BY DEF Shown, Others
<1>4. d.after = CardAt(r, target) /\ d.before = CardAt(r, target + 1)
  BY <1>3 DEF Neighbours
<1> HIDE DEF R
<1>5. /\ Len(r) \in Nat /\ DOMAIN r = 1..Len(r)
      /\ \A k \in 1..Len(r) : r[k] \in R
      /\ \A k, l \in 1..Len(r) : k < l => <<r[k], r[l]>> \in BoardOrder
      /\ \A x \in R : \E k \in 1..Len(r) : r[k] = x
  BY <1>1, <1>2, PlaceFacts, InOrderFacts
<1> HIDE DEF r
<1>6. target \in 0..Len(r)
  BY <1>5
<1> HIDE DEF target
<1>7. \A x, y \in Cards : <<x, y>> \in BoardOrder <=> Above(x, y)
  BY DEF BoardOrder
<1>8. NoRank \notin Cards
  BY BoardAssumption
<1>9. {d.after, d.before} \subseteq R \cup {NoRank}
  BY <1>4, <1>5 DEF CardAt
<1>10. d.after # NoRank => target \in 1..Len(r) /\ d.after = r[target]
  BY <1>4, <1>5 DEF CardAt
<1>11. d.before # NoRank => target + 1 \in 1..Len(r) /\ d.before = r[target + 1]
  BY <1>4, <1>5 DEF CardAt
<1>12. d.after # NoRank /\ d.before # NoRank => Above(d.after, d.before)
  <2> SUFFICES ASSUME d.after # NoRank, d.before # NoRank PROVE Above(d.after, d.before)
    OBVIOUS
  <2>1. <<r[target], r[target + 1]>> \in BoardOrder
    BY <1>5, <1>10, <1>11
  <2> QED BY <1>2, <1>7, <1>9, <1>10, <1>11, <2>1
<1>13. ASSUME NEW x \in R
       PROVE  \/ d.after # NoRank /\ (x = d.after \/ Above(x, d.after))
              \/ d.before # NoRank /\ (x = d.before \/ Above(d.before, x))
  <2>1. PICK k \in 1..Len(r) : r[k] = x
    BY <1>5
  <2>2. CASE k <= target
    <3>1. target \in 1..Len(r) /\ d.after = r[target]
      BY <1>4, <1>5, <1>6, <2>2 DEF CardAt
    <3>2. d.after \in Cards /\ d.after # NoRank
      BY <1>2, <1>5, <1>8, <3>1
    <3>3. k # target => <<x, d.after>> \in BoardOrder
      BY <1>5, <2>1, <2>2, <3>1
    <3> QED BY <1>2, <1>7, <2>1, <3>1, <3>2, <3>3
  <2>3. CASE ~(k <= target)
    <3>1. target + 1 \in 1..Len(r) /\ d.before = r[target + 1]
      BY <1>4, <1>5, <1>6, <2>3 DEF CardAt
    <3>2. d.before \in Cards /\ d.before # NoRank
      BY <1>2, <1>5, <1>8, <3>1
    <3>3. k # target + 1 => <<d.before, x>> \in BoardOrder
      BY <1>5, <1>6, <2>1, <2>3, <3>1
    <3> QED BY <1>2, <1>7, <2>1, <3>1, <3>2, <3>3
  <2> QED BY <2>2, <2>3
<1> QED BY <1>3, <1>9, <1>12, <1>13 DEF AimsAtGap

\* A card that comes from below, or from another column, is put between what it is seen between.
LEMMA DropSeen ==
  ASSUME BoardInv, NEW p \in People, NEW c \in Cards, NEW col \in Columns,
         NEW gap \in 0..Len(InOrder(Shown(p, col), copy[p].order)),
         \A n \in 1..gap : InOrder(Shown(p, col), copy[p].order)[n] # c
  PROVE  /\ CardAt(InOrder(Shown(p, col), copy[p].order), gap) = Neighbours(p, col, c, gap).after
         /\ CardAt(InOrder(Shown(p, col), copy[p].order), gap + 1) \in {NoRank, Neighbours(p, col, c, gap).before, c}
<1> DEFINE S == Shown(p, col)
           O == copy[p].order
           R == S \ {c}
           s == InOrder(S, O)
           r == InOrder(R, O)
           aim == Neighbours(p, col, c, gap)
<1>1. O \in Orders(Cards) /\ S \in SUBSET Cards
  BY DEF BoardInv, Shown
<1>2. gap \in 0..Len(s) /\ \A n \in 1..gap : s[n] # c
  OBVIOUS
<1>3. /\ aim.after = CardAt(r, IF gap < Len(r) THEN gap ELSE Len(r))
      /\ aim.before = CardAt(r, (IF gap < Len(r) THEN gap ELSE Len(r)) + 1)
  BY DEF Neighbours
<1> HIDE DEF S, O, aim
<1>4. IsFiniteSet(S)
  BY <1>1, BoardAssumption, FS_Subset
<1>5. IsFiniteSet(R) /\ R \in SUBSET Cards
  BY <1>1, <1>4, FS_Subset
<1>6. Len(s) = Cardinality(S) /\ Len(s) \in Nat /\ DOMAIN s = 1..Len(s)
  BY <1>1, <1>4, PlaceFacts
<1>7. ASSUME NEW n \in 1..Cardinality(S), \A m \in 1..n : s[m] # c
      PROVE  n \in 1..Cardinality(R) /\ r[n] = s[n]
  <2>1. \A m \in 1..n : InOrder(S, O)[m] # c
    BY <1>7
  <2>2. /\ n \in 1..Cardinality(S \ {c})
        /\ InOrder(S \ {c}, O)[n] = InOrder(S, O)[n]
    <3>1. IsFiniteSet(S) => \A e : \A k \in 1..Cardinality(S) :
            (\A m \in 1..k : InOrder(S, O)[m] # e) =>
               /\ k \in 1..Cardinality(S \ {e})
               /\ InOrder(S \ {e}, O)[k] = InOrder(S, O)[k]
      <4>1. O \in Orders(Cards) /\ S \in SUBSET Cards
        BY <1>1
      <4> QED BY ONLY <4>1, SamePlaces, Zenon
    <3> QED BY <1>4, <2>1, <3>1
  <2> QED BY <2>2
<1> HIDE DEF R, s
<1>8. Len(r) = Cardinality(R) /\ Len(r) \in Nat /\ DOMAIN r = 1..Len(r)
  BY <1>1, <1>5, PlaceFacts
<1> HIDE DEF r
<1>9. gap <= Len(r) /\ (gap # 0 => r[gap] = s[gap])
  BY <1>2, <1>6, <1>7, <1>8
<1>10. CardAt(s, gap) = aim.after
  BY <1>2, <1>3, <1>6, <1>8, <1>9 DEF CardAt
<1>11. CardAt(s, gap + 1) \in {NoRank, aim.before, c}
  <2> SUFFICES ASSUME gap + 1 \in 1..Len(s), s[gap + 1] # c PROVE s[gap + 1] = aim.before
    BY <1>6 DEF CardAt
  <2>1. \A m \in 1..(gap + 1) : s[m] # c
    BY <1>2, <1>6
  <2>2. gap + 1 \in 1..Len(r) /\ r[gap + 1] = s[gap + 1]
    BY <1>6, <1>7, <1>8, <2>1
  <2> QED BY <1>3, <1>8, <1>9, <2>2 DEF CardAt
<1> QED BY <1>10, <1>11 DEF s, S, O, aim

\* Nothing is dropped yet, and what only reloads a page changes nothing of it.
LEMMA QuietInit == BoardInit => QuietInv
<1> SUFFICES ASSUME BoardInit PROVE QuietInv
  OBVIOUS
<1>1. drops = <<>>
  BY DEF BoardInit
<1>2. Drops = {}
  BY <1>1 DEF Drops
<1> QED BY <1>2 DEF QuietInv

LEMMA QuietRest == QuietInv /\ UNCHANGED <<rankOf, columnOf, fresher, drops>> => QuietInv'
BY DEF QuietInv, Drops, AimsAtGap, Others, Above, SeenFromBelow, KeyAt

\* What happens to the card itself leaves the gap it is aimed at.
LEMMA AimsKept ==
  ASSUME BoardInv, NEW i \in Drops, AimsAtGap(drops[i]),
         /\ drops'[i].card = drops[i].card /\ drops'[i].column = drops[i].column
         /\ drops'[i].after = drops[i].after /\ drops'[i].before = drops[i].before,
         \A x \in Cards \ {drops[i].card} : columnOf'[x] = columnOf[x] /\ rankOf'[x] = rankOf[x],
         \A x, y \in Cards \ {drops[i].card} : <<x, y>> \in fresher' <=> <<x, y>> \in fresher
  PROVE  /\ AimsAtGap(drops[i])'
         /\ KeyAt(drops[i].after)' = KeyAt(drops[i].after)
         /\ KeyAt(drops[i].before)' = KeyAt(drops[i].before)
<1>1. Others(drops[i])' = Others(drops[i]) /\ Others(drops[i]) \subseteq Cards \ {drops[i].card}
  BY DEF Others
<1>2. \A x, y \in Others(drops[i]) : Above(x, y)' <=> Above(x, y)
  BY <1>1 DEF Above
<1>3. {drops[i].after, drops[i].before} \subseteq Others(drops[i]) \cup {NoRank}
  BY DEF AimsAtGap
<1>4. KeyAt(drops[i].after)' = KeyAt(drops[i].after) /\ KeyAt(drops[i].before)' = KeyAt(drops[i].before)
  BY <1>1, <1>3 DEF KeyAt
<1>5. AimsAtGap(drops[i])'
  <2>1. ({drops[i].after, drops[i].before} \subseteq Others(drops[i]) \cup {NoRank})'
    BY <1>1, <1>3
  <2>2. (drops[i].after # NoRank /\ drops[i].before # NoRank => Above(drops[i].after, drops[i].before))'
    <3> SUFFICES ASSUME drops[i].after # NoRank, drops[i].before # NoRank
                 PROVE  Above(drops[i].after, drops[i].before)'
      OBVIOUS
    <3>1. Above(drops[i].after, drops[i].before)
      BY DEF AimsAtGap
    <3> QED BY <1>1, <1>3, <3>1 DEF Above
  <2>3. (\A x \in Others(drops[i]) :
          \/ drops[i].after # NoRank /\ (x = drops[i].after \/ Above(x, drops[i].after))
          \/ drops[i].before # NoRank /\ (x = drops[i].before \/ Above(drops[i].before, x)))'
    <3>1. \A x \in Others(drops[i]) :
          \/ drops[i].after # NoRank /\ (x = drops[i].after \/ Above(x, drops[i].after))
          \/ drops[i].before # NoRank /\ (x = drops[i].before \/ Above(drops[i].before, x))
      BY DEF AimsAtGap
    <3> QED BY <1>1, <1>3, <3>1 DEF Above
  <2> QED BY <2>1, <2>2, <2>3 DEF AimsAtGap
<1> QED BY <1>4, <1>5

\* A card dropped: if the page is up to date it is aimed at the gap the user sees.
LEMMA QuietDrop ==
  ASSUME BoardInv, NEW p \in People, NEW c \in Cards, NEW col \in Columns, NEW gap \in 0..Cardinality(Cards),
         Drop(p, c, col, gap)
  PROVE  QuietInv'
<1> DEFINE cards == InOrder(Shown(p, col), copy[p].order)
           aim == Neighbours(p, col, c, gap)
           down == \E n \in 1..gap : cards[n] = c
           new == [card |-> c, column |-> col,
                   move |-> IF copy[p].column[c] = col THEN "done" ELSE "sent",
                   rank |-> "sent", after |-> aim.after, before |-> aim.before,
                   prev |-> NoRank, next |-> NoRank,
                   above |-> CardAt(cards, gap), below |-> CardAt(cards, gap + 1),
                   down |-> down, quiet |-> UpToDate(p)]
<1>1. /\ drops' = Append(drops, new) /\ gap \in 0..Len(cards)
      /\ UNCHANGED <<rankOf, columnOf, fresher, copy>>
  BY DEF Drop
<1>2. /\ new.card = c /\ new.column = col /\ new.after = aim.after /\ new.before = aim.before
      /\ new.above = CardAt(cards, gap) /\ new.below = CardAt(cards, gap + 1) /\ new.rank = "sent"
  OBVIOUS
<1>3. (new.down <=> down) /\ (new.quiet <=> UpToDate(p))
  OBVIOUS
<1>4. UpToDate(p) => AimsAtGap(new)
  <2> SUFFICES ASSUME UpToDate(p) PROVE AimsAtGap(new)
    OBVIOUS
  <2>1. copy[p] = [order |-> BoardOrder, column |-> columnOf]
    BY DEF UpToDate
  <2> HIDE DEF new
  <2> QED BY <1>1, <1>2, <2>1, DropAims
<1>5. ~down => /\ CardAt(cards, gap) = aim.after
               /\ CardAt(cards, gap + 1) \in {NoRank, aim.before, c}
  BY <1>1, DropSeen
<1> HIDE DEF new
<1>6. UpToDate(p) => \A j \in Drops : drops[j].move = "done" /\ drops[j].rank = "done"
  BY DEF UpToDate
<1> HIDE DEF cards, aim, down
<1>7. Len(drops) \in Nat /\ Len(drops') = Len(drops) + 1 /\ drops'[Len(drops) + 1] = new
      /\ \A j \in 1..Len(drops) : drops'[j] = drops[j]
  BY <1>1, LenProperties, AppendProperties DEF BoardInv
<1> SUFFICES ASSUME NEW i \in Drops', i = Len(drops'), drops'[i].quiet
             PROVE  /\ \A j \in Drops' : j # i => drops'[j].move = "done" /\ drops'[j].rank = "done"
                    /\ AimsAtGap(drops[i])' /\ SeenFromBelow(drops[i])'
                    /\ drops'[i].rank = "sent"
  BY DEF QuietInv, Drops
<1>8. drops'[i] = new
  BY <1>7
<1>9. UpToDate(p)
  BY <1>3, <1>8
<1>10. \A j \in Drops' : j # i => drops'[j].move = "done" /\ drops'[j].rank = "done"
  BY <1>6, <1>7, <1>9 DEF Drops
<1>11. AimsAtGap(drops[i])'
  <2>1. AimsAtGap(new)
    BY <1>4, <1>9
  <2>2. UNCHANGED <<rankOf, columnOf, fresher>>
    BY <1>1
  <2> QED BY <1>8, <2>1, <2>2 DEF AimsAtGap, Others, Above
<1>12. SeenFromBelow(drops[i])'
  <2>1. ~drops'[i].down => ~down
    BY <1>3, <1>8
  <2> QED BY <1>2, <1>5, <1>8, <2>1 DEF SeenFromBelow
<1> QED BY <1>2, <1>8, <1>10, <1>11, <1>12

\* A request of a drop served: of a quiet one it is the last, all others being done.
LEMMA QuietRequest ==
  ASSUME BoardInv, QuietInv, NEW i \in Drops,
         MoveCard(i) \/ RefuseMove(i) \/ NeighbourRanks(i) \/ SetIssueRank(i)
  PROVE  QuietInv'
<1> DEFINE d == drops[i]
<1>1. /\ d \in DropRecords /\ Len(drops) \in Nat
      /\ d.card \in Cards /\ d.column \in Columns /\ d.after \in Aims /\ d.before \in Aims
  <2>1. d \in DropRecords /\ Len(drops) \in Nat
    BY ElementOfSeq, LenProperties DEF BoardInv, Drops
  <2> QED BY <2>1 DEF DropRecords
<1>2. /\ Drops' = Drops /\ Len(drops') = Len(drops)
      /\ \A j \in Drops : j # i => drops'[j] = drops[j]
      /\ drops'[i].card = d.card /\ drops'[i].column = d.column
      /\ drops'[i].after = d.after /\ drops'[i].before = d.before
      /\ drops'[i].above = d.above /\ drops'[i].below = d.below
  BY <1>1 DEF MoveCard, RefuseMove, NeighbourRanks, SetIssueRank, Drops, BoardInv, DropRecords
<1>3. d.move = "sent" \/ d.rank # "done"
  BY DEF MoveCard, RefuseMove, NeighbourRanks, SetIssueRank
<1>4. (drops'[i].down <=> d.down) /\ (drops'[i].quiet => d.quiet) /\ (RefuseMove(i) => ~drops'[i].quiet)
  BY <1>1 DEF MoveCard, RefuseMove, NeighbourRanks, SetIssueRank, Drops, BoardInv, DropRecords
<1> SUFFICES ASSUME NEW k \in Drops', k = Len(drops'), drops'[k].quiet
             PROVE  /\ \A j \in Drops' : j # k => drops'[j].move = "done" /\ drops'[j].rank = "done"
                    /\ AimsAtGap(drops[k])' /\ SeenFromBelow(drops[k])'
                    /\ drops'[k].rank = "read" => /\ drops'[k].prev = KeyAt(drops[k].after)'
                                                  /\ drops'[k].next = KeyAt(drops[k].before)'
                    /\ drops'[k].rank = "done" =>
                         rankOf'[drops'[k].card] = RankBetween(KeyAt(drops[k].after)', KeyAt(drops[k].before)')
  BY DEF QuietInv
<1>5. k \in Drops /\ k = Len(drops)
  BY <1>2
<1>6. k = i
  <2> SUFFICES ASSUME k # i PROVE FALSE
    OBVIOUS
  <2>1. drops[k].quiet
    BY <1>2, <1>5
  <2> QED BY <1>3, <1>5, <2>1 DEF QuietInv
<1>7. d.quiet /\ ~RefuseMove(i)
  BY <1>4, <1>6
<1>8. /\ \A j \in Drops : j # i => drops[j].move = "done" /\ drops[j].rank = "done"
      /\ AimsAtGap(d) /\ SeenFromBelow(d)
      /\ d.rank = "read" => d.prev = KeyAt(d.after) /\ d.next = KeyAt(d.before)
      /\ d.rank = "done" => rankOf[d.card] = RankBetween(KeyAt(d.after), KeyAt(d.before))
  BY <1>5, <1>6, <1>7 DEF QuietInv
<1>9. \A j \in Drops' : j # k => drops'[j].move = "done" /\ drops'[j].rank = "done"
  BY <1>2, <1>6, <1>8
<1>10. SeenFromBelow(drops[k])'
  BY <1>2, <1>4, <1>6, <1>8 DEF SeenFromBelow
<1>11. /\ \A x \in Cards \ {d.card} : columnOf'[x] = columnOf[x] /\ rankOf'[x] = rankOf[x]
       /\ \A x, y \in Cards \ {d.card} : <<x, y>> \in fresher' <=> <<x, y>> \in fresher
  <2>1. CASE MoveCard(i)
    BY <1>1, <2>1 DEF MoveCard, BoardInv
  <2>2. CASE NeighbourRanks(i)
    BY <2>2 DEF NeighbourRanks
  <2>3. CASE SetIssueRank(i)
    BY <2>3 DEF SetIssueRank, BoardInv
  <2> QED BY <1>7, <2>1, <2>2, <2>3
<1>12. /\ AimsAtGap(drops[i])'
       /\ KeyAt(drops[i].after)' = KeyAt(drops[i].after)
       /\ KeyAt(drops[i].before)' = KeyAt(drops[i].before)
  BY <1>2, <1>8, <1>11, AimsKept
<1>13. /\ drops'[k].rank = "read" => /\ drops'[k].prev = KeyAt(d.after) /\ drops'[k].next = KeyAt(d.before)
       /\ drops'[k].rank = "done" => rankOf'[d.card] = RankBetween(KeyAt(d.after), KeyAt(d.before))
  <2>1. CASE MoveCard(i)
    <3>1. /\ drops'[i].rank = d.rank /\ drops'[i].prev = d.prev /\ drops'[i].next = d.next
          /\ rankOf' = rankOf
      BY <1>1, <2>1 DEF MoveCard, Drops, BoardInv, DropRecords
    <3> QED BY <1>6, <1>8, <3>1
  <2>2. CASE NeighbourRanks(i)
    <3>1. drops'[i].rank = "read" /\ drops'[i].prev = KeyAt(d.after) /\ drops'[i].next = KeyAt(d.before)
      BY <1>1, <2>2 DEF NeighbourRanks, KeyAt, Drops, BoardInv, DropRecords
    <3> QED BY <1>6, <3>1
  <2>3. CASE SetIssueRank(i)
    <3>1. drops'[i].rank = "done" /\ d.rank = "read" /\ rankOf'[d.card] = RankBetween(d.prev, d.next)
      BY <1>1, <2>3 DEF SetIssueRank, Drops, BoardInv, DropRecords
    <3> QED BY <1>6, <1>8, <3>1
  <2> QED BY <1>7, <2>1, <2>2, <2>3
<1> QED BY <1>2, <1>6, <1>9, <1>10, <1>12, <1>13

LEMMA QuietStep == BoardInv /\ QuietInv /\ BoardNext => QuietInv'
<1> SUFFICES ASSUME BoardInv, QuietInv, BoardNext PROVE QuietInv'
  OBVIOUS
<1>1. ASSUME NEW p \in People, ReloadBoard(p) PROVE QuietInv'
  <2>1. UNCHANGED <<rankOf, columnOf, fresher, drops>>
    BY <1>1 DEF ReloadBoard
  <2> QED BY <2>1, QuietRest
<1> QED BY <1>1, QuietDrop, QuietRequest DEF BoardNext

\* The key written for the gap stands between its two sides, so the card stands between them.
LEMMA QuietLands == BoardInv /\ QuietInv => DropLandsInOrder
<1> SUFFICES ASSUME BoardInv, QuietInv, NEW i \in Drops, Finished(i),
                    \A c \in Others(drops[i]) : rankOf[c] # NoRank,
                    \A c, e \in Others(drops[i]) : c # e => rankOf[c] # rankOf[e],
                    ~drops[i].down
             PROVE  Landed(i)
  BY DEF DropLandsInOrder, Others
<1> DEFINE c == drops[i].card
           after == drops[i].after
           before == drops[i].before
           S == {x \in Cards : columnOf[x] = drops[i].column}
           s == InOrder(S, BoardOrder)
           key == rankOf[c]
<1>1. /\ AimsAtGap(drops[i]) /\ SeenFromBelow(drops[i])
      /\ key = RankBetween(KeyAt(after), KeyAt(before))
      /\ columnOf[c] = drops[i].column
  BY DEF QuietInv, Finished
<1>2. c \in Cards
  <2>1. drops[i] \in DropRecords
    BY ElementOfSeq DEF BoardInv, Drops
  <2> QED BY <2>1 DEF DropRecords
<1>3. /\ BoardOrder \in Orders(Cards)
      /\ \A x, y \in Cards : <<x, y>> \in BoardOrder <=> Above(x, y)
      /\ \A x, y \in Cards : Above(x, y) => x # y
      /\ \A x, y, z \in Cards : Above(x, y) /\ Above(y, z) => Above(x, z)
  <2>1. BoardOrder \in Orders(Cards)
    BY BoardOrderIsOrder DEF BoardInv
  <2>2. \A x, y \in Cards : <<x, y>> \in BoardOrder <=> Above(x, y)
    BY DEF BoardOrder
  <2> QED BY <2>1, <2>2 DEF Orders
<1>4. /\ {after, before} \subseteq Others(drops[i]) \cup {NoRank}
      /\ after # NoRank /\ before # NoRank => Above(after, before)
      /\ \A x \in Others(drops[i]) : \/ after # NoRank /\ (x = after \/ Above(x, after))
                                     \/ before # NoRank /\ (x = before \/ Above(before, x))
  BY <1>1 DEF AimsAtGap
<1>5. drops[i].above = after /\ drops[i].below \in {NoRank, before, c}
  BY <1>1 DEF SeenFromBelow
<1>6. S \in SUBSET Cards /\ IsFiniteSet(S) /\ c \in S
      /\ Others(drops[i]) = S \ {c} /\ NoRank \notin Cards
  BY <1>1, <1>2, BoardAssumption, FS_Subset DEF Others
<1>7. \A x \in Others(drops[i]) : rankOf[x] \in ProperRanks
  BY <1>6 DEF BoardInv, Keys
<1> HIDE DEF S, c, after, before
<1>8. /\ after # NoRank => KeyAt(after) = rankOf[after] /\ KeyAt(after) \in ProperRanks /\ after \in Cards
      /\ after = NoRank => KeyAt(after) = NoRank
  BY <1>4, <1>6, <1>7 DEF KeyAt
<1>9. /\ before # NoRank => KeyAt(before) = rankOf[before] /\ KeyAt(before) \in ProperRanks /\ before \in Cards
      /\ before = NoRank => KeyAt(before) = NoRank
  BY <1>4, <1>6, <1>7 DEF KeyAt
<1>10. after # NoRank /\ before # NoRank => SortsBefore(KeyAt(after), KeyAt(before))
  <2> SUFFICES ASSUME after # NoRank, before # NoRank PROVE SortsBefore(KeyAt(after), KeyAt(before))
    OBVIOUS
  <2>1. Above(after, before) /\ after # before
    BY <1>3, <1>4, <1>8, <1>9
  <2>2. rankOf[after] # rankOf[before] /\ rankOf[before] # NoRank
    BY <1>4, <2>1
  <2> QED BY <1>8, <1>9, <2>1, <2>2 DEF Above
<1>11. key \in ProperRanks /\ key # NoRank
  BY <1>1, <1>8, <1>9, RankBetweenProper, KeysAreWords
<1>12. /\ after # NoRank => SortsBefore(KeyAt(after), key)
       /\ before # NoRank => SortsBefore(key, KeyAt(before))
  BY <1>1, <1>8, <1>9, <1>10, RankBetweenIsBetween
<1>13. after # NoRank => Above(after, c) /\ rankOf[after] # NoRank
  BY <1>4, <1>8, <1>12 DEF Above
<1>14. before # NoRank => Above(c, before)
  BY <1>9, <1>11, <1>12 DEF Above
<1> HIDE DEF key
<1>15. \A x \in S \ {c} :
         \/ after # NoRank /\ (x = after \/ Above(x, after))
         \/ before # NoRank /\ (x = before \/ Above(before, x))
  BY <1>4, <1>6
<1>16. after # NoRank => NextTo(after, c, s)
  <2> SUFFICES ASSUME after # NoRank PROVE NextTo(after, c, s)
    OBVIOUS
  <2>1. after \in S /\ <<after, c>> \in BoardOrder
    BY <1>2, <1>3, <1>4, <1>6, <1>8, <1>13
  <2>2. \A x \in S : x = after \/ x = c \/ <<x, after>> \in BoardOrder \/ <<c, x>> \in BoardOrder
    <3> SUFFICES ASSUME NEW x \in S, x # c, x # after PROVE Above(x, after) \/ Above(c, x)
      BY <1>2, <1>3, <1>6, <1>8
    <3> QED BY <1>2, <1>3, <1>6, <1>9, <1>14, <1>15
  <2>3. NothingBetween(after, c, S, BoardOrder)
    BY <2>1, <2>2 DEF NothingBetween
  <2> QED BY <1>3, <1>6, <2>1, <2>3, SideBySide
<1>17. before # NoRank => NextTo(c, before, s)
  <2> SUFFICES ASSUME before # NoRank PROVE NextTo(c, before, s)
    OBVIOUS
  <2>1. before \in S /\ <<c, before>> \in BoardOrder
    BY <1>2, <1>3, <1>4, <1>6, <1>9, <1>14
  <2>2. \A x \in S : x = c \/ x = before \/ <<x, c>> \in BoardOrder \/ <<before, x>> \in BoardOrder
    <3> SUFFICES ASSUME NEW x \in S, x # c, x # before PROVE Above(x, c) \/ Above(before, x)
      BY <1>2, <1>3, <1>6, <1>9
    <3> QED BY <1>2, <1>3, <1>6, <1>8, <1>13, <1>15
  <2>3. NothingBetween(c, before, S, BoardOrder)
    BY <2>1, <2>2 DEF NothingBetween
  <2> QED BY <1>3, <1>6, <2>1, <2>3, SideBySide
<1>18. Column(drops[i].column) = s
  BY DEF Column, S
<1> QED BY <1>5, <1>16, <1>17, <1>18 DEF Landed, NextTo, c
=============================================================================

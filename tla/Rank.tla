-------------------------------- MODULE Rank --------------------------------
(***************************************************************************)
(* The ordering keys of board cards (internal/service/rank.go).  A rank is  *)
(* a string over an alphabet of Letters characters, here the numbers        *)
(* 1..Letters, with 0 for the floor character that sorts below them all;    *)
(* the empty sequence is no rank.  A card is placed between two others by   *)
(* writing one key between theirs.                                          *)
(***************************************************************************)
EXTENDS Naturals, Integers, Sequences

CONSTANTS
  Letters,     \* the size of the alphabet (35 in the code)
  FirstRank    \* the letter an unordered column starts with ("n" in the code)

ASSUME RankAssumption == Letters \in Nat \ {0, 1} /\ FirstRank \in 1..Letters

NoRank == <<>>

\* byteAt: the character of s at i, or the fallback past its end.
byteAt(s, i, fallback) == IF i <= Len(s) THEN s[i] ELSE fallback

\* Byte order.
SortsBefore(s, t) ==
  \E i \in 1..Len(t) :
    /\ \A j \in 1..(i - 1) : byteAt(s, j, -1) = t[j]
    /\ byteAt(s, i, -1) < t[i]

\* Fault: half of the way is rounded up twice.
rankAfter_Rounded(prev) ==
  IF prev = NoRank THEN <<FirstRank>>
  ELSE LET n == Len(prev) IN
       IF prev[n] \in 1..(Letters - 1) THEN [prev EXCEPT ![n] = (prev[n] + Letters) \div 2 + 2]
       ELSE prev \o <<FirstRank>>

\* A rank after prev: halfway to the top of the alphabet in its last character, or one
\* character longer when that is at the top.
rankAfter(prev) ==
  IF prev = NoRank THEN <<FirstRank>>
  ELSE LET n == Len(prev) IN
       IF prev[n] \in 1..(Letters - 1) THEN [prev EXCEPT ![n] = (prev[n] - 1 + Letters) \div 2 + 1]
       ELSE prev \o <<FirstRank>>

\* A rank before next: its leading characters that leave no room below are replaced by the
\* floor, and the first that leaves some is halved.
rankBefore(next) ==
  LET full == CHOOSE n \in 0..Len(next) :
                /\ \A i \in 1..n : next[i] <= 1
                /\ n = Len(next) \/ next[n + 1] > 1
  IN [i \in 1..full |-> 0]
       \o (IF full = Len(next) THEN <<FirstRank>> ELSE <<(next[full + 1] - 1) \div 2 + 1>>)

\* Fault: adjacent characters are taken for characters with room between them.
rankMid_Adjacent(prev, next) ==
  LET i == CHOOSE i \in 1..Len(next) :
             /\ byteAt(prev, i, 0) # next[i]
             /\ \A j \in 1..(i - 1) : byteAt(prev, j, 0) = next[j]
  IN SubSeq(next, 1, i - 1) \o <<(byteAt(prev, i, 0) + next[i] - 2) \div 2 + 1>>

\* A rank between two ordered ones.  At the first difference: the middle character, if one
\* lies between; otherwise prev's character, and then anything after the rest of prev.
rankMid(prev, next) ==
  LET i == CHOOSE i \in 1..Len(next) :
             /\ byteAt(prev, i, 0) # next[i]
             /\ \A j \in 1..(i - 1) : byteAt(prev, j, 0) = next[j]
      lo == byteAt(prev, i, 0)
      hi == next[i]
  IN SubSeq(next, 1, i - 1)
       \o (IF hi > 0 /\ hi - lo >= 2 THEN <<(lo + hi - 2) \div 2 + 1>>
           ELSE <<lo>> \o rankAfter(SubSeq(prev, i + 1, Len(prev))))

\* The rank of a card dropped between two.  No rank on one side means that end of the
\* column; neighbours out of order mean a stale page, and the card goes after the first.
RankBetween(prev, next) ==
  IF prev = NoRank /\ next = NoRank THEN <<FirstRank>>
  ELSE IF prev = NoRank THEN rankBefore(next)
  ELSE IF next = NoRank \/ ~SortsBefore(prev, next) THEN rankAfter(prev)
  ELSE rankMid(prev, next)
=============================================================================
